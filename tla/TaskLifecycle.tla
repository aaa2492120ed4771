---------------------------- MODULE TaskLifecycle ----------------------------
(***************************************************************************)
(* What the platform promises about its tasks, whatever happens between    *)
(* the platform, the network and the agents: a task is opened once, ends   *)
(* at most once, and its outcome never changes.  With fairness every task  *)
(* that is opened ends.                                                    *)
(***************************************************************************)
CONSTANT Tasks

VARIABLE state

Outcomes == {"succeeded", "failed", "canceled"}

Init == state = [t \in Tasks |-> "none"]

Open(t) == /\ state[t] = "none"
           /\ state' = [state EXCEPT ![t] = "open"]

End(t, o) == /\ state[t] = "open"
             /\ state' = [state EXCEPT ![t] = o]

Next == \E t \in Tasks : Open(t) \/ \E o \in Outcomes : End(t, o)

Spec == Init /\ [][Next]_state

FairSpec == Spec /\ \A t \in Tasks : WF_state(\E o \in Outcomes : End(t, o))
==============================================================================
