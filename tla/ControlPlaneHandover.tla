------------------------- MODULE ControlPlaneHandover -------------------------
(***************************************************************************)
(* How one agent is handed from the Community control plane (the source)   *)
(* to an Enterprise one (the target) and back.  The agent keeps a handover *)
(* Secret with what it needs to return, a bootstrap Secret with the        *)
(* endpoint and the install token, and a credential Secret; its process    *)
(* reads the latter two when it starts.  Commands arrive over whichever    *)
(* connection the process has and each runs in a goroutine of its own; a   *)
(* watcher rolls an expired handover back.  Each write to the Kubernetes   *)
(* API is one step, and the process may stop between any two.              *)
(*                                                                         *)
(* The coordinator that sends the commands is part of the target and not   *)
(* in this repository.                                                     *)
(***************************************************************************)
EXTENDS Integers, FiniteSets

CONSTANT Passages   \* the histories to look at

Routines == {"task", "again", "watch"}   \* a command, one delivered again, the watcher
Commands == {"prepare", "confirm", "commit", "rollback", "cleanup"}

\* A passage bounds how often the process stops, the connection drops, a command is
\* delivered again and a call of the Kubernetes API fails, and says what the coordinator wants.
ASSUME PassageAssumption ==
  Passages \subseteq [stops : Nat, drops : Nat, again : Nat, fails : Nat, wants : {"commit", "rollback"}]

VARIABLES
  passage,    \* what is left of the bounds
  secret,     \* the status in the handover Secret, none without one
  bootstrap,  \* the endpoint in the bootstrap Secret
  saved,      \* the credential Secret: none, or whose credential it holds
  process,    \* the running process: its endpoint, what it shows, and its connection
  rolling,    \* the Deployment was told to restart the process
  token,      \* the target's install token for this cluster
  routine,    \* what each goroutine runs and how far it is
  expired,    \* the rollback deadline has passed
  told,       \* the commands the coordinator has sent
  heard,      \* the commands the agent has reported as completed
  marks       \* what happened (not in the code)

handVars == <<passage, secret, bootstrap, saved, process, rolling, token, routine, expired, told, heard, marks>>

Unused == [cmd |-> "none", at |-> 0]

HandoverTypeOK ==
  /\ secret \in {"none", "prepared", "target-confirmed", "committed"}
  /\ bootstrap \in {"source", "target"} /\ saved \in {"none", "source", "target"}
  /\ process.to \in {"source", "target"} /\ process.shows \in {"token", "source", "target"}
  /\ {process.on, process.unsaved} \subseteq BOOLEAN /\ process.is \in {"new", "ending", "up"}
  /\ rolling \in BOOLEAN /\ expired \in BOOLEAN /\ token \in {"fresh", "used"}
  /\ routine \in [Routines -> [cmd : Commands \cup {"none"}, at : 0..3]]
  /\ told \subseteq Commands /\ heard \subseteq Commands
  /\ marks \subseteq {"committed", "resaved", "repeated", "unrolled", "returned", "raced", "lost"}

HandoverInit ==
  /\ passage \in Passages
  /\ secret = "none" /\ bootstrap = "source" /\ saved = "source"
  /\ process = [to |-> "source", shows |-> "source", on |-> TRUE, is |-> "up", unsaved |-> FALSE]
  /\ rolling = FALSE /\ token = "fresh" /\ routine = [r \in Routines |-> Unused]
  /\ expired = FALSE /\ told = {} /\ heard = {} /\ marks = {}

-----------------------------------------------------------------------------
(* The process: main, Client.Register, the credential store *)

\* The container starts anew: Secrets become its configuration, its goroutines are gone.
Started ==
  /\ process' = [to |-> bootstrap, shows |-> IF saved = "none" THEN "token" ELSE saved,
                 on |-> FALSE, is |-> "new", unsaved |-> FALSE]
  /\ routine' = [r \in Routines |-> Unused]
  /\ marks' = IF process.unsaved /\ saved = "none" THEN marks \cup {"lost"} ELSE marks
Roll ==
  /\ rolling /\ rolling' = FALSE /\ Started
  /\ UNCHANGED <<passage, secret, bootstrap, saved, token, expired, told, heard>>
StopProcess ==
  /\ passage.stops > 0 /\ passage' = [passage EXCEPT !.stops = @ - 1] /\ Started
  /\ UNCHANGED <<secret, bootstrap, saved, rolling, token, expired, told, heard>>

Lapsed_Bug == expired /\ secret # "none"
Lapsed == expired /\ secret \notin {"none", "committed"}

\* Before it connects, the process rolls an expired handover back and ends, whether that
\* succeeds or not, to be started again; otherwise it goes on and its watcher runs.
StartUp ==
  /\ process.is = "new"
  /\ process' = [process EXCEPT !.is = IF Lapsed THEN "ending" ELSE "up"]
  /\ routine' = IF Lapsed THEN [routine EXCEPT !["watch"] = [cmd |-> "rollback", at |-> 0]] ELSE routine
  /\ UNCHANGED <<passage, secret, bootstrap, saved, rolling, token, expired, told, heard, marks>>
EndUp ==
  /\ process.is = "ending" /\ routine["watch"] = Unused /\ Started
  /\ UNCHANGED <<passage, secret, bootstrap, saved, rolling, token, expired, told, heard>>

\* watchHandoverDeadline: RollbackExpired looks at the Secret, then calls Rollback.
watchHandoverDeadline ==
  /\ process.is = "up" /\ Lapsed /\ routine["watch"] = Unused
  /\ routine' = [routine EXCEPT !["watch"] = [cmd |-> "rollback", at |-> 0]]
  /\ UNCHANGED <<passage, secret, bootstrap, saved, process, rolling, token, expired, told, heard, marks>>

\* A control plane accepts its own credential; the target also accepts its install token
\* once (the branch of RegisterCluster for a pre-bound token).
Accepts(p) ==
  \/ p.shows = p.to
  \/ p.to = "target" /\ p.shows = "token" /\ token = "fresh"
Connect ==
  /\ process.is = "up" /\ ~process.on /\ Accepts(process)
  /\ token' = IF process.shows = "token" THEN "used" ELSE token
  /\ process' = [process EXCEPT !.on = TRUE, !.shows = process.to, !.unsaved = TRUE]
  /\ UNCHANGED <<passage, secret, bootstrap, saved, rolling, routine, expired, told, heard, marks>>
DropLink ==
  /\ process.on /\ passage.drops > 0 /\ passage' = [passage EXCEPT !.drops = @ - 1]
  /\ process' = [process EXCEPT !.on = FALSE]
  /\ UNCHANGED <<secret, bootstrap, saved, rolling, token, routine, expired, told, heard, marks>>

\* persistCredentialWithRetry writes what the process was accepted with, in a goroutine
\* that no command waits for.
Persist ==
  /\ process.unsaved /\ process' = [process EXCEPT !.unsaved = FALSE] /\ saved' = process.to
  /\ marks' = IF bootstrap # process.to \/ (\E r \in Routines : routine[r].cmd \in {"prepare", "rollback"})
              THEN marks \cup {"resaved"} ELSE marks
  /\ UNCHANGED <<passage, secret, bootstrap, rolling, token, routine, expired, told, heard>>

-----------------------------------------------------------------------------
(* The commands: executeControlPlaneHandoverTask in the routine r *)

Run(r, cmd, at) == routine[r].cmd = cmd /\ routine[r].at = at
Goto(r, n) == routine' = [routine EXCEPT ![r].at = n]
Done(r) ==
  /\ routine' = [routine EXCEPT ![r] = Unused]
  /\ heard' = IF r = "watch" THEN heard ELSE heard \cup {routine[r].cmd}
Fail(r) == routine' = [routine EXCEPT ![r] = Unused] /\ UNCHANGED heard

\* Prepare: the state, the bootstrap, the credential and the restart, one write each.
Prepare(r) ==
  \/ /\ Run(r, "prepare", 0)
     /\ IF expired THEN Fail(r) /\ UNCHANGED secret
                   ELSE secret' = "prepared" /\ Goto(r, 1) /\ UNCHANGED heard
     /\ UNCHANGED <<bootstrap, saved, rolling>>
  \/ /\ Run(r, "prepare", 1) /\ bootstrap' = "target" /\ Goto(r, 2)
     /\ UNCHANGED <<secret, saved, rolling, heard>>
  \/ /\ Run(r, "prepare", 2) /\ saved' = "none" /\ Goto(r, 3)
     /\ UNCHANGED <<secret, bootstrap, rolling, heard>>
  \/ /\ Run(r, "prepare", 3) /\ rolling' = TRUE /\ Done(r)
     /\ UNCHANGED <<secret, bootstrap, saved>>

\* Confirm writes target-confirmed over whatever status it has read.
Confirm(r) ==
  /\ \/ /\ Run(r, "confirm", 0) /\ UNCHANGED <<secret, heard>>
        /\ IF secret = "none" THEN routine' = [routine EXCEPT ![r] = Unused] ELSE Goto(r, 1)
     \/ Run(r, "confirm", 1) /\ secret' = "target-confirmed" /\ Done(r)
  /\ UNCHANGED <<bootstrap, saved, rolling>>

Commit(r) ==
  /\ \/ /\ Run(r, "commit", 0) /\ UNCHANGED secret
        /\ CASE secret = "target-confirmed" -> Goto(r, 1) /\ UNCHANGED heard
             [] secret = "committed" -> Done(r)
             [] OTHER -> Fail(r)
     \/ Run(r, "commit", 1) /\ secret' = "committed" /\ Done(r)
  /\ UNCHANGED <<bootstrap, saved, rolling>>

\* Rollback: the previous endpoint, the previous credential, the end of the Secret and
\* the restart.
Rollback_Bug(r) ==
  \/ /\ Run(r, "rollback", 0)
     /\ IF secret = "none" THEN Fail(r) /\ UNCHANGED secret
                           ELSE secret' = "none" /\ Goto(r, 1) /\ UNCHANGED heard
     /\ UNCHANGED <<bootstrap, saved, rolling>>
  \/ /\ Run(r, "rollback", 1) /\ bootstrap' = "source" /\ Goto(r, 2)
     /\ UNCHANGED <<secret, saved, rolling, heard>>
  \/ /\ Run(r, "rollback", 2) /\ saved' = "source" /\ Goto(r, 3)
     /\ UNCHANGED <<secret, bootstrap, rolling, heard>>
  \/ /\ Run(r, "rollback", 3) /\ rolling' = TRUE /\ Done(r)
     /\ UNCHANGED <<secret, bootstrap, saved>>
Rollback_Unrolled(r) ==
  \/ /\ Run(r, "rollback", 0)
     /\ IF secret = "none" THEN Fail(r) /\ UNCHANGED bootstrap
                           ELSE bootstrap' = "source" /\ Goto(r, 1) /\ UNCHANGED heard
     /\ UNCHANGED <<secret, saved, rolling>>
  \/ /\ Run(r, "rollback", 1) /\ saved' = "source" /\ Goto(r, 2)
     /\ UNCHANGED <<secret, bootstrap, rolling, heard>>
  \/ /\ Run(r, "rollback", 2) /\ secret' = "none" /\ Done(r)
     /\ UNCHANGED <<bootstrap, saved, rolling>>
Rollback(r) ==
  \/ /\ Run(r, "rollback", 0)
     /\ IF secret = "none" THEN Fail(r) /\ UNCHANGED bootstrap
                           ELSE bootstrap' = "source" /\ Goto(r, 1) /\ UNCHANGED heard
     /\ UNCHANGED <<secret, saved, rolling>>
  \/ /\ Run(r, "rollback", 1) /\ saved' = "source" /\ Goto(r, 2)
     /\ UNCHANGED <<secret, bootstrap, rolling, heard>>
  \/ /\ Run(r, "rollback", 2) /\ secret' = "none" /\ Goto(r, 3)
     /\ UNCHANGED <<bootstrap, saved, rolling, heard>>
  \/ /\ Run(r, "rollback", 3) /\ rolling' = TRUE /\ Done(r)
     /\ UNCHANGED <<secret, bootstrap, saved>>

Cleanup(r) ==
  /\ \/ /\ Run(r, "cleanup", 0) /\ UNCHANGED secret
        /\ CASE secret = "none" -> Done(r)
             [] secret = "committed" -> Goto(r, 1) /\ UNCHANGED heard
             [] OTHER -> Fail(r)
     \/ Run(r, "cleanup", 1) /\ secret' = "none" /\ Done(r)
  /\ UNCHANGED <<bootstrap, saved, rolling>>

\* What has happened, for the properties.
Marked ==
  marks' = marks
    \cup (IF secret' = "committed" /\ secret # "committed"
          THEN {"committed"} \cup (IF expired THEN {"raced"} ELSE {}) ELSE {})
    \cup (IF secret' = "none" /\ secret \notin {"none", "committed"} THEN {"returned"} ELSE {})
Work(r) ==
  /\ Prepare(r) \/ Confirm(r) \/ Commit(r) \/ Rollback(r) \/ Cleanup(r)
  /\ Marked
  /\ UNCHANGED <<passage, process, token, expired, told>>

\* A call of the Kubernetes API fails and ends the command.  A rollback that fails at its
\* last write has lost the Secret that a later try would need.
ApiFails(r) ==
  /\ routine[r] # Unused /\ passage.fails > 0 /\ passage' = [passage EXCEPT !.fails = @ - 1]
  /\ Fail(r)
  /\ marks' = IF Run(r, "rollback", 3) /\ process.is = "up" THEN marks \cup {"unrolled"} ELSE marks
  /\ UNCHANGED <<secret, bootstrap, saved, process, rolling, token, expired, told>>

-----------------------------------------------------------------------------
(* The coordinator, and the deliveries of the control planes *)

\* The source sends prepare; the target, once connected, confirms, and then commits and
\* cleans up, or rolls back.
MaySend(cmd) ==
  CASE cmd = "prepare" -> process.to = "source"
    [] cmd = "confirm" -> process.to = "target"
    [] cmd = "commit" -> passage.wants = "commit" /\ "confirm" \in heard
    [] cmd = "cleanup" -> "commit" \in heard
    [] cmd = "rollback" -> passage.wants = "rollback" /\ process.to = "target"
dispatchControlPlaneHandover(cmd) ==
  /\ cmd \notin told /\ process.on /\ MaySend(cmd) /\ routine["task"] = Unused
  /\ told' = told \cup {cmd} /\ routine' = [routine EXCEPT !["task"] = [cmd |-> cmd, at |-> 0]]
  /\ UNCHANGED <<passage, secret, bootstrap, saved, process, rolling, token, expired, heard, marks>>

\* redispatchPendingTasks: a command that was not seen to be accepted is sent again when
\* the agent connects to the control plane it came from.
RedispatchCommand(cmd) ==
  /\ process.on /\ passage.again > 0 /\ cmd \in told /\ routine["again"] = Unused
  /\ process.to = IF cmd = "prepare" THEN "source" ELSE "target"
  /\ passage' = [passage EXCEPT !.again = @ - 1]
  /\ routine' = [routine EXCEPT !["again"] = [cmd |-> cmd, at |-> 0]]
  /\ marks' = IF cmd = "confirm" THEN marks \cup {"repeated"} ELSE marks
  /\ UNCHANGED <<secret, bootstrap, saved, process, rolling, token, expired, told, heard>>

\* The deadline passes, perhaps while a prepare that came late is still at work.
Preparing == \E r \in Routines : routine[r].cmd = "prepare"
Expire ==
  /\ ~expired /\ told # {} /\ expired' = TRUE
  /\ marks' = IF Preparing THEN marks \cup {"raced"} ELSE marks
  /\ UNCHANGED <<passage, secret, bootstrap, saved, process, rolling, token, routine, told, heard>>

HandoverNext ==
  \/ Roll \/ StopProcess \/ StartUp \/ EndUp \/ watchHandoverDeadline \/ Connect \/ DropLink \/ Persist
  \/ \E r \in Routines : Work(r) \/ ApiFails(r)
  \/ \E cmd \in Commands : dispatchControlPlaneHandover(cmd) \/ RedispatchCommand(cmd)
  \/ Expire

\* The agent's own threads and the Deployment controller go on, and time passes.
HandoverFairness ==
  /\ WF_handVars(Roll) /\ WF_handVars(StartUp) /\ WF_handVars(EndUp) /\ WF_handVars(watchHandoverDeadline)
  /\ WF_handVars(Connect) /\ WF_handVars(Persist) /\ WF_handVars(Expire)
  /\ \A r \in Routines : WF_handVars(Work(r))
HandoverSpec == HandoverInit /\ [][HandoverNext]_handVars /\ HandoverFairness

-----------------------------------------------------------------------------
(* Properties *)

\* The deadline watcher moves no agent back once the commit is in the Secret: a handover
\* committed before its deadline, with a confirm that was delivered once, is never undone.
CommittedIsNotUndone ==
  []["committed" \in marks /\ marks \cap {"repeated", "raced"} = {} =>
     (bootstrap = "target" => bootstrap' = "target")]_handVars

\* Without a handover Secret the bootstrap and the credential belong together, whatever
\* write of a prepare or a rollback was the last: there is always a Secret to return with
\* while they do not.
SecretCoversTheChange ==
  secret = "none" /\ marks \cap {"resaved", "raced", "repeated"} = {}
    => saved = bootstrap \/ (bootstrap = "target" /\ "committed" \in marks)

\* The agent is connected in the end, to the target or back to the source, although its
\* process may stop and calls may fail anywhere, unless a process that a command had
\* already replaced wrote its credential once more.
AgentIsReached ==
  <>[](\/ process.on \/ marks \cap {"resaved", "raced", "repeated"} # {}
       \/ {"lost", "committed"} \subseteq marks)

\* An agent that rolled back runs against the source in the end, unless the last write of
\* the rollback failed.
ReturnIsComplete ==
  "returned" \in marks ~> (process.to = bootstrap \/ "unrolled" \in marks)

\* There is a way back for as long as one may be needed.
HandoverSafety == HandoverTypeOK /\ SecretCoversTheChange
=============================================================================
