------------------------- MODULE MCPlanLifecycle -------------------------
(* Instances of PlanLifecycle for TLC. *)
EXTENDS PlanLifecycle

\* One activation and one cleanup of a plan with two clusters ...
Quiet == [target |-> TRUE, scheduled |-> FALSE, syncs |-> 2, requests |-> 1,
          runs |-> 1, drills |-> 0, others |-> 0, touches |-> 0]
\* ... and of a scheduled one with one cluster.
Alone == [Quiet EXCEPT !.target = FALSE, !.scheduled = TRUE]

Histories == {
  Quiet,
  \* the cleanup of a drill
  [Quiet EXCEPT !.scheduled = TRUE, !.syncs = 1, !.drills = 1],
  \* a cleanup that is begun again
  [Alone EXCEPT !.runs = 2],
  \* a second request, with every retry of a sync, and with a cleanup
  [Alone EXCEPT !.scheduled = FALSE, !.syncs = 3, !.requests = 2, !.runs = 0],
  [Alone EXCEPT !.scheduled = FALSE, !.syncs = 1, !.requests = 2],
  \* a repository that is updated or tested, or synced for another purpose
  [Alone EXCEPT !.touches = 1],
  [Alone EXCEPT !.others = 1]}

=============================================================================
