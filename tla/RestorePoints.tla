--------------------------- MODULE RestorePoints ---------------------------
(***************************************************************************)
(* The life of the restore points of one protection plan: admission of     *)
(* backup tasks, quota reservations, replacement of an old point by a new  *)
(* one, manual and automatic deletion, recovery references, retention      *)
(* marks, and forced stop of a running backup.                             *)
(*                                                                         *)
(* Every operation of the store runs in a transaction that locks the row   *)
(* of the protection plan (quotaPlanLock), so one transaction is one       *)
(* action.  An HTTP handler or a scheduler pass that runs several          *)
(* transactions is several actions.                                        *)
(*                                                                         *)
(* A restore point is named by the backup task that publishes it: the      *)
(* Velero name of a point is unique and belongs to one task.  Tasks are    *)
(* numbered in the order of their creation, so "oldest" is "least".        *)
(***************************************************************************)
EXTENDS Integers, FiniteSets

CONSTANTS
  Backups,      \* backup tasks, and the restore points they publish
  Cleanups,     \* retention-cleanup tasks
  Recoveries,   \* drill, restore and takeover tasks
  Counts,       \* retention counts the plan's policy may be edited to; 0: no limit
  Switches,     \* retention counts of the other policies the plan may be moved to
  Selectable,   \* points that retention rules may select at some time
  Retainable,   \* points the user may retain or release
  Cancelable,   \* backups the user may force to stop
  NoCleanup,    \* "no cleanup task"
  Redeliver     \* whether an acknowledgement may be lost and the report sent again

ASSUME BackupsAssumption ==
  Backups \subseteq Nat \ {0} /\ IsFiniteSet(Backups)
ASSUME CountsAssumption ==
  Counts \subseteq Nat /\ Switches \subseteq Nat /\ 0 \in Counts
ASSUME NamesAssumption ==
  /\ NoCleanup \notin Cleanups
  /\ Selectable \subseteq Backups /\ Retainable \subseteq Backups
  /\ Cancelable \subseteq Backups
  /\ Redeliver \in BOOLEAN

None == 0

VARIABLES
  count,      \* retention count of the plan's policy
  task,       \* status of a backup task
  result,     \* payload.backupResult of a backup task is set
  unmarked,   \* backups sent to the agent whose "dispatched" write is still to come
  resv,       \* state of the restore_point_reservations row of a backup
  repl,       \* its replacement_point_id
  cleanupOf,  \* its cleanup_task_id
  point,      \* status of a restore point
  rstate,     \* metadata.retentionState of a point
  manual,     \* points with metadata.manualRetained
  drill,      \* points with metadata.drillRetained
  owner,      \* metadata.replacementTaskId of a point
  claim,      \* points claimed by a running deletion handler, cleanup task not yet created
  retention,  \* reconcileRetention is to run
  ctask,      \* status of a retention-cleanup task
  cpoints,    \* its payload.restorePoints
  rtask,      \* status of a recovery task
  rpoint,     \* its restore point
  rdrill,     \* it is a drill
  cancel,     \* progress of the forced stop of a backup
  exec,       \* the agent's execution of a backup, up to the acknowledged report
  cexec,      \* the agent's execution of a cleanup
  data        \* the backup's data in Velero

policyVars   == <<count>>
taskVars     == <<task, result, unmarked>>
resvVars     == <<resv, repl, cleanupOf>>
markVars     == <<manual, drill>>
pointVars    == <<point, rstate, owner>>
claimVars    == <<claim, retention>>
cleanupVars  == <<ctask, cpoints>>
recoveryVars == <<rtask, rpoint, rdrill>>
agentVars    == <<exec, cexec, data>>
vars == <<policyVars, taskVars, resvVars, markVars, pointVars, claimVars,
          cleanupVars, recoveryVars, cancel, agentVars>>

(***************************************************************************)
(* Statuses.  "active" stands for queued, dispatched, accepted, running    *)
(* and syncing, which no rule of this code tells apart.  A status is       *)
(* terminal exactly when completed_at is set.                              *)
(***************************************************************************)
Terminal == {"succeeded", "failed", "canceled"}
Aborted == {"failed", "canceled"}
Open == {"active", "finalizing", "canceling"}
InFlight == {"reserved", "data_ready", "deleting"}
Irreversible == {"data_ready", "deleting", "published"}
Claimed == {"pending_delete", "deleting"}
Handlers == {"manual", "retention"}
Report == {"completed", "failed"}

TypeOK ==
  /\ count \in Nat
  /\ task \in [Backups -> {"none"} \cup Open \cup Terminal]
  /\ result \in [Backups -> BOOLEAN]
  /\ unmarked \subseteq Backups
  /\ resv \in [Backups -> {"none", "published", "released"} \cup InFlight]
  /\ repl \in [Backups -> Backups \cup {None}]
  /\ cleanupOf \in [Backups -> Cleanups \cup {NoCleanup}]
  /\ point \in [Backups -> {"absent", "available", "deleted"}]
  /\ rstate \in [Backups -> {"", "delete_failed", "deleted"} \cup Claimed]
  /\ manual \subseteq Backups /\ drill \subseteq Backups
  /\ owner \in [Backups -> Backups \cup {None}]
  /\ claim \in [Handlers -> SUBSET Backups]
  /\ retention \in BOOLEAN
  /\ ctask \in [Cleanups -> {"none", "active"} \cup Terminal]
  /\ cpoints \in [Cleanups -> SUBSET Backups]
  /\ rtask \in [Recoveries -> {"none", "active"} \cup Terminal]
  /\ rpoint \in [Recoveries -> Backups \cup {None}]
  /\ \A r \in Recoveries : rtask[r] = "active" => rpoint[r] # None
  /\ rdrill \in [Recoveries -> BOOLEAN]
  /\ cancel \in [Backups -> {"none", "read", "created", "queued", "executed", "done"}]
  /\ exec \in [Backups -> {"none", "queued", "running", "acked"} \cup Report]
  /\ cexec \in [Cleanups -> {"none", "queued", "running", "acked"} \cup Report]
  /\ data \in [Backups -> {"none", "stored", "gone"}]

Init ==
  /\ count \in Counts
  /\ task = [b \in Backups |-> "none"]
  /\ result = [b \in Backups |-> FALSE]
  /\ unmarked = {}
  /\ resv = [b \in Backups |-> "none"]
  /\ repl = [b \in Backups |-> None]
  /\ cleanupOf = [b \in Backups |-> NoCleanup]
  /\ point = [b \in Backups |-> "absent"]
  /\ rstate = [b \in Backups |-> ""]
  /\ manual = {} /\ drill = {}
  /\ owner = [b \in Backups |-> None]
  /\ claim = [h \in Handlers |-> {}]
  /\ retention = FALSE
  /\ ctask = [c \in Cleanups |-> "none"]
  /\ cpoints = [c \in Cleanups |-> {}]
  /\ rtask = [r \in Recoveries |-> "none"]
  /\ rpoint = [r \in Recoveries |-> None]
  /\ rdrill = [r \in Recoveries |-> FALSE]
  /\ cancel = [b \in Backups |-> "none"]
  /\ exec = [b \in Backups |-> "none"]
  /\ cexec = [c \in Cleanups |-> "none"]
  /\ data = [b \in Backups |-> "none"]

(***************************************************************************)
(* Quota and locks.                                                        *)
(***************************************************************************)
Points == {p \in Backups : point[p] = "available"}

\* A reservation that still needs a slot of its own: it replaces nothing, or
\* what it replaces is already deleted.
Slots(rv) == {b \in Backups : /\ rv[b] \in InFlight
                              /\ repl[b] = None \/ point[repl[b]] = "deleted"}

Used(rv) == Cardinality(Points) + Cardinality(Slots(rv))

pointBusy(p, rv) ==
  \/ \E r \in Recoveries : rtask[r] = "active" /\ rpoint[r] = p
  \/ \E b \in Backups : repl[b] = p /\ rv[b] \in InFlight

pointProtected(p) == p \in manual \/ p \in drill

Stale(b) == resv[b] = "reserved" /\ task[b] \in Aborted

\* releaseFailedBackupReservations: the reservations and the owner marks after it.
Released == [b \in Backups |-> IF Stale(b) THEN "released" ELSE resv[b]]
Unlocked == [p \in Backups |->
               IF \E b \in Backups : Stale(b) /\ repl[b] = p /\ owner[p] = b
                 THEN None ELSE owner[p]]

\* The points reserveBackupQuota may replace while the rules select sel.
Replaceable(sel, rv) ==
  {p \in Points : /\ ~pointProtected(p) /\ p \notin sel
                  /\ rstate[p] \notin Claimed /\ ~pointBusy(p, rv)}

Oldest(S) == CHOOSE p \in S : \A q \in S : p <= q

\* reserveBackupQuota returns ErrRestorePointQuota.
QuotaExhausted(sel) ==
  /\ count > 0 /\ Used(Released) >= count
  /\ Used(Released) > count \/ Replaceable(sel, Released) = {}

\* Mutant of Replacement: a full plan still has a slot.
Replacement_OffByOne(sel) ==
  IF count > 0 /\ Used(Released) > count
    THEN Oldest(Replaceable(sel, Released)) ELSE None

\* The replacement_point_id of the reservation it inserts, and the row's state.
Replacement(sel) ==
  IF count > 0 /\ Used(Released) >= count
    THEN Oldest(Replaceable(sel, Released)) ELSE None
NewReservation == IF count > 0 THEN "reserved" ELSE "none"

\* The owner marks once the reservation of b for p is inserted.
OwnerAfterReserve(b, p) ==
  IF p = None THEN Unlocked ELSE [Unlocked EXCEPT ![p] = b]

\* Mutants of StatusAfter: the stage of the replacement in the status column; a
\* stopped task ends although its data is ready; a late report reopens a task.
StatusAfter_Stage(b, s) ==
  IF task[b] \in Terminal THEN task[b]
  ELSE IF s \in Aborted /\ resv[b] \in Irreversible THEN "data_ready" ELSE s
StatusAfter_Ends(b, s) == IF task[b] \in Terminal THEN task[b] ELSE s
StatusAfter_Reopens(b, s) ==
  IF s \in Aborted /\ resv[b] \in Irreversible THEN "finalizing" ELSE s

(***************************************************************************)
(* UpdateTaskStatus on a backup task.  A terminal status is never changed; *)
(* a task whose data is being published cannot be ended by anything but    *)
(* success; ending it while it is only reserved releases the reservation.  *)
(***************************************************************************)
StatusAfter(b, s) ==
  IF task[b] \in Terminal THEN task[b]
  ELSE IF s \in Aborted /\ resv[b] \in Irreversible THEN "finalizing"
  ELSE s

\* Mutants of UpdateTaskStatus: the lock of the old point is forgotten; ending a
\* task releases its reservation in every state.
UpdateTaskStatus_KeepsLock(b, s) ==
  LET release == s \in Terminal /\ StatusAfter(b, s) \in Aborted /\ resv[b] = "reserved"
  IN  /\ task' = [task EXCEPT ![b] = StatusAfter(b, s)]
      /\ resv' = [resv EXCEPT ![b] = IF release THEN "released" ELSE @]
      /\ UNCHANGED owner
UpdateTaskStatus_ReleasesAll(b, s) ==
  LET release == s \in Aborted /\ resv[b] \in InFlight
  IN  /\ task' = [task EXCEPT ![b] = IF release THEN s ELSE StatusAfter(b, s)]
      /\ resv' = [resv EXCEPT ![b] = IF release THEN "released" ELSE @]
      /\ owner' = IF release /\ repl[b] # None
                    THEN [owner EXCEPT ![repl[b]] = None] ELSE owner

UpdateTaskStatus(b, s) ==
  LET release == s \in Terminal /\ StatusAfter(b, s) \in Aborted /\ resv[b] = "reserved"
  IN  /\ task' = [task EXCEPT ![b] = StatusAfter(b, s)]
      /\ resv' = [resv EXCEPT ![b] = IF release THEN "released" ELSE @]
      /\ owner' = IF release /\ repl[b] # None
                    THEN [owner EXCEPT ![repl[b]] = None] ELSE owner

(***************************************************************************)
(* Backup tasks.                                                           *)
(***************************************************************************)
Fresh(b) == /\ task[b] = "none"
            /\ \A a \in Backups : a < b => task[a] # "none"

\* Mutant of PlanBusy: running backups are not counted.
PlanBusy_Reservations == \E b \in Backups : resv[b] \in {"data_ready", "deleting"}

PlanBusy == \/ \E b \in Backups : task[b] \in Open
            \/ \E b \in Backups : resv[b] \in {"data_ready", "deleting"}

\* CreateTask(backup).  Without quota the task is recorded as failed and never
\* dispatched.
CreateBackup(b, sel) ==
  /\ Fresh(b) /\ ~PlanBusy
  /\ IF QuotaExhausted(sel)
       THEN /\ task' = [task EXCEPT ![b] = "failed"]
            /\ resv' = Released /\ owner' = Unlocked
            /\ UNCHANGED <<repl, unmarked, exec>>
       ELSE /\ task' = [task EXCEPT ![b] = "active"]
            /\ resv' = [Released EXCEPT ![b] = NewReservation]
            /\ repl' = [repl EXCEPT ![b] = Replacement(sel)]
            /\ owner' = OwnerAfterReserve(b, Replacement(sel))
            /\ unmarked' = unmarked \cup {b}
            /\ exec' = [exec EXCEPT ![b] = "queued"]
  /\ UNCHANGED <<policyVars, result, cleanupOf, markVars, point, rstate, claimVars,
                 cleanupVars, recoveryVars, cancel, cexec, data>>

\* The dispatcher writes "dispatched" after the message is on the wire, or
\* "queued" when it cannot be written: the agent's reports may be handled first.
MarkDispatched(b) ==
  /\ b \in unmarked
  /\ unmarked' = unmarked \ {b}
  /\ UpdateTaskStatus(b, "active")
  /\ UNCHANGED <<policyVars, result, repl, cleanupOf, markVars, point, rstate, claimVars,
                 cleanupVars, recoveryVars, cancel, agentVars>>

\* The storage of the plan cannot be synchronised before the dispatch: the task
\* fails and the agent never sees it.
DispatchFails(b) ==
  /\ b \in unmarked /\ exec[b] = "queued"
  /\ unmarked' = unmarked \ {b}
  /\ exec' = [exec EXCEPT ![b] = "none"]
  /\ UpdateTaskStatus(b, "failed")
  /\ UNCHANGED <<policyVars, result, repl, cleanupOf, markVars, point, rstate, claimVars,
                 cleanupVars, recoveryVars, cancel, cexec, data>>

\* The agent reconnects: a task still queued or dispatched is dispatched again.
RedispatchPendingTasks(b) ==
  /\ task[b] = "active" /\ b \notin unmarked /\ exec[b] \in {"queued", "running"}
  /\ unmarked' = unmarked \cup {b}
  /\ UNCHANGED <<policyVars, task, result, resvVars, markVars, pointVars, claimVars,
                 cleanupVars, recoveryVars, cancel, agentVars>>

\* task.accepted and task.progress of a backup.
BackupReported(b) ==
  /\ exec[b] = "running" /\ task[b] \in Open /\ ~result[b]
  /\ UpdateTaskStatus(b, "active")
  /\ UNCHANGED <<policyVars, result, unmarked, repl, cleanupOf, markVars, point, rstate,
                 claimVars, cleanupVars, recoveryVars, cancel, agentVars>>

\* The agent keeps a report until it is acknowledged.
Acked(e, x) == \/ e' = [e EXCEPT ![x] = "acked"]
               \/ Redeliver /\ e' = e

ForceStopped(b) == task[b] \in {"canceling", "canceled"}

\* task.completed of a backup without complete size metrics: kept by the agent.
BackupIncomplete(b) ==
  /\ exec[b] = "completed" /\ ~ForceStopped(b) /\ ~result[b]
  /\ UpdateTaskStatus(b, "finalizing")
  /\ UNCHANGED <<policyVars, result, unmarked, repl, cleanupOf, markVars, point, rstate,
                 claimVars, cleanupVars, recoveryVars, cancel, agentVars>>

(***************************************************************************)
(* PublishBackupResult for a task that is neither ended nor being stopped. *)
(* A backup without a reservation reserves now.  While the point to be     *)
(* replaced exists the result is only recorded; otherwise the point is     *)
(* published and the task succeeds.                                        *)
(***************************************************************************)
Publishable(b, sel) ==
  /\ task[b] \in {"active", "finalizing"}
  /\ resv[b] # "released"
  /\ resv[b] = "none" => ~QuotaExhausted(sel)

\* Mutant of Publish: the old point need not be gone.
Publish_NoWait(b, sel) ==
  LET new == resv[b] = "none"
      old == IF new THEN Replacement(sel) ELSE repl[b]
  IN  /\ repl' = [repl EXCEPT ![b] = old]
      /\ owner' = IF new THEN OwnerAfterReserve(b, old) ELSE Unlocked
      /\ result' = [result EXCEPT ![b] = TRUE]
      /\ resv' = [Released EXCEPT ![b] = IF new /\ count = 0 THEN "none" ELSE "published"]
      /\ task' = [task EXCEPT ![b] = "succeeded"]
      /\ point' = [point EXCEPT ![b] = "available"]

Publish(b, sel) ==
  LET new == resv[b] = "none"
      state == IF new THEN NewReservation ELSE resv[b]
      old == IF new THEN Replacement(sel) ELSE repl[b]
      wait == old # None /\ point[old] # "deleted"
  IN  /\ repl' = [repl EXCEPT ![b] = old]
      /\ owner' = IF new THEN OwnerAfterReserve(b, old) ELSE Unlocked
      /\ result' = [result EXCEPT ![b] = TRUE]
      /\ resv' = [Released EXCEPT ![b] =
                    IF wait /\ state = "reserved" THEN "data_ready"
                    ELSE IF ~wait /\ state \in InFlight THEN "published"
                    ELSE state]
      /\ task' = [task EXCEPT ![b] = IF wait THEN "finalizing" ELSE "succeeded"]
      /\ point' = [point EXCEPT ![b] = IF wait THEN @ ELSE "available"]

\* task.completed of a backup.  Refused results (a stopped or failed task) are
\* dropped by the agent, a result without quota is kept and sent again, and the
\* result of a published backup is answered without a change.  Publication ends
\* with reconcileRetention, also when it is answered from the earlier one.
BackupCompleted(b, sel) ==
  /\ exec[b] = "completed"
  /\ \/ /\ Publishable(b, sel)
        /\ Publish(b, sel)
        /\ retention' = (task'[b] = "succeeded" \/ retention)
        /\ Acked(exec, b)
     \/ /\ task[b] = "succeeded"
        /\ retention' = TRUE
        /\ Acked(exec, b)
        /\ UNCHANGED <<task, result, resvVars, point, owner>>
     \/ /\ task[b] \in Aborted \cup {"canceling"}
        /\ Acked(exec, b)
        /\ UNCHANGED <<task, result, resvVars, point, owner, retention>>
  /\ UNCHANGED <<policyVars, unmarked, cleanupOf, markVars, rstate, claim,
                 cleanupVars, recoveryVars, cancel, cexec, data>>

\* task.failed of a backup: ignored once a result is accepted or the task is
\* being stopped.
BackupFailed(b) ==
  /\ exec[b] = "failed"
  /\ Acked(exec, b)
  /\ IF result[b] \/ ForceStopped(b)
       THEN UNCHANGED <<task, resv, owner>>
       ELSE UpdateTaskStatus(b, "failed")
  /\ UNCHANGED <<policyVars, result, unmarked, repl, cleanupOf, markVars, point, rstate,
                 claimVars, cleanupVars, recoveryVars, cancel, cexec, data>>

(***************************************************************************)
(* Deletion.  A handler first claims the points, then creates the cleanup  *)
(* task; the scheduler creates the cleanup task of a replacement directly. *)
(***************************************************************************)
Claimable(p) == /\ p \in Points /\ ~pointProtected(p)
                /\ rstate[p] \notin Claimed /\ ~pointBusy(p, resv)

ClaimRestorePointDeletion(h, S) ==
  /\ \A p \in S : Claimable(p)
  /\ claim' = [claim EXCEPT ![h] = S]
  /\ rstate' = [p \in Backups |-> IF p \in S THEN "pending_delete" ELSE rstate[p]]

\* DELETE of restore points by a user.
DeleteRestorePoints(S) ==
  /\ S # {} /\ claim["manual"] = {}
  /\ ClaimRestorePointDeletion("manual", S)
  /\ UNCHANGED <<policyVars, taskVars, resvVars, markVars, point, owner, retention,
                 cleanupVars, recoveryVars, cancel, agentVars>>

\* The points reconcileRetention wants to delete: beyond the newest count of
\* those that no running cleanup is deleting, and not kept for any reason.
Expired(sel) ==
  LET kept == {p \in Points : ~ /\ rstate[p] = "deleting"
                                /\ \E c \in Cleanups : ctask[c] = "active" /\ p \in cpoints[c]}
  IN  {p \in kept : /\ Cardinality({q \in kept : q > p}) >= count
                    /\ ~pointProtected(p) /\ owner[p] = None /\ p \notin sel}

ReconcileRetention(sel) ==
  /\ retention /\ claim["retention"] = {}
  /\ retention' = FALSE
  /\ IF count > 0 /\ Expired(sel) # {} /\ \A p \in Expired(sel) : Claimable(p)
       THEN ClaimRestorePointDeletion("retention", Expired(sel))
       ELSE UNCHANGED <<claim, rstate>>
  /\ UNCHANGED <<policyVars, taskVars, resvVars, markVars, point, owner,
                 cleanupVars, recoveryVars, cancel, agentVars>>

\* prepareRestorePointDeletion accepts the points of a cleanup task.
DeletionAllowed(S, manualDelete, sel) ==
  \A p \in S :
    \/ point[p] = "deleted"
    \/ /\ ~pointProtected(p)
       /\ IF owner[p] = None THEN ~pointBusy(p, resv)
          ELSE repl[owner[p]] = p /\ resv[owner[p]] \in {"data_ready", "deleting"}
       /\ (manualDelete /\ owner[p] = None) \/ p \notin sel

\* CreateTask(retention-cleanup): the task takes over the points, and the
\* reservations that wait for them.
CreateDeletion(c, S) ==
  LET owners == {owner[p] : p \in {q \in S : point[q] # "deleted"}} \ {None}
  IN  /\ ctask[c] = "none"
      /\ ctask' = [ctask EXCEPT ![c] = "active"]
      /\ cpoints' = [cpoints EXCEPT ![c] = S]
      /\ cexec' = [cexec EXCEPT ![c] = "queued"]
      /\ rstate' = [p \in Backups |-> IF p \in S THEN "deleting" ELSE rstate[p]]
      /\ resv' = [b \in Backups |-> IF b \in owners THEN "deleting" ELSE Released[b]]
      /\ cleanupOf' = [b \in Backups |-> IF b \in owners THEN c ELSE cleanupOf[b]]

\* The second half of a deletion handler.  When the task is refused the claimed
\* points stay pending_delete.
CreateCleanup(h, c, sel) ==
  /\ claim[h] # {}
  /\ claim' = [claim EXCEPT ![h] = {}]
  /\ IF DeletionAllowed(claim[h], h = "manual", sel)
       THEN CreateDeletion(c, claim[h])
       ELSE UNCHANGED <<cleanupVars, cexec, rstate, resv, cleanupOf>>
  /\ UNCHANGED <<policyVars, taskVars, repl, markVars, point, owner, retention,
                 recoveryVars, cancel, exec, data>>

\* reconcileRestorePointReplacements for a reservation whose old point exists:
\* create the cleanup task, again after the previous one failed.
StartReplacement(b, c, sel) ==
  /\ resv[b] \in {"data_ready", "deleting"}
  /\ repl[b] # None /\ point[repl[b]] # "deleted"
  /\ cleanupOf[b] # NoCleanup => ctask[cleanupOf[b]] \in Aborted
  /\ DeletionAllowed({repl[b]}, TRUE, sel)
  /\ CreateDeletion(c, {repl[b]})
  /\ task' = [task EXCEPT ![b] = StatusAfter(b, "finalizing")]
  /\ owner' = Unlocked
  /\ UNCHANGED <<policyVars, result, unmarked, repl, markVars, point, claimVars,
                 recoveryVars, cancel, exec, data>>

\* ... and for a reservation whose old point is deleted: publish.
FinishReplacement(b, sel) ==
  /\ resv[b] \in {"data_ready", "deleting"}
  /\ repl[b] # None /\ point[repl[b]] = "deleted"
  /\ Publishable(b, sel)
  /\ Publish(b, sel)
  /\ UNCHANGED <<policyVars, unmarked, cleanupOf, markVars, rstate, claimVars,
                 cleanupVars, recoveryVars, cancel, agentVars>>

EndCleanup(c, s) ==
  ctask' = [ctask EXCEPT ![c] = IF @ \in Terminal THEN @ ELSE s]

\* Mutant of DeleteFailed: a failed deletion leaves no trace.
DeleteFailed_Clears(c) ==
  rstate' = [p \in Backups |-> IF p \in cpoints[c] THEN "" ELSE rstate[p]]

DeleteFailed(c) ==
  rstate' = [p \in Backups |-> IF p \in cpoints[c] THEN "delete_failed" ELSE rstate[p]]

\* The message cannot be written to the agent's connection.
CleanupDispatchFails(c) ==
  /\ cexec[c] = "queued" /\ ctask[c] = "active"
  /\ cexec' = [cexec EXCEPT ![c] = "none"]
  /\ EndCleanup(c, "failed")
  /\ DeleteFailed(c)
  /\ UNCHANGED <<policyVars, taskVars, resvVars, markVars, point, owner, claimVars,
                 cpoints, recoveryVars, cancel, exec, data>>

\* finishRetentionCleanupTask
MarkDeleted(c) ==
  /\ point' = [p \in Backups |-> IF p \in cpoints[c] THEN "deleted" ELSE point[p]]
  /\ rstate' = [p \in Backups |-> IF p \in cpoints[c] THEN "deleted" ELSE rstate[p]]

\* task.completed of a cleanup: first the status of the task ...
CleanupSucceeds(c) ==
  /\ cexec[c] = "completed" /\ ctask[c] = "active"
  /\ EndCleanup(c, "succeeded")
  /\ UNCHANGED <<policyVars, taskVars, resvVars, markVars, pointVars, claimVars,
                 cpoints, recoveryVars, cancel, agentVars>>

\* ... then its points, also when the task was closed as abandoned before.
CleanupCompleted(c) ==
  /\ cexec[c] = "completed" /\ ctask[c] \in Terminal
  /\ Acked(cexec, c)
  /\ MarkDeleted(c)
  /\ UNCHANGED <<policyVars, taskVars, resvVars, markVars, owner, claimVars,
                 cleanupVars, recoveryVars, cancel, exec, data>>

\* reconcileRestorePointReplacements repeats the second half, should the first
\* have been its handler's last step.
RefinishCleanup(b) ==
  /\ resv[b] \in {"data_ready", "deleting"}
  /\ repl[b] # None /\ point[repl[b]] # "deleted"
  /\ cleanupOf[b] # NoCleanup /\ ctask[cleanupOf[b]] = "succeeded"
  /\ MarkDeleted(cleanupOf[b])
  /\ UNCHANGED <<policyVars, taskVars, resvVars, markVars, owner, claimVars,
                 cleanupVars, recoveryVars, cancel, agentVars>>

\* task.failed of a cleanup: every point it lists is available again.
CleanupFailed(c) ==
  /\ cexec[c] = "failed"
  /\ Acked(cexec, c)
  /\ EndCleanup(c, "failed")
  /\ DeleteFailed(c)
  /\ UNCHANGED <<policyVars, taskVars, resvVars, markVars, point, owner, claimVars,
                 cpoints, recoveryVars, cancel, exec, data>>

\* reconcileAbandonedMaintenanceTasks: no status for 35 minutes.
CleanupAbandoned(c) ==
  /\ ctask[c] = "active"
  /\ EndCleanup(c, "failed")
  /\ UNCHANGED <<policyVars, taskVars, resvVars, markVars, pointVars, claimVars,
                 cpoints, recoveryVars, cancel, agentVars>>

(***************************************************************************)
(* Recovery tasks, retention marks, policy.                                *)
(***************************************************************************)
\* Mutants of CreateRecovery: the deletion state, or the locks, are not checked.
CreateRecovery_IgnoresState(r, p, d) ==
  /\ rtask[r] = "none"
  /\ p \in Points /\ ~pointBusy(p, resv)
  /\ rtask' = [rtask EXCEPT ![r] = "active"]
  /\ rpoint' = [rpoint EXCEPT ![r] = p]
  /\ rdrill' = [rdrill EXCEPT ![r] = d]
  /\ UNCHANGED <<policyVars, taskVars, resvVars, markVars, pointVars, claimVars,
                 cleanupVars, cancel, agentVars>>
CreateRecovery_IgnoresLock(r, p, d) ==
  /\ rtask[r] = "none"
  /\ p \in Points /\ rstate[p] \notin Claimed
  /\ rtask' = [rtask EXCEPT ![r] = "active"]
  /\ rpoint' = [rpoint EXCEPT ![r] = p]
  /\ rdrill' = [rdrill EXCEPT ![r] = d]
  /\ UNCHANGED <<policyVars, taskVars, resvVars, markVars, pointVars, claimVars,
                 cleanupVars, cancel, agentVars>>

CreateRecovery(r, p, d) ==
  /\ rtask[r] = "none"
  /\ p \in Points /\ rstate[p] \notin Claimed /\ ~pointBusy(p, resv)
  /\ rtask' = [rtask EXCEPT ![r] = "active"]
  /\ rpoint' = [rpoint EXCEPT ![r] = p]
  /\ rdrill' = [rdrill EXCEPT ![r] = d]
  /\ UNCHANGED <<policyVars, taskVars, resvVars, markVars, pointVars, claimVars,
                 cleanupVars, cancel, agentVars>>

\* The agent's terminal report, or no status for 15 minutes.  A drill that
\* succeeds moves the drill mark in the same transaction.
EndRecovery(r, s) ==
  /\ rtask[r] = "active"
  /\ rtask' = [rtask EXCEPT ![r] = s]
  /\ drill' = IF s = "succeeded" /\ rdrill[r] THEN {rpoint[r]} ELSE drill
  /\ UNCHANGED <<policyVars, taskVars, resvVars, manual, pointVars, claimVars,
                 cleanupVars, rpoint, rdrill, cancel, agentVars>>

SetRestorePointRetention(p, retain) ==
  /\ p \in Points /\ rstate[p] \notin Claimed /\ ~pointBusy(p, resv)
  /\ manual' = IF retain THEN manual \cup {p} ELSE manual \ {p}
  /\ UNCHANGED <<policyVars, taskVars, resvVars, drill, pointVars, claimVars,
                 cleanupVars, recoveryVars, cancel, agentVars>>

\* The policy of the plan is edited: refused below what the plan uses.
UpdatePolicy(n) ==
  /\ n = 0 \/ Used(resv) <= n
  /\ count' = n
  /\ UNCHANGED <<taskVars, resvVars, markVars, pointVars, claimVars,
                 cleanupVars, recoveryVars, cancel, agentVars>>

\* The plan is edited and moved to another policy: refused while a task of the
\* plan is active.
SaveProtectionPlan(n) ==
  /\ \A b \in Backups : task[b] \notin Open /\ cancel[b] \notin {"created", "queued", "executed"}
  /\ \A c \in Cleanups : ctask[c] # "active"
  /\ \A r \in Recoveries : rtask[r] # "active"
  /\ count' = n
  /\ UNCHANGED <<taskVars, resvVars, markVars, pointVars, claimVars,
                 cleanupVars, recoveryVars, cancel, agentVars>>

(***************************************************************************)
(* Forced stop of a backup: read and check the task, create the            *)
(* backup-cancel task, mark the target, dispatch.                          *)
(***************************************************************************)
CancelTask(b) ==
  /\ cancel[b] = "none"
  /\ task[b] \in {"active", "finalizing"} /\ resv[b] \notin {"data_ready", "deleting"}
  /\ cancel' = [cancel EXCEPT ![b] = "read"]
  /\ UNCHANGED <<policyVars, taskVars, resvVars, markVars, pointVars, claimVars,
                 cleanupVars, recoveryVars, agentVars>>

CreateCancel(b) ==
  /\ cancel[b] = "read"
  /\ cancel' = [cancel EXCEPT ![b] = IF resv[b] \in Irreversible THEN "none" ELSE "created"]
  /\ UNCHANGED <<policyVars, taskVars, resvVars, markVars, pointVars, claimVars,
                 cleanupVars, recoveryVars, agentVars>>

MarkCanceling(b) ==
  /\ cancel[b] = "created"
  /\ cancel' = [cancel EXCEPT ![b] = "queued"]
  /\ UpdateTaskStatus(b, "canceling")
  /\ UNCHANGED <<policyVars, result, unmarked, repl, cleanupOf, markVars, point, rstate,
                 claimVars, cleanupVars, recoveryVars, agentVars>>

\* finishBackupCancelTask
CancelCompleted(b) ==
  /\ cancel[b] = "executed"
  /\ cancel' = [cancel EXCEPT ![b] = "done"]
  /\ UpdateTaskStatus(b, "canceled")
  /\ UNCHANGED <<policyVars, result, unmarked, repl, cleanupOf, markVars, point, rstate,
                 claimVars, cleanupVars, recoveryVars, agentVars>>

\* markBackupCancelFailed
CancelFailed(b) ==
  /\ cancel[b] \in {"queued", "executed"}
  /\ cancel' = [cancel EXCEPT ![b] = "none"]
  /\ IF task[b] = "canceling" THEN UpdateTaskStatus(b, "active")
     ELSE UNCHANGED <<task, resv, owner>>
  /\ UNCHANGED <<policyVars, result, unmarked, repl, cleanupOf, markVars, point, rstate,
                 claimVars, cleanupVars, recoveryVars, agentVars>>

(***************************************************************************)
(* The agent.                                                              *)
(***************************************************************************)
\* The message may have waited in a worker of the platform or on the wire: the
\* task may have been stopped since.
AgentStartsBackup(b) ==
  /\ exec[b] = "queued"
  /\ exec' = [exec EXCEPT ![b] = "running"]
  /\ UNCHANGED <<policyVars, taskVars, resvVars, markVars, pointVars, claimVars,
                 cleanupVars, recoveryVars, cancel, cexec, data>>

\* Velero finishes the backup, or the agent gives it up.
AgentEndsBackup(b, e) ==
  /\ exec[b] = "running"
  /\ e = "completed" => data[b] = "none"
  /\ exec' = [exec EXCEPT ![b] = e]
  /\ data' = [data EXCEPT ![b] = IF e = "completed" THEN "stored" ELSE @]
  /\ UNCHANGED <<policyVars, taskVars, resvVars, markVars, pointVars, claimVars,
                 cleanupVars, recoveryVars, cancel, cexec>>

\* backup-cancel: delete the Velero backup, unless none is found.
AgentCancels(b, found) ==
  /\ cancel[b] = "queued"
  /\ data[b] = "stored" => found
  /\ cancel' = [cancel EXCEPT ![b] = "executed"]
  /\ data' = [data EXCEPT ![b] = IF found THEN "gone" ELSE @]
  /\ UNCHANGED <<policyVars, taskVars, resvVars, markVars, pointVars, claimVars,
                 cleanupVars, recoveryVars, exec, cexec>>

\* A cleanup task is dispatched only while it is open.
AgentStartsCleanup(c) ==
  /\ cexec[c] = "queued" /\ ctask[c] = "active"
  /\ cexec' = [cexec EXCEPT ![c] = "running"]
  /\ UNCHANGED <<policyVars, taskVars, resvVars, markVars, pointVars, claimVars,
                 cleanupVars, recoveryVars, cancel, exec, data>>

AgentDeletes(c, p) ==
  /\ cexec[c] = "running" /\ p \in cpoints[c] /\ data[p] = "stored"
  /\ data' = [data EXCEPT ![p] = "gone"]
  /\ UNCHANGED <<policyVars, taskVars, resvVars, markVars, pointVars, claimVars,
                 cleanupVars, recoveryVars, cancel, exec, cexec>>

AgentEndsCleanup(c, e) ==
  /\ cexec[c] = "running"
  /\ e = "completed" => \A p \in cpoints[c] : data[p] = "gone"
  /\ cexec' = [cexec EXCEPT ![c] = e]
  /\ UNCHANGED <<policyVars, taskVars, resvVars, markVars, pointVars, claimVars,
                 cleanupVars, recoveryVars, cancel, exec, data>>

\* The platform process restarts: running handlers are lost.  A stored cancel
\* task is dispatched when the agent reconnects.
PlatformRestarts ==
  /\ claim' = [h \in Handlers |-> {}]
  /\ retention' = FALSE
  /\ unmarked' = {}
  /\ cancel' = [b \in Backups |-> IF cancel[b] = "read" THEN "none"
                                  ELSE IF cancel[b] = "created" THEN "queued"
                                  ELSE cancel[b]]
  /\ UNCHANGED <<policyVars, task, result, resvVars, markVars, pointVars,
                 cleanupVars, recoveryVars, agentVars>>

Next ==
  \/ \E b \in Backups, sel \in SUBSET Selectable :
       CreateBackup(b, sel) \/ BackupCompleted(b, sel) \/ FinishReplacement(b, sel)
  \/ \E b \in Backups :
       \/ MarkDispatched(b) \/ DispatchFails(b) \/ RedispatchPendingTasks(b)
       \/ BackupReported(b)
       \/ BackupIncomplete(b) \/ BackupFailed(b) \/ RefinishCleanup(b)
       \/ CreateCancel(b) \/ MarkCanceling(b) \/ CancelCompleted(b) \/ CancelFailed(b)
       \/ AgentStartsBackup(b)
       \/ \E e \in Report : AgentEndsBackup(b, e)
       \/ \E found \in BOOLEAN : AgentCancels(b, found)
  \/ \E b \in Cancelable : CancelTask(b)
  \/ \E S \in SUBSET Backups : DeleteRestorePoints(S)
  \/ \E sel \in SUBSET Selectable : ReconcileRetention(sel)
  \/ \E c \in Cleanups, sel \in SUBSET Selectable :
       \/ \E h \in Handlers : CreateCleanup(h, c, sel)
       \/ \E b \in Backups : StartReplacement(b, c, sel)
  \/ \E c \in Cleanups :
       \/ CleanupDispatchFails(c) \/ CleanupSucceeds(c) \/ CleanupCompleted(c)
       \/ CleanupFailed(c) \/ CleanupAbandoned(c) \/ AgentStartsCleanup(c)
       \/ \E p \in Backups : AgentDeletes(c, p)
       \/ \E e \in Report : AgentEndsCleanup(c, e)
  \/ \E r \in Recoveries :
       \/ \E p \in Backups, d \in BOOLEAN : CreateRecovery(r, p, d)
       \/ \E s \in {"succeeded", "failed"} : EndRecovery(r, s)
  \/ \E p \in Retainable, retain \in BOOLEAN : SetRestorePointRetention(p, retain)
  \/ \E n \in Counts : UpdatePolicy(n)
  \/ \E n \in Switches : SaveProtectionPlan(n)
  \/ PlatformRestarts

Spec == Init /\ [][Next]_vars

(***************************************************************************)
(* Properties.                                                             *)
(***************************************************************************)

\* The retention count is a hard maximum: published points and the slots held
\* for points still to be published never exceed it (reserveBackupQuota,
\* createRestorePoint, UpdatePolicy).
QuotaRespected == count > 0 => Used(resv) <= count

\* The lock of a replacement.  A reservation that waits for an old point owns
\* it, and an owned point waits for exactly that reservation: no two backups
\* replace the same point and no lock outlives its reservation
\* (reserveBackupQuota, UpdateTaskStatus, createRestorePoint).
ReplacementLock ==
  /\ \A b \in Backups :
       resv[b] \in InFlight /\ repl[b] # None =>
         point[repl[b]] # "absent" /\ owner[repl[b]] = b
  /\ \A p \in Points :
       owner[p] # None => resv[owner[p]] \in InFlight /\ repl[owner[p]] = p

\* A point that is to be replaced is not kept for the user, for a drill, or by
\* a running recovery: neither before nor after its replacement was decided
\* (reserveBackupQuota, SetRestorePointRetention, CreateTask, UpdateTaskStatus).
ReplacedPointIsFree ==
  \A b \in Backups :
    resv[b] \in InFlight /\ repl[b] \in Points =>
      /\ ~pointProtected(repl[b])
      /\ \A r \in Recoveries : rtask[r] = "active" => rpoint[r] # repl[b]

\* A task that ended without success holds no slot and no lock: its
\* reservation is released in the transaction that ended it (UpdateTaskStatus).
AbortedTaskHoldsNothing ==
  \A b \in Backups : task[b] \in Aborted => resv[b] \in {"none", "released"}

\* A point exists exactly when its task succeeded, and then the point it
\* replaced is gone (createRestorePoint).
PublishedWithSuccess ==
  \A b \in Backups :
    /\ point[b] # "absent" <=> task[b] = "succeeded"
    /\ task[b] = "succeeded" /\ repl[b] # None => point[repl[b]] = "deleted"

\* One backup of the plan at a time, until its point is published (CreateTask).
OneBackupAtATime ==
  \A a, b \in Backups :
    /\ task[a] \in Open \/ resv[a] \in {"data_ready", "deleting"}
    /\ task[b] \in Open \/ resv[b] \in {"data_ready", "deleting"}
    => a = b

\* Once the data of a replacement is ready the reservation is never given up
\* (UpdateTaskStatus, releaseFailedBackupReservations).
ReadyIsNeverReleased ==
  [][\A b \in Backups : resv[b] \in Irreversible => resv'[b] \in Irreversible]_vars

\* A point is never deleted while a recovery uses it or while it is kept for
\* the user or for the latest drill (prepareRestorePointDeletion, CreateTask,
\* SetRestorePointRetention, UpdateTaskStatus).
NothingInUseIsDeleted ==
  [][\A p \in Backups :
       point[p] = "available" /\ point'[p] = "deleted" =>
         /\ ~pointProtected(p)
         /\ \A r \in Recoveries : rtask[r] = "active" => rpoint[r] # p]_vars

\* What ended stays ended, whatever report is delayed or repeated: a terminal
\* task keeps its status and a deleted point is not revived (UpdateTaskStatus,
\* UpdateRestorePointState).
EndedIsFinal ==
  [][\A b \in Backups :
       /\ task[b] \in Terminal => task'[b] = task[b]
       /\ point[b] = "deleted" => point'[b] = "deleted"]_vars

\* A point nobody tried to delete has its data (createRestorePoint, and the
\* agent's deletions).
UntouchedPointHasData ==
  \A p \in Points : rstate[p] = "" => data[p] = "stored"

\* What the reservations promise together: types, one backup at a time, a lock
\* for every replacement, and nothing held by a task that aborted (CreateTask,
\* reserveBackupQuota, UpdateTaskStatus).
ReservationSafety ==
  TypeOK /\ OneBackupAtATime /\ ReplacementLock /\ AbortedTaskHoldsNothing

\* What the points promise together: published with the success of their task,
\* and stored until somebody tries to delete them (createRestorePoint).
PointSafety == PublishedWithSuccess /\ UntouchedPointHasData

\* Nothing that is decided is taken back: neither a ready reservation nor the
\* end of a task or of a point (UpdateTaskStatus, UpdateRestorePointState).
NothingIsTakenBack == ReadyIsNeverReleased /\ EndedIsFinal
=============================================================================
