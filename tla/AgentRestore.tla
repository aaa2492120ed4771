---------------------------- MODULE AgentRestore ----------------------------
(***************************************************************************)
(* How the agent carries out a recovery task (restore, drill, takeover):   *)
(* it records and accepts the task, prepares the target namespace, submits *)
(* a Velero Restore, observes it until the application is ready, and on    *)
(* every failure stops the volume operations, removes what the attempt     *)
(* left behind and reports the failure last.  What cannot be removed at    *)
(* once is left to a goroutine that the ledger resumes after a restart.    *)
(*                                                                         *)
(* A task is observed by a goroutine.  A connection that drops leaves the  *)
(* goroutine running and the next connection starts another one from the   *)
(* ledger (client.go:462); a restart of the process ends them all.         *)
(***************************************************************************)
EXTENDS Naturals, FiniteSets

CONSTANTS
  Tasks,        \* recovery tasks for one application of this cluster
  Commands,     \* the commands the platform may send
  Observers,    \* goroutines that may observe one task
  MaxRecovers,  \* bound on restarts and reconnections
  NoTask        \* no task

ASSUME TasksAssumption == NoTask \notin Tasks
ASSUME RecoversAssumption == MaxRecovers \in Nat

Namespaces == {"isolated", "source", "agent"}
Routines   == Tasks \X Observers
Cleaners   == Tasks \X {1, 2}

Command == [type : {"drill", "restore"}, target : Namespaces,
            replace : BOOLEAN, mapped : BOOLEAN, waits : BOOLEAN,
            cancelable : BOOLEAN]
ASSUME CommandsAssumption == Commands \subseteq Command

VARIABLES
  cmd,       \* the command of a task
  pc,        \* where each observing goroutine stands
  known,     \* the task has a record in the ledger
  pending,   \* ... whose failed attempt is still to be cleaned up
  warned,    \* the failure report says that the ledger could not be written
  report,    \* terminal events of a task in the outbox
  restore,   \* phase of the Velero Restore of a task
  volume,    \* phase of its volume operation (DataDownload, PodVolumeRestore)
  writer,    \* the node-agent is writing the volume
  stopping,  \* spec.cancel is set on the DataDownload
  ns,        \* the namespaces: their phase and the task they were made for
  cleaner,   \* deferred cleanup goroutines
  recovers   \* restarts and reconnections so far

agentVars  == <<pc, known, pending, warned, report, cleaner>>
veleroVars == <<restore, volume, writer, stopping>>
restoreVars == <<cmd, agentVars, veleroVars, ns, recovers>>

Preparing == {"preflight", "backup", "stale", "wipe", "create", "stable", "apply"}
Watching  == {"poll", "map", "ready"}
Failing   == {"cancel", "delete", "drop", "fail"}

RestoreTypeOK ==
  /\ cmd \in [Tasks -> Commands]
  /\ pc \in [Routines -> {"none"} \cup Preparing \cup Watching \cup Failing]
  /\ known \in [Tasks -> BOOLEAN] /\ pending \in [Tasks -> BOOLEAN]
  /\ warned \in [Tasks -> BOOLEAN]
  /\ report \in [Tasks -> SUBSET {"succeeded", "failed"}]
  /\ restore \in [Tasks -> {"absent", "New", "InProgress", "Conflict",
                            "Completed", "Failed"}]
  /\ volume \in [Tasks -> {"absent", "", "InProgress", "Completed", "Failed",
                           "Canceled"}]
  /\ writer \in [Tasks -> BOOLEAN] /\ stopping \in [Tasks -> BOOLEAN]
  /\ ns \in [Namespaces -> [phase : {"absent", "Active", "Terminating"},
                            for : Tasks \cup {NoTask}]]
  /\ cleaner \in [Cleaners -> {"none", "cancel", "delete", "drop"}]
  /\ recovers \in 0..MaxRecovers

RestoreInit ==
  /\ cmd \in [Tasks -> Commands]
  /\ pc = [r \in Routines |-> "none"]
  /\ known = [t \in Tasks |-> FALSE] /\ pending = [t \in Tasks |-> FALSE]
  /\ warned = [t \in Tasks |-> FALSE] /\ report = [t \in Tasks |-> {}]
  /\ restore = [t \in Tasks |-> "absent"] /\ volume = [t \in Tasks |-> "absent"]
  /\ writer = [t \in Tasks |-> FALSE] /\ stopping = [t \in Tasks |-> FALSE]
  /\ ns = [n \in Namespaces |->
             [phase |-> IF n = "isolated" THEN "absent" ELSE "Active",
              for |-> NoTask]]
  /\ cleaner = [c \in Cleaners |-> "none"]
  /\ recovers = 0

Goto(r, label) == pc' = [pc EXCEPT ![r] = label]

\* A terminal event goes to the outbox and the goroutine returns.
\* Mutant: the phase of the Restore is reported as it is read.
Report_Phase(r, outcome) ==
  /\ report' = [report EXCEPT ![r[1]] = @ \cup {restore[r[1]]}]
  /\ Goto(r, "none")

Report(r, outcome) ==
  /\ report' = [report EXCEPT ![r[1]] = @ \cup {outcome}]
  /\ Goto(r, "none")

Target(t) == cmd[t].target

\* An application has one drill at a time (findActiveRecoveryTask), and a
\* task is active until its terminal event arrives.
MayStart(t) ==
  /\ ~known[t] /\ report[t] = {}
  /\ \A u \in Tasks \ {t} : known[u] => report[u] # {}

(***************************************************************************)
(* Accepting a task                                                        *)
(***************************************************************************)
\* executeRestoreTask before anything is recorded: a command that is missing
\* or filtered under OADP, a storage location that is not available, an
\* invalid manifest or a ledger that cannot be written fails the task.
RejectRestore(t) ==
  /\ MayStart(t)
  /\ report' = [report EXCEPT ![t] = {"failed"}]
  /\ UNCHANGED <<cmd, pc, known, pending, warned, cleaner, veleroVars, ns, recovers>>

\* The task is recorded before it is accepted.  When the acceptance cannot be
\* written the handler returns and leaves the record to the next connection.
AcceptRestore(t, sent) ==
  /\ MayStart(t)
  /\ sent \/ recovers < MaxRecovers
  /\ known' = [known EXCEPT ![t] = TRUE]
  /\ pc' = IF sent THEN [pc EXCEPT ![<<t, 1>>] = "preflight"] ELSE pc
  /\ UNCHANGED <<cmd, pending, warned, report, cleaner, veleroVars, ns, recovers>>

\* PreflightRestoreCache: the cache configuration must name a StorageClass
\* with a provisioner that reclaims by deletion, or no cache at all.
PreflightRestoreCache(r, usable) ==
  /\ pc[r] = "preflight"
  /\ IF usable THEN Goto(r, "backup") /\ UNCHANGED report ELSE Report(r, "failed")
  /\ UNCHANGED <<cmd, known, pending, warned, cleaner, veleroVars, ns, recovers>>

(***************************************************************************)
(* SubmitRestore                                                           *)
(***************************************************************************)
\* An error of any step of SubmitRestore is reported; nothing is undone.
SubmitFails(r) ==
  /\ pc[r] \in Preparing \ {"preflight"}
  /\ Report(r, "failed")
  /\ UNCHANGED <<cmd, known, pending, warned, cleaner, veleroVars, ns, recovers>>

\* Mutant: the target of a replacement is not compared with the agent's own.
MayReplace_Unchecked(t) == TRUE

MayReplace(t) == Target(t) # "agent"

\* WaitForVeleroBackup returns when the backup has been synced to the cluster;
\* a namespace that is to be replaced must not be the agent's own.
WaitForVeleroBackup(r) ==
  /\ pc[r] = "backup"
  /\ IF ~cmd[r[1]].replace
       THEN Goto(r, "apply") /\ UNCHANGED report
       ELSE IF MayReplace(r[1])
              THEN Goto(r, "stale") /\ UNCHANGED report
              ELSE Report(r, "failed")
  /\ UNCHANGED <<cmd, known, pending, warned, cleaner, veleroVars, ns, recovers>>

\* matchesRestoreCleanupTarget: the other Restores of this source and target.
\* Mutant: only Restores that have ended are deleted.
StaleRestores_Ended(t) ==
  {u \in Tasks \ {t} : restore[u] \in {"Completed", "Failed"} /\ Target(u) = Target(t)}

StaleRestores(t) ==
  {u \in Tasks \ {t} : restore[u] # "absent" /\ Target(u) = Target(t)}

\* CleanupStaleRestoreState deletes the matching Restores with their volume
\* operations and waits until no object is left.
CleanupStaleRestoreState(r) ==
  /\ pc[r] = "stale"
  /\ restore' = [u \in Tasks |->
                   IF u \in StaleRestores(r[1]) THEN "absent" ELSE restore[u]]
  /\ volume' = [u \in Tasks |->
                  IF u \in StaleRestores(r[1]) THEN "absent" ELSE volume[u]]
  /\ Goto(r, "wipe")
  /\ UNCHANGED <<cmd, known, pending, warned, report, cleaner, writer, stopping,
                 ns, recovers>>

Terminate(n) ==
  ns' = [ns EXCEPT ![n].phase = IF @ = "absent" THEN @ ELSE "Terminating"]

\* ReplaceNamespaceAndWait deletes the namespace ...
ReplaceNamespaceDelete(r) ==
  /\ pc[r] = "wipe"
  /\ Terminate(Target(r[1]))
  /\ Goto(r, "create")
  /\ UNCHANGED <<cmd, known, pending, warned, report, cleaner, veleroVars, recovers>>

\* ... creates it again once it is gone ...
ReplaceNamespaceCreate(r) ==
  /\ pc[r] = "create"
  /\ ns[Target(r[1])].phase = "absent"
  /\ ns' = [ns EXCEPT ![Target(r[1])] = [phase |-> "Active", for |-> r[1]]]
  /\ Goto(r, "stable")
  /\ UNCHANGED <<cmd, known, pending, warned, report, cleaner, veleroVars, recovers>>

\* ... and returns after two healthy observations of the namespace it created.
ReplaceNamespaceStable(r) ==
  /\ pc[r] = "stable"
  /\ ns[Target(r[1])] = [phase |-> "Active", for |-> r[1]]
  /\ Goto(r, "apply")
  /\ UNCHANGED <<cmd, known, pending, warned, report, cleaner, veleroVars, ns,
                 recovers>>

\* The resource modifier is applied and awaited, then the Restore is applied.
ApplyRestore(r) ==
  /\ pc[r] = "apply"
  /\ restore' = [restore EXCEPT ![r[1]] = IF @ = "absent" THEN "New" ELSE @]
  /\ Goto(r, "poll")
  /\ UNCHANGED <<cmd, known, pending, warned, report, cleaner, volume, writer,
                 stopping, ns, recovers>>

(***************************************************************************)
(* Observation                                                             *)
(***************************************************************************)
\* The Restore is read every two seconds.  A transient read error, or the
\* failure Velero reports while an earlier reconcile is still at work, keeps
\* the goroutine observing.
\* Mutant: a Restore that ended in failure is taken for a success.
PollSucceeds_AnyEnd(r) ==
  /\ pc[r] = "poll"
  /\ restore[r[1]] \in {"Completed", "Failed"}
  /\ Goto(r, "map")
  /\ UNCHANGED <<cmd, known, pending, warned, report, cleaner, veleroVars, ns,
                 recovers>>

PollSucceeds(r) ==
  /\ pc[r] = "poll"
  /\ restore[r[1]] = "Completed"
  /\ Goto(r, "map")
  /\ UNCHANGED <<cmd, known, pending, warned, report, cleaner, veleroVars, ns,
                 recovers>>

\* Observation fails on a Restore that is gone or has failed, on a failed
\* volume, on volumes that make no progress and at the task's deadline.
PollFails(r) ==
  /\ pc[r] = "poll"
  /\ Goto(r, "cancel")
  /\ UNCHANGED <<cmd, known, pending, warned, report, cleaner, veleroVars, ns,
                 recovers>>

\* Images and NodePorts of the restored workloads are mapped.
MapSucceeds(r) ==
  /\ pc[r] = "map"
  /\ IF cmd[r[1]].waits THEN Goto(r, "ready") /\ UNCHANGED report
                        ELSE Report(r, "succeeded")
  /\ UNCHANGED <<cmd, known, pending, warned, cleaner, veleroVars, ns, recovers>>

MapFails(r) ==
  /\ pc[r] = "map" /\ cmd[r[1]].mapped
  /\ Goto(r, "cancel")
  /\ UNCHANGED <<cmd, known, pending, warned, report, cleaner, veleroVars, ns,
                 recovers>>

\* pollRestoredNamespaceReady: the namespace is active and all in it is ready.
ReadinessPasses(r) ==
  /\ pc[r] = "ready"
  /\ ns[Target(r[1])].phase = "Active"
  /\ Report(r, "succeeded")
  /\ UNCHANGED <<cmd, known, pending, warned, cleaner, veleroVars, ns, recovers>>

\* A pod has failed for good, or the deadline has passed.
ReadinessFails(r) ==
  /\ pc[r] = "ready"
  /\ Goto(r, "cancel")
  /\ UNCHANGED <<cmd, known, pending, warned, report, cleaner, veleroVars, ns,
                 recovers>>

(***************************************************************************)
(* failRestoreTask and the deferred cleanup                                *)
(***************************************************************************)
\* CancelRestoreVolumeOperations has no running operation left to wait for.  A
\* list of volume operations that cannot be read counts as empty
\* (getVolumeProgress), and so does an operation without a phase.
NothingRunning(t, readable) == readable => volume[t] # "InProgress"

\* spec.cancel is a field of the DataDownload only.
RequestCancel(t) ==
  stopping' = [stopping EXCEPT ![t] =
                 @ \/ (cmd[t].cancelable /\ volume[t] \in {"", "InProgress"})]

\* Only the namespace of a drill that is neither the source's nor the agent's
\* is deleted.
\* Mutant: the namespace of any failed recovery is deleted.
Disposable_Any(t) == TRUE

Disposable(t) == cmd[t].type = "drill" /\ Target(t) \notin {"source", "agent"}

\* The cleanup is left to a goroutine and marked in the ledger; a ledger that
\* cannot be written is only mentioned in the report.
\* Mutant: the goroutine is started without a mark in the ledger.
Defer_Unmarked(t, written) ==
  /\ cleaner' = [cleaner EXCEPT ![<<t, IF cleaner[<<t, 1>>] = "none" THEN 1 ELSE 2>>]
                                  = "cancel"]
  /\ UNCHANGED <<pending, warned>>

Defer(t, written) ==
  /\ cleaner' = [cleaner EXCEPT ![<<t, IF cleaner[<<t, 1>>] = "none" THEN 1 ELSE 2>>]
                                  = "cancel"]
  /\ pending' = [pending EXCEPT ![t] = @ \/ written]
  /\ warned' = [warned EXCEPT ![t] = @ \/ ~written]

\* Cancellation is awaited for 30 seconds.
CancelConfirmed(r, readable) ==
  /\ pc[r] = "cancel"
  /\ NothingRunning(r[1], readable)
  /\ RequestCancel(r[1])
  /\ Goto(r, "delete")
  /\ UNCHANGED <<cmd, known, pending, warned, report, cleaner, restore, volume,
                 writer, ns, recovers>>

CancelUnconfirmed(r, written) ==
  /\ pc[r] = "cancel"
  /\ RequestCancel(r[1])
  /\ Defer(r[1], written)
  /\ Goto(r, "fail")
  /\ UNCHANGED <<cmd, known, report, restore, volume, writer, ns, recovers>>

\* deleteFailedDrillResources: the Restore is deleted.
DeleteRestore(r, deleted, written) ==
  /\ pc[r] = "delete"
  /\ IF deleted THEN /\ restore' = [restore EXCEPT ![r[1]] = "absent"]
                     /\ UNCHANGED <<cleaner, pending, warned>>
                ELSE Defer(r[1], written) /\ UNCHANGED restore
  /\ Goto(r, IF Disposable(r[1]) THEN "drop" ELSE "fail")
  /\ UNCHANGED <<cmd, known, report, volume, writer, stopping, ns, recovers>>

\* DeleteNamespaceAndWait: the namespace is gone, or only marked for deletion
\* when the wait ends.
DropNamespace(r, gone, written) ==
  /\ pc[r] = "drop"
  /\ IF gone THEN /\ ns' = [ns EXCEPT ![Target(r[1])].phase = "absent"]
                  /\ UNCHANGED <<cleaner, pending, warned>>
             ELSE Terminate(Target(r[1])) /\ Defer(r[1], written)
  /\ Goto(r, "fail")
  /\ UNCHANGED <<cmd, known, report, veleroVars, recovers>>

PublishFailure(r) ==
  /\ pc[r] = "fail"
  /\ Report(r, "failed")
  /\ UNCHANGED <<cmd, known, pending, warned, cleaner, veleroVars, ns, recovers>>

\* finishFailedDrillCleanup waits four hours for the operations to stop ...
CleanerConfirms(c, readable) ==
  /\ cleaner[c] = "cancel"
  /\ NothingRunning(c[1], readable)
  /\ RequestCancel(c[1])
  /\ cleaner' = [cleaner EXCEPT ![c] = "delete"]
  /\ UNCHANGED <<cmd, pc, known, pending, warned, report, restore, volume, writer,
                 ns, recovers>>

\* ... gives up on the first error and keeps the mark ...
CleanerGivesUp(c) ==
  /\ cleaner[c] # "none"
  /\ cleaner' = [cleaner EXCEPT ![c] = "none"]
  /\ UNCHANGED <<cmd, pc, known, pending, warned, report, veleroVars, ns, recovers>>

\* ... deletes the Restore ...
CleanerDeletes(c) ==
  /\ cleaner[c] = "delete"
  /\ restore' = [restore EXCEPT ![c[1]] = "absent"]
  /\ cleaner' = [cleaner EXCEPT ![c] = "drop"]
  /\ UNCHANGED <<cmd, pc, known, pending, warned, report, volume, writer, stopping,
                 ns, recovers>>

\* ... and the drill's namespace, whoever uses it by then, and removes the mark.
CleanerFinishes(c) ==
  /\ cleaner[c] = "drop"
  /\ ns' = IF Disposable(c[1]) THEN [ns EXCEPT ![Target(c[1])].phase = "absent"]
                               ELSE ns
  /\ cleaner' = [cleaner EXCEPT ![c] = "none"]
  /\ pending' = [pending EXCEPT ![c[1]] = FALSE]
  /\ UNCHANGED <<cmd, pc, known, warned, report, veleroVars, recovers>>

(***************************************************************************)
(* Restarts and reconnections                                              *)
(***************************************************************************)
\* recoverableRecords: neither acknowledged nor waiting for a cleanup, and the
\* outbox holds no terminal event of the task.
Recoverable(t) == known[t] /\ ~pending[t] /\ report[t] = {}

\* recoverLedgerTasks starts an observer for every recoverable record and a
\* cleanup for every drill that waits for one; other task types are skipped.
\* Mutant: drills are not resumed.
Resumes_Restores(r) == Recoverable(r[1]) /\ cmd[r[1]].type = "restore"

Resumes(r) == Recoverable(r[1])

CleansUp(t) == pending[t] /\ cmd[t].type = "drill"

Idle(i) == /\ \A t \in Tasks : pc[<<t, i>>] = "none"
           /\ \A t \in Tasks : cleaner[<<t, i>>] = "none"

\* The connection drops and the process opens another one: the goroutines of
\* the old one go on.
Reconnect(i) ==
  /\ recovers < MaxRecovers
  /\ i \in Observers /\ Idle(i)
  /\ recovers' = recovers + 1
  /\ pc' = [r \in Routines |-> IF r[2] = i /\ Resumes(r) THEN "poll" ELSE pc[r]]
  /\ cleaner' = [c \in Cleaners |->
                   IF c[2] = i /\ CleansUp(c[1]) THEN "cancel" ELSE cleaner[c]]
  /\ UNCHANGED <<cmd, known, pending, warned, report, veleroVars, ns>>

\* The process restarts: no goroutine of the old one is left.
Restart ==
  /\ recovers < MaxRecovers
  /\ recovers' = recovers + 1
  /\ pc' = [r \in Routines |-> IF r[2] = 1 /\ Resumes(r) THEN "poll" ELSE "none"]
  /\ cleaner' = [c \in Cleaners |->
                   IF c[2] = 1 /\ CleansUp(c[1]) THEN "cancel" ELSE "none"]
  /\ UNCHANGED <<cmd, known, pending, warned, report, veleroVars, ns>>

(***************************************************************************)
(* Velero and Kubernetes, as the agent uses them                           *)
(***************************************************************************)
\* Velero starts the Restore, creates a namespace that is missing and queues
\* the volume operation.
VeleroStarts(t) ==
  /\ restore[t] = "New"
  /\ restore' = [restore EXCEPT ![t] = "InProgress"]
  /\ volume' = [volume EXCEPT ![t] = ""]
  /\ ns' = [ns EXCEPT ![Target(t)] =
              IF @.phase = "absent" THEN [phase |-> "Active", for |-> t] ELSE @]
  /\ UNCHANGED <<cmd, agentVars, writer, stopping, recovers>>

VolumeStarts(t) ==
  /\ volume[t] = "" /\ ~stopping[t]
  /\ volume' = [volume EXCEPT ![t] = "InProgress"]
  /\ writer' = [writer EXCEPT ![t] = TRUE]
  /\ UNCHANGED <<cmd, agentVars, restore, stopping, ns, recovers>>

\* An operation ends, or the node-agent notices that it was canceled.
VolumeEnds(t) ==
  /\ \/ volume[t] = "InProgress"
     \/ volume[t] = "" /\ stopping[t]
  /\ \E phase \in IF stopping[t] THEN {"Canceled", "Completed"}
                                 ELSE {"Completed", "Failed"} :
       volume' = [volume EXCEPT ![t] = phase]
  /\ writer' = [writer EXCEPT ![t] = FALSE]
  /\ UNCHANGED <<cmd, agentVars, restore, stopping, ns, recovers>>

\* The Restore waits for its volumes.
VeleroEnds(t) ==
  /\ restore[t] \in {"InProgress", "Conflict"}
  /\ restore' = [restore EXCEPT ![t] =
                   IF volume[t] = "Completed" THEN "Completed" ELSE "Failed"]
  /\ UNCHANGED <<cmd, agentVars, volume, writer, stopping, ns, recovers>>

\* A second reconcile reports that the first is still in progress.
VeleroConflicts(t) ==
  /\ restore[t] = "InProgress"
  /\ restore' = [restore EXCEPT ![t] = "Conflict"]
  /\ UNCHANGED <<cmd, agentVars, volume, writer, stopping, ns, recovers>>

\* The operations of a Restore that is gone are collected, and the node-agent
\* stops writing some time after its operation has gone.
OperationCollected(t) ==
  /\ restore[t] = "absent" /\ volume[t] # "absent"
  /\ volume' = [volume EXCEPT ![t] = "absent"]
  /\ UNCHANGED <<cmd, agentVars, restore, writer, stopping, ns, recovers>>

WriterStops(t) ==
  /\ volume[t] = "absent" /\ writer[t]
  /\ writer' = [writer EXCEPT ![t] = FALSE]
  /\ UNCHANGED <<cmd, agentVars, restore, volume, stopping, ns, recovers>>

NamespaceGone(n) ==
  /\ ns[n].phase = "Terminating"
  /\ ns' = [ns EXCEPT ![n].phase = "absent"]
  /\ UNCHANGED <<cmd, agentVars, veleroVars, recovers>>

(***************************************************************************)
(* Specification                                                           *)
(***************************************************************************)
Observe(r) ==
  \/ \E usable \in BOOLEAN : PreflightRestoreCache(r, usable)
  \/ SubmitFails(r) \/ WaitForVeleroBackup(r) \/ CleanupStaleRestoreState(r)
  \/ ReplaceNamespaceDelete(r) \/ ReplaceNamespaceCreate(r)
  \/ ReplaceNamespaceStable(r) \/ ApplyRestore(r)
  \/ PollSucceeds(r) \/ PollFails(r) \/ MapSucceeds(r) \/ MapFails(r)
  \/ ReadinessPasses(r) \/ ReadinessFails(r)
  \/ \E readable \in BOOLEAN : CancelConfirmed(r, readable)
  \/ \E written \in BOOLEAN : CancelUnconfirmed(r, written)
  \/ \E deleted, written \in BOOLEAN : DeleteRestore(r, deleted, written)
  \/ \E gone, written \in BOOLEAN : DropNamespace(r, gone, written)
  \/ PublishFailure(r)

Clean(c) ==
  \/ \E readable \in BOOLEAN : CleanerConfirms(c, readable)
  \/ CleanerGivesUp(c) \/ CleanerDeletes(c) \/ CleanerFinishes(c)

Velero(t) ==
  \/ VeleroStarts(t) \/ VolumeStarts(t) \/ VolumeEnds(t) \/ VeleroEnds(t)
  \/ VeleroConflicts(t) \/ OperationCollected(t) \/ WriterStops(t)

Recover == Restart \/ \E i \in Observers : Reconnect(i)

RestoreNext ==
  \/ \E t \in Tasks : RejectRestore(t)
  \/ \E t \in Tasks, sent \in BOOLEAN : AcceptRestore(t, sent)
  \/ \E r \in Routines : Observe(r)
  \/ \E c \in Cleaners : Clean(c)
  \/ \E t \in Tasks : Velero(t)
  \/ \E n \in Namespaces : NamespaceGone(n)
  \/ Recover

RestoreSpec == RestoreInit /\ [][RestoreNext]_restoreVars

\* Every goroutine runs on: its waits are bounded by timers and by the task's
\* deadline.  A record without a goroutine comes from a connection that could
\* not take the acceptance, and the process always opens another one.
Stranded(t) == Recoverable(t) /\ \A i \in Observers : pc[<<t, i>>] = "none"

RestoreFairness ==
  /\ \A r \in Routines : WF_restoreVars(Observe(r))
  /\ WF_restoreVars(Recover /\ \E t \in Tasks : Stranded(t))

RestoreFairSpec == RestoreSpec /\ RestoreFairness

(***************************************************************************)
(* Properties                                                              *)
(***************************************************************************)
\* A recovery is reported as succeeded only while its own Restore stands
\* completed and, when the command asks to wait for the application, its
\* namespace is active: no observer takes a Restore that failed, was replaced or
\* has vanished since it was read for a success.
SuccessIsObserved ==
  [][\A t \in Tasks : "succeeded" \in report'[t] \ report[t] =>
       restore[t] = "Completed" /\ (cmd[t].waits => ns[Target(t)].phase = "Active")]_restoreVars

\* A Restore that replaces its namespace never runs beside an earlier Restore
\* into it, whatever the failed attempt before it left behind.
ReplacementRunsAlone ==
  \A t, u \in Tasks :
    /\ t # u /\ Target(t) = Target(u)
    /\ cmd[t].replace /\ cmd[u].replace
    => restore[t] \notin {"New", "InProgress"} \/ restore[u] \notin {"New", "InProgress"}

\* The agent's own namespace is never deleted, neither to make room for a
\* restore nor after a failed one, and the source's only by a command that
\* asks for its replacement.
ForeignNamespacesSurvive ==
  /\ ns["agent"].phase = "Active"
  /\ ns["source"].phase # "Active" =>
       \E t \in Tasks : Target(t) = "source" /\ cmd[t].replace

\* A failure of a drill that got as far as a Restore is published only when
\* nothing of the attempt is left, or a mark in the ledger or a warning in the
\* report says that something is.
LeftBehind(t) ==
  \/ restore[t] # "absent"
  \/ Disposable(t) /\ ns[Target(t)].phase # "absent" /\ ns[Target(t)].for = t

FailureIsCleanOrMarked ==
  \A r \in Routines :
    pc[r] = "fail" /\ LeftBehind(r[1]) => pending[r[1]] \/ warned[r[1]]

\* A task that a goroutine carries out or observes is reported, or its failed
\* attempt is marked in the ledger, whatever restarts happen in between.
ObservedIsReportedOrPending ==
  \A r \in Routines : pc[r] # "none" ~> report[r[1]] # {} \/ pending[r[1]]

\* A recovery harms nothing but its own target and never hides what it leaves behind.
RestoreSafety ==
  RestoreTypeOK /\ ReplacementRunsAlone /\ ForeignNamespacesSurvive /\ FailureIsCleanOrMarked
=============================================================================
