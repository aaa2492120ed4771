---------------------------- MODULE TaskDelivery ----------------------------
(***************************************************************************)
(* The delivery of tasks between the platform and the agent of one         *)
(* cluster.  The platform stores a task, writes it to the agent's          *)
(* WebSocket and writes it again after a reconnect while the agent has not *)
(* accepted it.  The agent records the task in its ledger, accepts it,     *)
(* submits a Velero operation, observes it and reports the outcome from an *)
(* outbox until the platform acknowledges it.                              *)
(*                                                                         *)
(* Every connection belongs to a client object of the agent's process.  A  *)
(* client loads the outbox and the ledger from two files when it is        *)
(* created and writes all of its own copy back on every change.  When the  *)
(* connection drops, the process creates a new client while the goroutines *)
(* of the old one go on with the old client's copies (main.go:156-204).    *)
(***************************************************************************)
EXTENDS Integers

CONSTANTS
  Tasks,          \* tasks of the cluster
  BackupTasks,    \* backups: in the ledger, never timed out by the platform
  RecoveryTasks,  \* restores and drills: in the ledger, timed out
  Stoppable,      \* backups a user may force to stop
  NumClients,     \* bound on the connections, the last one stays up
  InProcess       \* whether a process outlives its connection

ASSUME TasksAssumption == /\ BackupTasks \subseteq Tasks
                          /\ RecoveryTasks \subseteq Tasks
                          /\ BackupTasks \cap RecoveryTasks = {}
                          /\ Stoppable \subseteq BackupTasks
ASSUME ClientsAssumption == NumClients \in Nat /\ InProcess \in BOOLEAN

Clients  == 1..NumClients
Senders  == {"worker", "redo"}
Routines == Senders \cup {"recover"}
Jobs     == Clients \X Tasks \X Routines
Recorded == BackupTasks \cup RecoveryTasks
Terminal == {"succeeded", "failed", "canceled"}
Reported == {"completed", "failed"}

\* A terminal event is what it says: goroutines that report the same outcome
\* of a task share one.
Events   == [task : Tasks, outcome : Reported]
Dispatch == [type : {"dispatch"}, task : Tasks, sender : Senders]
Answer   == [type : {"ack", "error"}, event : Events]

VARIABLES
  status,      \* the task's row; "running" stands for accepted and running
  stop,        \* the backup-cancel task of a backup
  send,        \* the goroutines of the platform that write a task to the agent:
               \* the status they read, or "sent" before they write "dispatched"
  link,        \* the client whose connection is up, or 0
  cur,         \* the client created last
  toAgent,     \* messages on the connection
  lateReport,  \* tasks whose accepted or progress message, and
  lateResult,  \* events, an old connection may still hand to the platform
  work,        \* the agent's goroutines
  recovered,   \* whether recoverLedgerTasks has run on the last client
  box,         \* outbox of each client
  led,         \* ledger of each client
  diskBox,     \* event-outbox.json
  diskLed,     \* task-ledger.json
  acking,      \* results acknowledged in the outbox, not yet in the ledger
  op           \* the Velero operation of a task

platformVars == <<status, stop, send>>
lateVars     == <<lateReport, lateResult>>
netVars      == <<link, cur, toAgent, lateVars>>
boxVars      == <<box, diskBox>>
ledVars      == <<led, diskLed>>
vars == <<platformVars, netVars, work, recovered, boxVars, ledVars, acking, op>>

Ledgers == [Tasks -> {"none", "open", "acked"}]

\* The types of the delivery state.
TypeOK ==
  /\ status \in [Tasks -> {"none", "queued", "dispatched", "running", "canceling"}
                            \cup Terminal]
  /\ stop \in [Tasks -> {"none", "active", "ended"}]
  /\ send \in [Senders \X Tasks -> {"idle", "queued", "dispatched", "sent"}]
  /\ cur \in 0..NumClients /\ link \in {0, cur}
  /\ toAgent \subseteq Dispatch \cup Answer
  /\ lateReport \subseteq Tasks /\ lateResult \subseteq Events
  /\ work \in [Jobs -> {"none", "received", "recorded", "accepted", "polling"}]
  /\ recovered \in BOOLEAN
  /\ box \in [Clients -> SUBSET Events] /\ diskBox \subseteq Events
  /\ led \in [Clients -> Ledgers] /\ diskLed \in Ledgers
  /\ acking \subseteq Clients \X Tasks
  /\ op \in [Tasks -> {"absent", "running", "completed", "failed"}]

NoRecord == [t \in Tasks |-> "none"]

Init ==
  /\ status = [t \in Tasks |-> "none"]
  /\ stop = [t \in Tasks |-> "none"]
  /\ send = [x \in Senders \X Tasks |-> "idle"]
  /\ link = 0 /\ cur = 0
  /\ toAgent = {} /\ lateReport = {} /\ lateResult = {}
  /\ work = [j \in Jobs |-> "none"]
  /\ recovered = FALSE
  /\ box = [g \in Clients |-> {}] /\ diskBox = {}
  /\ led = [g \in Clients |-> NoRecord] /\ diskLed = NoRecord
  /\ acking = {}
  /\ op = [t \in Tasks |-> "absent"]

(***************************************************************************)
(* Platform: the rows of the tasks and the goroutines that dispatch them   *)
(***************************************************************************)
\* Mutant: the row of a completed task takes the status of a late report.
SetStatus_Reopens(t, s) == status' = [status EXCEPT ![t] = s]

\* UpdateTaskStatus: a completed task keeps its status.
SetStatus(t, s) ==
  status' = [status EXCEPT ![t] = IF @ \in Terminal THEN @ ELSE s]

Active(t) == status[t] \notin Terminal \cup {"none"}

\* A handler stores the task and hands it to the goroutine that dispatches it.
CreateTask(t) ==
  /\ status[t] = "none"
  /\ status' = [status EXCEPT ![t] = "queued"]
  /\ send' = [send EXCEPT ![<<"worker", t>>] = "queued"]
  /\ UNCHANGED <<stop, netVars, work, recovered, boxVars, ledVars, acking, op>>

Waiting(x, t) == send[<<x, t>>] \in {"queued", "dispatched"}

\* The message is written to the connection the hub holds.
DispatchTask(x, t) ==
  /\ Waiting(x, t) /\ link # 0
  /\ toAgent' = toAgent \cup {[type |-> "dispatch", task |-> t, sender |-> x]}
  /\ send' = [send EXCEPT ![<<x, t>>] = "sent"]
  /\ UNCHANGED <<status, stop, link, cur, lateVars, work, recovered, boxVars,
                 ledVars, acking, op>>

\* ... and only then is the row set, whatever has been reported meanwhile.
MarkDispatched(x, t) ==
  /\ send[<<x, t>>] = "sent"
  /\ send' = [send EXCEPT ![<<x, t>>] = "idle"]
  /\ SetStatus(t, "dispatched")
  /\ UNCHANGED <<stop, netVars, work, recovered, boxVars, ledVars, acking, op>>

\* No agent is connected, or the write fails: the task waits for a reconnect.
DispatchWaitsForAgent(x, t) ==
  /\ Waiting(x, t) /\ link = 0
  /\ send' = [send EXCEPT ![<<x, t>>] = "idle"]
  /\ SetStatus(t, "queued")
  /\ UNCHANGED <<stop, netVars, work, recovered, boxVars, ledVars, acking, op>>

\* The storage of a backup or a recovery cannot be configured.
DispatchFails(t) ==
  /\ t \in Recorded /\ Waiting("worker", t)
  /\ send' = [send EXCEPT ![<<"worker", t>>] = "idle"]
  /\ SetStatus(t, "failed")
  /\ UNCHANGED <<stop, netVars, work, recovered, boxVars, ledVars, acking, op>>

\* A listed task whose storage is not configured goes to a goroutine of its own.
\* Bound: one such goroutine for a task at a time.
ResumeQueuedStoragePreflight(t) ==
  /\ t \in Recorded /\ send[<<"redo", t>>] = "queued" /\ send[<<"worker", t>>] = "idle"
  /\ send' = [send EXCEPT ![<<"redo", t>>] = "idle", ![<<"worker", t>>] = "queued"]
  /\ UNCHANGED <<status, stop, netVars, work, recovered, boxVars, ledVars, acking, op>>

\* cancelTask: a user forces a backup to stop.  Bound: once for a backup, before
\* the last connection.
ForceStop(t) ==
  /\ t \in Stoppable /\ stop[t] = "none" /\ Active(t) /\ cur < NumClients
  /\ SetStatus(t, "canceling")
  /\ stop' = [stop EXCEPT ![t] = "active"]
  /\ UNCHANGED <<send, netVars, work, recovered, boxVars, ledVars, acking, op>>

\* Mutant: the other spelling of the status, which no row is completed with.
StopSucceeds_Spelling(t) ==
  /\ stop[t] = "active" /\ link # 0
  /\ SetStatus(t, "cancelled")
  /\ stop' = [stop EXCEPT ![t] = "ended"]
  /\ UNCHANGED <<send, netVars, work, recovered, boxVars, ledVars, acking, op>>

\* finishBackupCancelTask: the backup-cancel task, itself dispatched to the
\* agent, is reported.  What it deletes is in RestorePoints.
StopSucceeds(t) ==
  /\ stop[t] = "active" /\ link # 0
  /\ SetStatus(t, "canceled")
  /\ stop' = [stop EXCEPT ![t] = "ended"]
  /\ UNCHANGED <<send, netVars, work, recovered, boxVars, ledVars, acking, op>>

MarkBackupCancelFailed(t) ==
  /\ stop[t] = "active" /\ link # 0
  /\ IF status[t] = "canceling" THEN SetStatus(t, "running") ELSE UNCHANGED status
  /\ stop' = [stop EXCEPT ![t] = "ended"]
  /\ UNCHANGED <<send, netVars, work, recovered, boxVars, ledVars, acking, op>>

\* The scheduler ends a recovery or a maintenance task nothing is heard of for
\* much longer than its first dispatch takes.
ReconcileAbandonedTask(t) ==
  /\ t \notin BackupTasks /\ Active(t) /\ send[<<"worker", t>>] = "idle"
  /\ SetStatus(t, "failed")
  /\ UNCHANGED <<stop, send, netVars, work, recovered, boxVars, ledVars, acking, op>>

(***************************************************************************)
(* The connection.  The platform may read what the agent has written: the  *)
(* reports of the goroutines that run on the connected client, and the     *)
(* events of its outbox, which are written when they are added, after a    *)
(* connect and on a ticker (resendPendingEvents).                          *)
(***************************************************************************)
Reporting(t) ==
  link # 0 /\ \E r \in Routines : work[<<link, t, r>>] \in {"accepted", "polling"}

\* Mutant: a task that was dispatched is not dispatched again.
Connect_QueuedOnly ==
  /\ link = 0 /\ cur < NumClients
  /\ cur' = cur + 1 /\ link' = cur + 1
  /\ box' = [box EXCEPT ![cur + 1] = diskBox]
  /\ led' = [led EXCEPT ![cur + 1] = diskLed]
  /\ recovered' = FALSE
  /\ send' = [x \in Senders \X Tasks |->
                IF x[1] # "redo" THEN send[x]
                ELSE IF status[x[2]] = "queued" THEN "queued" ELSE "idle"]
  /\ UNCHANGED <<status, stop, toAgent, lateVars, work, diskBox, diskLed, acking, op>>

\* A new client reads both files and registers; the platform lists the tasks
\* that are queued or dispatched.
Connect ==
  /\ link = 0 /\ cur < NumClients
  /\ cur' = cur + 1 /\ link' = cur + 1
  /\ box' = [box EXCEPT ![cur + 1] = diskBox]
  /\ led' = [led EXCEPT ![cur + 1] = diskLed]
  /\ recovered' = FALSE
  /\ send' = [x \in Senders \X Tasks |->
                IF x[1] # "redo" THEN send[x]
                ELSE IF status[x[2]] \in {"queued", "dispatched"} THEN status[x[2]]
                ELSE "idle"]
  /\ UNCHANGED <<status, stop, toAgent, lateVars, work, diskBox, diskLed, acking, op>>

\* What was written to the agent is lost.  What the agent has written may
\* still be read by the goroutine of the old connection.
Disconnect ==
  /\ link' = 0 /\ toAgent' = {}
  /\ lateReport' = lateReport \cup {t \in Tasks : Reporting(t)}
  /\ lateResult' = lateResult \cup IF link = 0 THEN {} ELSE box[link]

\* The connection is lost while the agent's process goes on.
Drop ==
  /\ InProcess /\ link # 0 /\ cur < NumClients
  /\ Disconnect
  /\ UNCHANGED <<platformVars, cur, work, recovered, boxVars, ledVars, acking, op>>

\* The agent's process stops: goroutines and memory are gone, the files stay.
Crash ==
  /\ 0 < cur /\ cur < NumClients
  /\ Disconnect
  /\ acking' = {}
  /\ work' = [j \in Jobs |-> "none"]
  /\ box' = [g \in Clients |-> {}]
  /\ led' = [g \in Clients |-> NoRecord]
  /\ UNCHANGED <<platformVars, cur, recovered, diskBox, diskLed, op>>

\* The platform's process stops while no agent is connected.
PlatformRestarts ==
  /\ link = 0 /\ cur < NumClients
  /\ send' = [x \in Senders \X Tasks |-> "idle"]
  /\ lateReport' = {} /\ lateResult' = {}
  /\ UNCHANGED <<status, stop, link, cur, toAgent, work, recovered, boxVars, ledVars,
                 acking, op>>

(***************************************************************************)
(* Agent                                                                   *)
(***************************************************************************)
\* readMessages: every dispatch gets a goroutine.
ReceiveDispatch(m) ==
  /\ m.type = "dispatch"
  /\ toAgent' = toAgent \ {m}
  /\ work' = [work EXCEPT ![<<link, m.task, m.sender>>] = "received"]
  /\ UNCHANGED <<platformVars, link, cur, lateVars, recovered, boxVars, ledVars, acking, op>>

\* flushLocked of the ledger: the file becomes this client's copy.
SetLedger(g, t, v) ==
  /\ led' = [led EXCEPT ![g][t] = v]
  /\ diskLed' = [led[g] EXCEPT ![t] = v]

\* recordTask, before the task is accepted.
RecordTask(g, t, r) ==
  /\ t \in Recorded /\ work[<<g, t, r>>] = "received"
  /\ SetLedger(g, t, "open")
  /\ work' = [work EXCEPT ![<<g, t, r>>] = "recorded"]
  /\ UNCHANGED <<platformVars, netVars, recovered, boxVars, acking, op>>

\* Mutant: a backup or a recovery is accepted before it is recorded.
SendTaskAccepted_Early(g, t, r) ==
  /\ work[<<g, t, r>>] \in {"received", "recorded"}
  /\ diskLed' = led[g]
  /\ work' = [work EXCEPT ![<<g, t, r>>] = IF g = link THEN "accepted" ELSE "none"]
  /\ UNCHANGED <<platformVars, netVars, recovered, boxVars, led, acking, op>>

\* sendTaskAccepted writes the ledger again; the goroutine gives up when the
\* connection is down.
SendTaskAccepted(g, t, r) ==
  /\ work[<<g, t, r>>] = IF t \in Recorded THEN "recorded" ELSE "received"
  /\ diskLed' = led[g]
  /\ work' = [work EXCEPT ![<<g, t, r>>] = IF g = link THEN "accepted" ELSE "none"]
  /\ UNCHANGED <<platformVars, netVars, recovered, boxVars, led, acking, op>>

\* The object of the task is created, or found if the task is executed again.
Submit(g, t, r) ==
  /\ work[<<g, t, r>>] = "accepted"
  /\ op' = [op EXCEPT ![t] = IF @ = "absent" THEN "running" ELSE @]
  /\ work' = [work EXCEPT ![<<g, t, r>>] = "polling"]
  /\ UNCHANGED <<platformVars, netVars, recovered, boxVars, ledVars, acking>>

\* sendReliableEvent: the event is in the outbox and its file before it is
\* written to the connection.
SendReliableEvent(g, e) ==
  /\ box' = [box EXCEPT ![g] = @ \cup {e}]
  /\ diskBox' = box[g] \cup {e}

\* Mutant: an operation that has not failed is taken as completed.
Observes_NotFailed(t, phase) ==
  IF phase = "polling"
  THEN IF op[t] # "failed" THEN {"completed"} ELSE {"failed"}
  ELSE IF phase \in {"received", "accepted"} THEN {"failed"} ELSE {}

\* What a goroutine may report: completed only when it reads so; failed when
\* the command is refused, the submission fails, the operation failed or
\* cannot be found, or the deadline passes.
Observes(t, phase) ==
  IF phase = "polling"
  THEN IF op[t] = "completed" THEN {"completed"} ELSE {"failed"}
  ELSE IF phase \in {"received", "accepted"} THEN {"failed"} ELSE {}

ReportOutcome(g, t, r) ==
  /\ \E o \in Observes(t, work[<<g, t, r>>]) :
       SendReliableEvent(g, [task |-> t, outcome |-> o])
  /\ work' = [work EXCEPT ![<<g, t, r>>] = "none"]
  /\ UNCHANGED <<platformVars, netVars, recovered, ledVars, acking, op>>

\* recoverLedgerTasks: a goroutine polls every open record without an event.
RecoverLedgerTasks ==
  /\ link # 0 /\ ~recovered
  /\ recovered' = TRUE
  /\ work' = [j \in Jobs |->
                IF /\ j[1] = link /\ j[3] = "recover" /\ led[link][j[2]] = "open"
                   /\ \A e \in box[link] : e.task # j[2]
                THEN "polling" ELSE work[j]]
  /\ UNCHANGED <<platformVars, netVars, boxVars, ledVars, acking, op>>

\* Mutant: an answer removes every event of the task.
ReceiveAnswer_Task(m) ==
  LET kept == {e \in box[link] : e.task # m.event.task}
  IN /\ m.type \in {"ack", "error"}
     /\ toAgent' = toAgent \ {m}
     /\ box' = [box EXCEPT ![link] = kept]
     /\ diskBox' = kept
     /\ acking' = IF m.type = "ack" THEN acking \cup {<<link, m.event.task>>} ELSE acking
     /\ UNCHANGED <<platformVars, link, cur, lateVars, work, recovered, ledVars, op>>

\* platform.event.ack removes the event, then marks the ledger: two writes.
\* platform.event.error, not retryable, only removes it.
ReceiveAnswer(m) ==
  /\ m.type \in {"ack", "error"}
  /\ toAgent' = toAgent \ {m}
  /\ IF m.event \in box[link] \/ m.type = "error"
     THEN /\ box' = [box EXCEPT ![link] = @ \ {m.event}]
          /\ diskBox' = box[link] \ {m.event}
          /\ acking' = IF m.type = "ack" THEN acking \cup {<<link, m.event.task>>} ELSE acking
     ELSE UNCHANGED <<box, diskBox, acking>>
  /\ UNCHANGED <<platformVars, link, cur, lateVars, work, recovered, ledVars, op>>

MarkTerminalAcked(g, t) ==
  /\ <<g, t>> \in acking
  /\ acking' = acking \ {<<g, t>>}
  /\ IF led[g][t] = "none" THEN UNCHANGED ledVars ELSE SetLedger(g, t, "acked")
  /\ UNCHANGED <<platformVars, netVars, work, recovered, boxVars, op>>

\* Velero ends an operation.
VeleroFinishes(t) ==
  /\ op[t] = "running"
  /\ \E o \in Reported : op' = [op EXCEPT ![t] = o]
  /\ UNCHANGED <<platformVars, netVars, work, recovered, boxVars, ledVars, acking>>

(***************************************************************************)
(* Platform: what the agent reports                                        *)
(***************************************************************************)
\* The tasks listed for a connection are dispatched before it is read.
Reading == link # 0 /\ \A t \in Tasks : send[<<"redo", t>>] = "idle"

\* agent.task.accepted and agent.task.progress
HandleReport(t) ==
  /\ Reading /\ Reporting(t)
  /\ SetStatus(t, "running")
  /\ UNCHANGED <<stop, send, netVars, work, recovered, boxVars, ledVars, acking, op>>

\* ... read from an old connection.
HandleLateReport(t) ==
  /\ t \in lateReport
  /\ lateReport' = lateReport \ {t}
  /\ SetStatus(t, "running")
  /\ UNCHANGED <<stop, send, link, cur, toAgent, lateResult, work, recovered, boxVars,
                 ledVars, acking, op>>

\* A backup's accepted result and its failure exclude each other.
Conflicts(t, o) ==
  /\ t \in BackupTasks
  /\ status[t] = IF o = "completed" THEN "failed" ELSE "succeeded"

\* isForceStoppedBackupTask: the result is acknowledged and dropped.
Ignored(t) == t \in BackupTasks /\ status[t] \in {"canceling", "canceled"}

\* Mutant: a result that overtakes the acceptance is dropped.
Settle_Accepted(t, o) ==
  IF Conflicts(t, o) \/ Ignored(t) \/ status[t] # "running"
  THEN UNCHANGED status
  ELSE SetStatus(t, IF o = "completed" THEN "succeeded" ELSE "failed")

\* agent.task.completed and agent.task.failed.  The accepted result of a backup
\* is "succeeded" here, before its restore point is published (RestorePoints).
Settle(t, o) ==
  IF Conflicts(t, o) \/ Ignored(t)
  THEN UNCHANGED status
  ELSE SetStatus(t, IF o = "completed" THEN "succeeded" ELSE "failed")

HandleResult(e) ==
  /\ Reading
  /\ Settle(e.task, e.outcome)
  /\ toAgent' = toAgent \cup {[type |-> IF Conflicts(e.task, e.outcome) THEN "error" ELSE "ack",
                               event |-> e]}
  /\ UNCHANGED <<stop, send, link, cur, lateVars, work, recovered, boxVars, ledVars,
                 acking, op>>

\* ... read from an old connection: the answer cannot be written.
HandleLateResult(e) ==
  /\ Settle(e.task, e.outcome)
  /\ lateResult' = lateResult \ {e}
  /\ UNCHANGED <<stop, send, link, cur, toAgent, lateReport, work, recovered, boxVars,
                 ledVars, acking, op>>

Execute(g, t, r) ==
  \/ RecordTask(g, t, r) \/ SendTaskAccepted(g, t, r) \/ Submit(g, t, r)
  \/ ReportOutcome(g, t, r)

Next ==
  \/ \E t \in Tasks :
       \/ CreateTask(t) \/ DispatchFails(t) \/ ResumeQueuedStoragePreflight(t)
       \/ ReconcileAbandonedTask(t)
       \/ ForceStop(t) \/ StopSucceeds(t) \/ MarkBackupCancelFailed(t)
       \/ VeleroFinishes(t)
       \/ \E x \in Senders : \/ DispatchTask(x, t) \/ MarkDispatched(x, t)
                             \/ DispatchWaitsForAgent(x, t)
       \/ HandleReport(t) \/ HandleLateReport(t)
       \/ \E g \in Clients, r \in Routines : Execute(g, t, r)
       \/ \E g \in Clients : MarkTerminalAcked(g, t)
  \/ Connect \/ Drop \/ Crash \/ PlatformRestarts \/ RecoverLedgerTasks
  \/ \E e \in lateResult : HandleLateResult(e)
  \/ /\ link # 0
     /\ \/ \E e \in box[link] : HandleResult(e)
        \/ \E m \in toAgent : ReceiveDispatch(m) \/ ReceiveAnswer(m)

Spec == Init /\ [][Next]_vars

\* Goroutines run, a connected agent's messages are read and the agent
\* reconnects.  Nothing is assumed of users, of force stops, of the scheduler's
\* timeouts or of Velero: a goroutine that observes an operation has a deadline
\* of its own.
Fairness ==
  /\ WF_vars(Connect) /\ WF_vars(RecoverLedgerTasks)
  /\ \A t \in Tasks :
       /\ WF_vars(\E x \in Senders : \/ DispatchTask(x, t) \/ MarkDispatched(x, t)
                                     \/ DispatchWaitsForAgent(x, t))
       /\ WF_vars(\E m \in toAgent : m.type = "dispatch" /\ m.task = t /\ ReceiveDispatch(m))
       /\ WF_vars(\E g \in Clients, r \in Routines : Execute(g, t, r))
       /\ WF_vars(link # 0 /\ \E e \in box[link] : e.task = t /\ HandleResult(e))

FairSpec == Spec /\ Fairness

(***************************************************************************)
(* Properties                                                              *)
(***************************************************************************)
\* A task whose outcome the agent's ledger holds as acknowledged, in memory or
\* in the file, is not open on the platform: markTerminalAcked lets the agent
\* forget the task and delete its Backup (cleanupTerminalBackupConflict), and
\* only a force stop that ends it may be under way.
AckedMeansSettled ==
  \A t \in Tasks :
    (diskLed[t] = "acked" \/ \E g \in Clients : led[g][t] = "acked")
      => status[t] \in Terminal \cup {"canceling"}

\* A task succeeds only if its operation was completed, however often it was
\* dispatched, executed, recovered and reported.
SucceededMeansDone ==
  \A t \in Tasks : status[t] = "succeeded" => op[t] = "completed"

\* A backup or recovery the platform holds as accepted is never lost: the
\* agent's files hold an open record or an event of it, so that any restart
\* observes or reports it again (recordTask before sendTaskAccepted).  A failed
\* force stop sets a task to running that the agent need not have accepted.
AcceptedIsDurable ==
  \A t \in Recorded :
    status[t] = "running" /\ stop[t] = "none" =>
      diskLed[t] = "open" \/ \E e \in diskBox : e.task = t

\* The rows, ledgers, outboxes and messages are well formed, and what was
\* accepted can be found again (UpdateTaskStatus, recordTask).
DeliverySafety == TypeOK /\ AcceptedIsDurable

\* An event leaves the agent's outbox file only when the platform has answered
\* it (sendReliableEvent, acknowledge, remove).
ReportsAreKept ==
  [][\A e \in diskBox \ diskBox' : \E m \in toAgent : m.type # "dispatch" /\ m.event = e]_vars

\* What the abstract life of a task keeps of its row.
Life == [t \in Tasks |-> IF status[t] \in Terminal \cup {"none"} THEN status[t] ELSE "open"]
Lifecycle == INSTANCE TaskLifecycle WITH state <- Life

\* The rows implement the abstract life of a task: opened once, ended at most
\* once, the outcome of a retry, a duplicate or a late report never replaces
\* the first one.
LifecycleSpec == Lifecycle!Spec

\* Every task ends, although connections drop and processes stop, unless a user
\* forces it to stop: a failed stop can leave it running (AckedMeansSettled).
EveryTaskEnds ==
  \A t \in Tasks :
    (status[t] = "queued") ~> (status[t] \in Terminal \/ stop[t] # "none")
=============================================================================
