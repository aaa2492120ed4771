---------------------------- MODULE AgentBackup ----------------------------
(***************************************************************************)
(* How the agent carries out the backups of one protection plan: it takes  *)
(* the plan's lock, records and accepts the task, looks for a Backup of    *)
(* the plan that is still active, submits its own and observes it; it      *)
(* deletes a Backup when the platform stops a task or retires points, and  *)
(* it announces every Backup of the plan it finds in the cluster.          *)
(*                                                                         *)
(* Every connection has a client of its own, with its own lock and         *)
(* memory.  A connection that drops leaves the goroutines of its client    *)
(* running; a restart of the process ends them.                            *)
(***************************************************************************)
EXTENDS Naturals, FiniteSets

CONSTANTS
  Backups,      \* the backup tasks of the plan, in the order they are created
  MaxClients,   \* bound on connections, each with a client
  Scenarios,    \* which disturbances a behaviour may meet together
  NoTask

ASSUME BackupsAssumption == Backups \subseteq Nat /\ NoTask \notin Backups
ASSUME ScenariosAssumption ==
  Scenarios \subseteq SUBSET {"restart", "reconnect", "stop", "retention"}
ASSUME ClientsAssumption == MaxClients \in Nat \ {0}

Clients  == 1..MaxClients
Routines == Backups \X {"run", "watch"} \X Clients

VARIABLES
  sent,      \* what the platform knows of a task
  got,       \* clients that a task was delivered to
  cur,       \* the client of the current connection
  pc,        \* where each goroutine stands
  lock,      \* activeBackupPlans of each client
  listed,    \* active Backups of the plan as a goroutine listed them
  known,     \* the ledger has a record of the task
  acked,     \* ... with a terminal result that the platform acknowledged
  out,       \* terminal events of the task in the outbox
  cr,        \* phase of the task's Backup in the cluster
  upload,    \* the node-agent moves data for the Backup
  newest,    \* the Backup created last
  dying,     \* Backups with a DeleteBackupRequest
  announced, \* backup events added to the outbox
  seen,      \* end of each Backup as the current client announced it
  stop,      \* the force stop: its state, its target and the Backup it deletes
  scenario,  \* the disturbances of this behaviour
  retire     \* the retention cleanup: its state, its points and what it deleted

platformVars == <<sent, got, cur, scenario>>
agentVars    == <<pc, lock, listed, known, acked, out>>
veleroVars   == <<cr, upload, newest, dying>>
eventVars    == <<announced, seen>>
vars == <<platformVars, agentVars, veleroVars, eventVars, stop, retire>>

\* isActiveBackupPhase
Active == {"New", "InProgress"}
Ended  == {"Completed", "Failed"}

TypeOK ==
  /\ sent \in [Backups -> {"new", "dispatched", "running", "ended"}]
  /\ got \in [Backups -> SUBSET Clients] /\ cur \in Clients
  /\ pc \in [Routines -> {"none", "storage", "check", "clean", "submit", "poll"}]
  /\ lock \in [Clients -> Backups \cup {NoTask}]
  /\ listed \in [Routines -> SUBSET Backups]
  /\ known \in [Backups -> BOOLEAN] /\ acked \in [Backups -> BOOLEAN]
  /\ out \in [Backups -> SUBSET {"succeeded", "failed"}]
  /\ cr \in [Backups -> {"absent"} \cup Active \cup Ended]
  /\ upload \in [Backups -> BOOLEAN]
  /\ newest \in Backups \cup {NoTask}
  /\ dying \subseteq Backups /\ scenario \in Scenarios
  /\ announced \in [Backups -> SUBSET Ended]
  /\ seen \in [Backups -> {"none"} \cup Ended]
  /\ stop \in [pc : {"none", "find", "apply", "wait", "done"},
               target : Backups \cup {NoTask}, name : Backups \cup {NoTask}]
  /\ retire \in [pc : {"none", "apply", "wait", "done", "failed"},
                 points : SUBSET Backups, deleted : SUBSET Backups]

Init ==
  /\ sent = [b \in Backups |-> "new"] /\ cur = 1
  /\ got = [b \in Backups |-> {}]
  /\ pc = [r \in Routines |-> "none"]
  /\ lock = [c \in Clients |-> NoTask]
  /\ listed = [r \in Routines |-> {}]
  /\ known = [b \in Backups |-> FALSE] /\ acked = [b \in Backups |-> FALSE]
  /\ out = [b \in Backups |-> {}]
  /\ cr = [b \in Backups |-> "absent"] /\ upload = [b \in Backups |-> FALSE]
  /\ newest = NoTask /\ dying = {} /\ scenario \in Scenarios
  /\ announced = [b \in Backups |-> {}] /\ seen = [b \in Backups |-> "none"]
  /\ stop = [pc |-> "none", target |-> NoTask, name |-> NoTask]
  /\ retire = [pc |-> "none", points |-> {}, deleted |-> {}]

Goto(r, label) == pc' = [pc EXCEPT ![r] = label]

\* The deferred releasePlan of executeBackupTask: only the owner's entry.
Release(b, c) == lock' = [lock EXCEPT ![c] = IF @ = b THEN NoTask ELSE @]

\* sendTaskFailed and sendTaskCompleted put the event in the outbox, and the
\* goroutine returns; one that was resumed from the ledger holds no lock.
Report(r, outcome) ==
  /\ out' = [out EXCEPT ![r[1]] = @ \cup {outcome}]
  /\ Goto(r, "none")
  /\ IF r[2] = "run" THEN Release(r[1], r[3]) ELSE UNCHANGED lock

(***************************************************************************)
(* The platform, as far as the agent depends on it                         *)
(***************************************************************************)
\* The platform sends a task that it has not seen accepted once over every
\* connection (redispatchPendingTasks).
Deliverable(b) == sent[b] = "dispatched" /\ cur \notin got[b]

\* A plan has one open backup task at a time (CreateTask).
Dispatch(b) ==
  /\ sent[b] = "new"
  /\ \A a \in Backups : a < b => sent[a] = "ended"
  /\ sent' = [sent EXCEPT ![b] = "dispatched"]
  /\ UNCHANGED <<got, cur, scenario, agentVars, veleroVars, eventVars, stop, retire>>

\* The first terminal event ends the task; markTerminalAcked follows the answer
\* and changes only a record that is there.
Acknowledge(b) ==
  /\ out[b] # {}
  /\ out' = [out EXCEPT ![b] = {}]
  /\ sent' = [sent EXCEPT ![b] = "ended"]
  /\ acked' = [acked EXCEPT ![b] = known[b]]
  /\ UNCHANGED <<got, cur, scenario, pc, lock, listed, known, veleroVars, eventVars, stop, retire>>

(***************************************************************************)
(* executeBackupTask                                                       *)
(***************************************************************************)
\* A command that is missing or filtered under OADP, a claim that is not
\* ReadWriteOnce, or another task that holds the plan fails the task.
RejectBackup(b) ==
  /\ Deliverable(b)
  /\ got' = [got EXCEPT ![b] = @ \cup {cur}]
  /\ out' = [out EXCEPT ![b] = {"failed"}]
  /\ UNCHANGED <<sent, cur, scenario, pc, lock, listed, known, acked, veleroVars, eventVars,
                 stop, retire>>

AcquireBackupPlan(b) ==
  /\ Deliverable(b)
  /\ got' = [got EXCEPT ![b] = @ \cup {cur}]
  /\ lock[cur] \in {NoTask, b}
  /\ lock' = [lock EXCEPT ![cur] = b]
  /\ Goto(<<b, "run", cur>>, "storage")
  /\ UNCHANGED <<sent, cur, scenario, listed, known, acked, out, veleroVars, eventVars, stop,
                 retire>>

\* The storage location is not available, the manifest is invalid, the ledger
\* cannot be written, the list of Backups cannot be read, or the Backup cannot
\* be submitted.
BackupFails(r) ==
  /\ pc[r] \in {"storage", "check", "submit"}
  /\ Report(r, "failed")
  /\ UNCHANGED <<platformVars, listed, known, acked, veleroVars, eventVars, stop,
                 retire>>

\* The storage location is available: the task is recorded with the Backup's
\* name and accepted.  When the acceptance cannot be written the handler
\* returns; when it is lost on the way the platform does not see it.
\* Mutant: the plan stays locked when the acceptance cannot be written.
AcceptBackup_Locked(r, written, arrives) ==
  LET b == r[1] IN
  /\ pc[r] = "storage"
  /\ arrives => written
  /\ known' = [known EXCEPT ![b] = TRUE]
  /\ acked' = [acked EXCEPT ![b] = FALSE]
  /\ sent' = [sent EXCEPT ![b] = IF arrives /\ @ = "dispatched" THEN "running" ELSE @]
  /\ Goto(r, IF written THEN "check" ELSE "none")
  /\ UNCHANGED <<got, cur, scenario, lock, listed, out, veleroVars, eventVars, stop,
                 retire>>

AcceptBackup(r, written, arrives) ==
  LET b == r[1] IN
  /\ pc[r] = "storage"
  /\ arrives => written
  /\ known' = [known EXCEPT ![b] = TRUE]
  /\ acked' = [acked EXCEPT ![b] = FALSE]
  /\ sent' = [sent EXCEPT ![b] = IF arrives /\ @ = "dispatched" THEN "running" ELSE @]
  /\ IF written THEN Goto(r, "check") /\ UNCHANGED lock
                ELSE Goto(r, "none") /\ Release(b, r[3])
  /\ UNCHANGED <<got, cur, scenario, listed, out, veleroVars, eventVars, stop, retire>>

\* findConflictingActiveBackup lists the other active Backups of the plan ...
\* Mutant: a Backup that Velero has not begun is not counted.
ListConflicts_Begun(r) ==
  /\ pc[r] = "check"
  /\ listed' = [listed EXCEPT ![r] = {a \in Backups \ {r[1]} : cr[a] = "InProgress"}]
  /\ Goto(r, "clean")
  /\ UNCHANGED <<platformVars, lock, known, acked, out, veleroVars, eventVars, stop,
                 retire>>

ListConflicts(r) ==
  /\ pc[r] = "check"
  /\ listed' = [listed EXCEPT ![r] = {a \in Backups \ {r[1]} : cr[a] \in Active}]
  /\ Goto(r, "clean")
  /\ UNCHANGED <<platformVars, lock, known, acked, out, veleroVars, eventVars, stop,
                 retire>>

\* ... removes one whose task the platform has settled, once its uploads have
\* stopped (cleanupTerminalBackupConflict) ...
\* Mutant: every Backup in the way is removed.
Removable_Any(a) == TRUE

Removable(a) == acked[a]

CleanTerminalConflict(r, a) ==
  /\ pc[r] = "clean" /\ a \in listed[r]
  /\ Removable(a) /\ ~upload[a]
  /\ cr' = [cr EXCEPT ![a] = "absent"]
  /\ listed' = [listed EXCEPT ![r] = @ \ {a}]
  /\ UNCHANGED <<platformVars, pc, lock, known, acked, out, upload, newest, dying,
                 eventVars, stop, retire>>

\* ... and fails on one that it may not or cannot remove, after announcing it.
ReportConflict(r, a) ==
  /\ pc[r] = "clean" /\ a \in listed[r]
  /\ Report(r, "failed")
  /\ listed' = [listed EXCEPT ![r] = {}]
  /\ UNCHANGED <<platformVars, known, acked, veleroVars, eventVars, stop, retire>>

NoConflict(r) ==
  /\ pc[r] = "clean" /\ listed[r] = {}
  /\ Goto(r, "submit")
  /\ UNCHANGED <<platformVars, lock, listed, known, acked, out, veleroVars, eventVars,
                 stop, retire>>

\* submitBackupWithConfirmation: the Backup has been applied, whatever error
\* the attempts returned.  Applying it again replaces the object with its
\* status, so that Velero begins anew.
SubmitBackup(r) ==
  LET b == r[1] IN
  /\ pc[r] = "submit"
  /\ cr' = [cr EXCEPT ![b] = "New"]
  /\ newest' = IF cr[b] = "absent" THEN b ELSE newest
  /\ Goto(r, "poll")
  /\ UNCHANGED <<platformVars, lock, listed, known, acked, out, upload, dying, eventVars,
                 stop, retire>>

\* pollVeleroStatus: the phase decides; a Backup that is gone, a read error
\* that is not transient and the deadline fail the task.
\* Mutant: the phase of the Backup is reported as it is read.
Outcome_Phase(phase) == phase

Outcome(phase) == IF phase = "Completed" THEN "succeeded" ELSE "failed"

PollEnds(r) ==
  /\ pc[r] = "poll"
  /\ Report(r, Outcome(cr[r[1]]))
  /\ UNCHANGED <<platformVars, listed, known, acked, veleroVars, eventVars, stop,
                 retire>>

(***************************************************************************)
(* Backup events (sendVeleroBackupEvents, every five seconds)              *)
(***************************************************************************)
\* shouldReportVeleroBackup: the ledger keeps the plan of every recorded task,
\* so that the backups of the plan are announced after a restart too.
\* Mutant: only the tasks that this client has received are announced.
Reportable_Received(b) == cur \in got[b]

Reportable(b) == \E a \in Backups : known[a]

\* sendVeleroBackupEvent: an event for every change of phase.  The terminal ones
\* go through the outbox; the others leave no trace.
AnnounceBackup(b) ==
  /\ Reportable(b)
  /\ cr[b] \in Ended /\ cr[b] # seen[b]
  /\ seen' = [seen EXCEPT ![b] = cr[b]]
  /\ announced' = [announced EXCEPT ![b] = @ \cup {cr[b]}]
  /\ UNCHANGED <<platformVars, agentVars, veleroVars, stop, retire>>

(***************************************************************************)
(* executeBackupCancelTask                                                 *)
(***************************************************************************)
ForceStop(b) ==
  /\ "stop" \in scenario /\ stop.pc = "none"
  /\ sent[b] \in {"dispatched", "running"}
  /\ stop' = [pc |-> "find", target |-> b, name |-> NoTask]
  /\ UNCHANGED <<platformVars, agentVars, veleroVars, eventVars, retire>>

\* The command names the Backup, or the agent takes the newest active Backup
\* of the plan (findActiveBackupNameForCancel).
StopFinds(named) ==
  /\ stop.pc = "find"
  /\ \E a \in Backups :
       /\ IF named THEN a = stop.target
                   ELSE cr[a] \in Active /\ (cr[newest] \in Active => a = newest)
       /\ stop' = [stop EXCEPT !.pc = "apply", !.name = a]
  /\ UNCHANGED <<platformVars, agentVars, veleroVars, eventVars, retire>>

\* There is no active Backup: the stop has succeeded.
StopFindsNothing ==
  /\ stop.pc = "find" /\ \A a \in Backups : cr[a] \notin Active
  /\ stop' = [stop EXCEPT !.pc = "done"]
  /\ sent' = [sent EXCEPT ![stop.target] = "ended"]
  /\ UNCHANGED <<got, cur, scenario, agentVars, veleroVars, eventVars, retire>>

StopRequestsDeletion ==
  /\ stop.pc = "apply"
  /\ dying' = dying \cup {stop.name}
  /\ stop' = [stop EXCEPT !.pc = "wait"]
  /\ UNCHANGED <<platformVars, agentVars, cr, upload, newest, eventVars, retire>>

\* WaitForVeleroBackupDeleted finds no Backup: the plan is released for the
\* next task.
StopSucceeds ==
  /\ stop.pc = "wait" /\ cr[stop.name] = "absent"
  /\ Release(stop.target, cur)
  /\ sent' = [sent EXCEPT ![stop.target] = "ended"]
  /\ stop' = [stop EXCEPT !.pc = "done"]
  /\ UNCHANGED <<got, cur, scenario, pc, listed, known, acked, out, veleroVars, eventVars, retire>>

\* An error of the API, a progress report that cannot be sent or ten minutes
\* without deletion: the target goes on.
StopFails ==
  /\ stop.pc \in {"find", "apply", "wait"}
  /\ stop' = [stop EXCEPT !.pc = "done"]
  /\ UNCHANGED <<platformVars, agentVars, veleroVars, eventVars, retire>>

(***************************************************************************)
(* executeRetentionCleanupTask                                             *)
(***************************************************************************)
\* The platform retires points of completed backups.
RetentionBegins(points) ==
  /\ "retention" \in scenario /\ retire.pc = "none" /\ points # {}
  /\ \A b \in points : cr[b] = "Completed" /\ sent[b] = "ended"
  /\ retire' = [pc |-> "apply", points |-> points, deleted |-> {}]
  /\ UNCHANGED <<platformVars, agentVars, veleroVars, eventVars, stop>>

RetentionRequestsDeletion(b) ==
  /\ retire.pc = "apply" /\ b \in retire.points \ retire.deleted
  /\ dying' = dying \cup {b}
  /\ retire' = [retire EXCEPT !.pc = "wait"]
  /\ UNCHANGED <<platformVars, agentVars, cr, upload, newest, eventVars, stop>>

\* Mutant: the deletion is not awaited.
RetentionDeletes_Unawaited(b) ==
  /\ retire.pc = "wait" /\ b \in dying \cap (retire.points \ retire.deleted)
  /\ retire' = [retire EXCEPT !.deleted = @ \cup {b},
       !.pc = IF retire.points = retire.deleted \cup {b} THEN "done" ELSE "apply"]
  /\ UNCHANGED <<platformVars, agentVars, veleroVars, eventVars, stop>>

RetentionDeletes(b) ==
  /\ retire.pc = "wait" /\ b \in retire.points \ retire.deleted /\ cr[b] = "absent"
  /\ retire' = [retire EXCEPT !.deleted = @ \cup {b},
       !.pc = IF retire.points = retire.deleted \cup {b} THEN "done" ELSE "apply"]
  /\ UNCHANGED <<platformVars, agentVars, veleroVars, eventVars, stop>>

RetentionFails ==
  /\ retire.pc \in {"apply", "wait"}
  /\ retire' = [retire EXCEPT !.pc = "failed"]
  /\ UNCHANGED <<platformVars, agentVars, veleroVars, eventVars, stop>>

(***************************************************************************)
(* Connections                                                             *)
(***************************************************************************)
\* recoverLedgerTasks observes every recorded task without a terminal event
\* that is answered or waits for an answer.
Recoverable(b) == known[b] /\ ~acked[b] /\ out[b] = {}

Resumed(c) ==
  [r \in Routines |->
     IF r[2] = "watch" /\ r[3] = c /\ Recoverable(r[1]) THEN "poll" ELSE "none"]

\* The process restarts and connects.
Restart ==
  /\ "restart" \in scenario /\ cur < MaxClients
  /\ cur' = cur + 1
  /\ pc' = Resumed(cur + 1)
  /\ lock' = [c \in Clients |-> NoTask]
  /\ listed' = [r \in Routines |-> {}]
  /\ seen' = [b \in Backups |-> "none"]
  /\ stop' = [stop EXCEPT !.pc = IF @ = "none" THEN @ ELSE "done"]
  /\ retire' = [retire EXCEPT !.pc = IF @ \in {"apply", "wait"} THEN "failed" ELSE @]
  /\ UNCHANGED <<sent, got, scenario, known, acked, out, veleroVars, announced>>

\* The process connects again; the goroutines of the old client go on.
Reconnect ==
  /\ "reconnect" \in scenario /\ cur < MaxClients
  /\ cur' = cur + 1
  /\ pc' = [r \in Routines |-> IF r[3] = cur + 1 THEN Resumed(cur + 1)[r] ELSE pc[r]]
  /\ seen' = [b \in Backups |-> "none"]
  /\ UNCHANGED <<sent, got, scenario, lock, listed, known, acked, out, veleroVars, announced, stop,
                 retire>>

(***************************************************************************)
(* Velero, as the agent uses it                                            *)
(***************************************************************************)
VeleroStarts(b) ==
  /\ cr[b] = "New"
  /\ cr' = [cr EXCEPT ![b] = "InProgress"]
  /\ upload' = [upload EXCEPT ![b] = TRUE]
  /\ UNCHANGED <<platformVars, agentVars, newest, dying, eventVars, stop, retire>>

VeleroEnds(b, phase) ==
  /\ cr[b] = "InProgress"
  /\ cr' = [cr EXCEPT ![b] = phase]
  /\ upload' = [upload EXCEPT ![b] = FALSE]
  /\ UNCHANGED <<platformVars, agentVars, newest, dying, eventVars, stop, retire>>

\* An upload ends, or is canceled, while the Backup stays in progress.
UploadEnds(b) ==
  /\ upload[b]
  /\ upload' = [upload EXCEPT ![b] = FALSE]
  /\ UNCHANGED <<platformVars, agentVars, cr, newest, dying, eventVars, stop, retire>>

\* A DeleteBackupRequest removes the Backup with its data; Velero refuses it
\* for a Backup in progress.
VeleroDeletes(b) ==
  /\ b \in dying
  /\ dying' = dying \ {b}
  /\ cr' = [cr EXCEPT ![b] = IF @ = "InProgress" /\ upload[b] THEN @ ELSE "absent"]
  /\ UNCHANGED <<platformVars, agentVars, upload, newest, eventVars, stop, retire>>

(***************************************************************************)
(* Specification                                                           *)
(***************************************************************************)
Step(r) ==
  \/ BackupFails(r)
  \/ \E written, arrives \in BOOLEAN : AcceptBackup(r, written, arrives)
  \/ ListConflicts(r) \/ NoConflict(r) \/ SubmitBackup(r) \/ PollEnds(r)
  \/ \E a \in Backups : CleanTerminalConflict(r, a) \/ ReportConflict(r, a)

Stop ==
  \/ \E named \in BOOLEAN : StopFinds(named)
  \/ StopFindsNothing \/ StopRequestsDeletion \/ StopSucceeds \/ StopFails

Retention ==
  \/ \E points \in SUBSET Backups : RetentionBegins(points)
  \/ \E b \in Backups : RetentionRequestsDeletion(b) \/ RetentionDeletes(b)
  \/ RetentionFails

Velero(b) ==
  \/ VeleroStarts(b) \/ UploadEnds(b) \/ VeleroDeletes(b)
  \/ \E phase \in Ended : VeleroEnds(b, phase)

Next ==
  \/ \E b \in Backups : \/ Dispatch(b) \/ Acknowledge(b) \/ RejectBackup(b)
                        \/ AcquireBackupPlan(b) \/ AnnounceBackup(b) \/ ForceStop(b)
                        \/ Velero(b)
  \/ \E r \in Routines : Step(r)
  \/ Stop \/ Retention \/ Restart \/ Reconnect

Spec == Init /\ [][Next]_vars

\* The observation of the cluster is a ticker of its own.
FairSpec == Spec /\ \A b \in Backups : WF_vars(AnnounceBackup(b))

(***************************************************************************)
(* Properties                                                              *)
(***************************************************************************)
\* Two Backups of a plan are active together only when one of them was stopped
\* before it was submitted or has a goroutine that outlived its connection: the
\* lock of a client and the list of active Backups exclude every other case,
\* restarts included.
Disturbed(b) == b = stop.target \/ "reconnect" \in scenario

OneBackupRuns ==
  \A a, b \in Backups :
    cr[a] \in Active /\ cr[b] \in Active /\ a # b => Disturbed(a) \/ Disturbed(b)

\* Looking for conflicts, the agent removes an active Backup only when the
\* platform has settled its task.
OnlySettledIsRemoved ==
  [][\A b \in Backups : cr[b] \in Active /\ cr'[b] = "absent" =>
       sent[b] = "ended" \/ b \in dying]_vars

\* A client that runs no backup of the plan does not keep it locked.
LockIsHeldByARun ==
  \A c \in Clients : lock[c] # NoTask => pc[<<lock[c], "run", c>>] # "none"

\* A retention cleanup that is reported as completed has removed every Backup
\* it names for good, unless a command that was delivered again applied one of
\* them anew.
RetiredIsGone ==
  retire.pc = "done" =>
    \A b \in retire.points : cr[b] = "absent" \/ Cardinality(got[b]) > 1

\* A Backup that completed is announced, whatever restarts happen in between,
\* as long as it is there.
CompletedIsAnnounced ==
  \A b \in Backups :
    cr[b] = "Completed" ~> "Completed" \in announced[b] \/ cr[b] # "Completed"

\* Backups of a plan exclude each other and leave no lock behind.
BackupSafety == TypeOK /\ OneBackupRuns /\ LockIsHeldByARun
=============================================================================
