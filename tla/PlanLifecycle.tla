--------------------------- MODULE PlanLifecycle ---------------------------
(***************************************************************************)
(* The life of one protection plan: it is saved, its storage is configured *)
(* on the source and the target cluster by storage-sync tasks, it becomes  *)
(* active and its schedule fires backups, and a cleanup removes it.        *)
(*                                                                         *)
(* The plan's status is one column that seven parts of the platform write, *)
(* most of them without looking at what it holds by then: two connections  *)
(* of agents, the requests of the console, the worker that activates a     *)
(* saved plan, the two rechecks of a cleanup and the scheduler.  Each is a *)
(* thread that runs one handler at a time, and every transaction of a      *)
(* handler that writes is a step of its own.  Reads that follow each other *)
(* with no write between them are one step.                                *)
(***************************************************************************)
EXTENDS Integers, Sequences, FiniteSets

CONSTANTS
  MaxAttempts, \* storageSyncMaxAttempts
  Shapes       \* the plans and the histories to look at

\* A plan has a target cluster or not and is scheduled or not; its history is bounded in
\* storage-sync tasks, activation requests, cleanup runs, cleanups of its drills, syncs
\* for other purposes, and updates and tests of its repository.
ASSUME ShapesAssumption ==
  /\ MaxAttempts \in Nat \ {0}
  /\ Shapes \subseteq [target : BOOLEAN, scheduled : BOOLEAN, syncs : Nat, requests : Nat,
                       runs : Nat, drills : Nat, others : Nat, touches : Nat]

Roles   == {"source", "target"}
Threads == {"source", "target", "console", "worker", "recheckSource",
            "recheckTarget", "scheduler"}

VARIABLES
  shape,     \* the plan as it is saved, and the bounds of its history
  status,    \* protection_plans.status; "gone" before and after the plan's life
  schedule,  \* protection_plan_schedules.enabled
  repo,      \* the repository: its name, and how often updated_at was set
  binding,   \* cluster_storage_bindings of the source and the target cluster
  syncs,     \* storage-sync tasks in the order of created_at
  run,       \* cleanup runs started so far
  cleanups,  \* protection-cleanup tasks in the order of created_at
  backup,    \* the backup tasks of the plan
  attempts,  \* activation attempts started so far
  thread     \* what each thread is doing

vars == <<shape, status, schedule, repo, binding, syncs, run, cleanups, backup, attempts, thread>>

Idle == [at |-> "idle", task |-> 0, role |-> "source", attempt |-> 0, retry |-> 1,
         again |-> FALSE, own |-> FALSE, value |-> "none", listing |-> FALSE]

Labels == {"idle", "decide", "upsert", "create", "bind", "unbind", "giveup", "finish",
           "continue", "enable", "write", "list", "mark", "clean", "check", "remove", "arm",
           "disarm", "fire"}

Cleaning   == {"cleanup_running", "cleanup_failed"}
\* protectionPlanAllowsBackup
Operating  == {"active", "active_with_warning"}
Failed     == {"storage_failed", "schedule_failed"}
Statuses   == {"gone", "activating_storage"} \cup Operating \cup Failed \cup Cleaning

SyncTasks == [attempt : Nat, role : Roles, retry : Nat, again : BOOLEAN,
              st : {"active", "succeeded", "failed"}, heard : BOOLEAN]
CleanupTasks == [run : Nat, mode : Roles \cup {"drill"}, st : {"active", "succeeded", "failed"}]

TypeOK ==
  /\ shape \in Shapes /\ status \in Statuses /\ schedule \in BOOLEAN
  /\ repo \in [name : 0..shape.touches, touched : 0..shape.touches]
  /\ binding \in [Roles -> [st : {"none", "configuring", "ready", "failed"},
                            name : 0..shape.touches, success : {-1} \cup 0..shape.touches]]
  /\ syncs \in Seq(SyncTasks) /\ Len(syncs) <= shape.syncs
  /\ cleanups \in Seq(CleanupTasks) /\ run \in 0..shape.runs
  /\ backup \in {"none", "active", "ended"} /\ attempts \in 0..shape.requests
  /\ thread \in [Threads -> [at : Labels, task : 0..(shape.syncs + shape.runs), role : Roles,
                             attempt : 0..shape.requests, retry : 1..(MaxAttempts + 1),
                             again : BOOLEAN, own : BOOLEAN, listing : BOOLEAN,
                             value : {"none"} \cup Statuses]]

Init ==
  /\ shape \in Shapes /\ status = "gone" /\ schedule = FALSE
  /\ repo = [name |-> 0, touched |-> 0]
  /\ binding = [r \in Roles |-> [st |-> "none", name |-> 0, success |-> -1]]
  /\ syncs = <<>> /\ run = 0 /\ cleanups = <<>> /\ backup = "none" /\ attempts = 0
  /\ thread = [th \in Threads |-> Idle]

Exists    == status # "gone"
AtWork(th, label) == thread[th].at = label
Goto(th, label)   == thread' = [thread EXCEPT ![th].at = label]

\* The handler returns; the plan list goes on with the next task of the attempt.
Return(th) ==
  thread' = [thread EXCEPT ![th] = IF @.listing THEN [@ EXCEPT !.at = "list"] ELSE Idle]

\* UpdateProtectionPlanStatus looks at no earlier status.
Write(th, value) == thread' = [thread EXCEPT ![th].at = "write", ![th].value = value]

SyncActive    == \E i \in DOMAIN syncs : syncs[i].attempt > 0 /\ syncs[i].st = "active"
CleanupActive == \E c \in DOMAIN cleanups : cleanups[c].st = "active"
PlanBusy      == SyncActive \/ CleanupActive \/ backup = "active"
CreateTaskAllowed_Bug == Exists


\* CreateTask locks the plan's row: no plan, or one under cleanup, takes no task.
CreateTaskAllowed == Exists /\ status \notin Cleaning

HasRole(r) == r = "source" \/ shape.target

(***************************************************************************)
(* The storage repository and the bindings                                 *)
(***************************************************************************)
\* Every write to the repository sets updated_at, the status of a test as well.
Touch(name) ==
  /\ repo.touched < shape.touches
  /\ repo' = [name |-> name, touched |-> repo.touched + 1]
  /\ UNCHANGED <<shape, status, schedule, binding, syncs, run, cleanups, backup, attempts, thread>>

\* An update may rename the repository and with it the BackupStorageLocation; the test
\* that follows it is part of the step.
UpdateRepository == \E renamed \in BOOLEAN : Touch(IF renamed THEN repo.touched + 1 ELSE repo.name)
TestRepository   == Touch(repo.name)

BindingReady_Bug(r) == binding[r].st # "failed" /\ binding[r].name = repo.name


\* A sync that succeeded after the repository last changed, under its name of now.
BindingReady(r) ==
  /\ binding[r].st = "ready"
  /\ binding[r].name = repo.name /\ binding[r].success = repo.touched

BindingAction(r) ==
  CASE binding[r].st = "none" \/ binding[r].name # repo.name -> "dispatch"
    [] BindingReady(r) -> "skip"
    [] binding[r].st = "configuring" /\ binding[r].name = repo.name -> "wait"
    [] OTHER -> "dispatch"

Configure(r) ==
  binding' = [binding EXCEPT ![r].st = "configuring", ![r].name = repo.name]

NewSync(attempt, r, retry, again) ==
  syncs' = Append(syncs, [attempt |-> attempt, role |-> r, retry |-> retry, again |-> again,
                          st |-> "active", heard |-> FALSE])

\* syncStorageRepository, and ensureStorageSynced before a backup or a recovery: a
\* task of no plan that configures the same binding.
SyncRepository(r) ==
  /\ Len(syncs) < shape.syncs /\ HasRole(r)
  /\ Cardinality({i \in DOMAIN syncs : syncs[i].attempt = 0}) < shape.others
  /\ Configure(r)
  /\ NewSync(0, r, 1, FALSE)
  /\ UNCHANGED <<shape, status, schedule, repo, run, cleanups, backup, attempts, thread>>

(***************************************************************************)
(* Requests of the console                                                 *)
(***************************************************************************)
\* A new attempt: its tasks share one activationAttempt.
Dispatching(again) ==
  [Idle EXCEPT !.at = "decide", !.attempt = attempts + 1, !.again = again]

\* A saved plan has its schedule paused; the answer goes out and a worker activates it.
Save ==
  /\ attempts < shape.requests /\ AtWork("worker", "idle")
  /\ status' = "activating_storage" /\ schedule' = FALSE
  /\ attempts' = attempts + 1
  /\ thread' = [thread EXCEPT !["worker"] = Dispatching(FALSE)]
  /\ UNCHANGED <<shape, repo, binding, syncs, run, cleanups, backup>>

CreatePlan == ~Exists /\ attempts = 0 /\ Save

\* saveProtectionPlan refuses to change a plan that is busy.
UpdatePlan ==
  Exists /\ ~PlanBusy /\ status \notin {"cleanup_running", "activating_storage"} /\ Save

Request(again) ==
  /\ attempts < shape.requests /\ AtWork("console", "idle") /\ Exists
  /\ attempts' = attempts + 1
  /\ thread' = [thread EXCEPT !["console"] = [Dispatching(again) EXCEPT !.at = "mark"]]
  /\ UNCHANGED <<shape, status, schedule, repo, binding, syncs, run, cleanups, backup>>

\* activateProtectionPlan reads the status, and refuses a plan that is activating;
\* reconfigureProtectionPlanStorage refuses none.
ActivatePlan       == status # "activating_storage" /\ Request(FALSE)
ReconfigureStorage == Request(TRUE)

MarkActivating ==
  /\ AtWork("console", "mark")
  /\ status' = IF Exists THEN "activating_storage" ELSE status
  /\ Goto("console", "decide")
  /\ UNCHANGED <<shape, schedule, repo, binding, syncs, run, cleanups, backup, attempts>>

\* BeginProtectionPlanCleanup, one transaction under the plan's row lock.
BeginCleanup ==
  /\ AtWork("console", "idle") /\ Exists /\ run < shape.runs
  /\ status # "cleanup_running" /\ ~PlanBusy
  /\ status' = "cleanup_running" /\ schedule' = FALSE
  /\ run' = run + 1
  /\ thread' = [thread EXCEPT !["console"] = [Idle EXCEPT !.at = "clean"]]
  /\ UNCHANGED <<shape, repo, binding, syncs, cleanups, backup, attempts>>

NewCleanup(k, mode) ==
  cleanups' = Append(cleanups, [run |-> k, mode |-> mode, st |-> "active"])

\* createProtectionCleanupTask: a task for the source cluster and one for a target
\* cluster that differs; an error leaves what was created.
CreateCleanup ==
  /\ AtWork("console", "clean")
  /\ LET r == thread["console"].role
     IN \/ /\ Exists
           /\ NewCleanup(run, r)
           /\ IF r = "source" /\ shape.target
                THEN thread' = [thread EXCEPT !["console"].role = "target"]
                ELSE Return("console")
        \/ /\ Write("console", "cleanup_failed")
           /\ UNCHANGED cleanups
  /\ UNCHANGED <<shape, status, schedule, repo, binding, syncs, run, backup, attempts>>

\* cleanupDrillTask gives its task the plan of the drill and the type of the plan's
\* own cleanup, which a plan under cleanup accepts too.  The drill itself restored a
\* point of an earlier backup.
CleanupDrill ==
  /\ Exists /\ backup = "ended"
  /\ Cardinality({c \in DOMAIN cleanups : cleanups[c].mode = "drill"}) < shape.drills
  /\ NewCleanup(0, "drill")
  /\ UNCHANGED <<shape, status, schedule, repo, binding, syncs, run, backup, attempts, thread>>

(***************************************************************************)
(* Dispatching the storage-sync tasks of an attempt                        *)
(***************************************************************************)
\* dispatchProtectionPlanStorageTasks goes from the source to the target, and with
\* no task of the source of its own continues the activation at once; the answer to
\* a reconfiguration ends there.
NextRole(th, own) ==
  LET t == thread[th]
  IN thread' = [thread EXCEPT ![th] =
       IF t.role = "source" /\ shape.target
         THEN [t EXCEPT !.at = "decide", !.role = "target", !.own = own]
         ELSE IF own \/ t.again THEN Idle
         ELSE [Idle EXCEPT !.at = "continue"]]

\* storageBindingActivationAction
Decide(th) ==
  /\ AtWork(th, "decide")
  /\ IF thread[th].again \/ BindingAction(thread[th].role) = "dispatch"
       THEN Goto(th, "upsert")
       ELSE NextRole(th, thread[th].own)
  /\ UNCHANGED <<shape, status, schedule, repo, binding, syncs, run, cleanups, backup, attempts>>

\* dispatchStorageSyncTaskForPlanActivationAttempt marks the binding first and then
\* creates the task, which the plan may refuse by then.
UpsertBinding(th) ==
  /\ AtWork(th, "upsert")
  /\ Configure(thread[th].role)
  /\ Goto(th, "create")
  /\ UNCHANGED <<shape, status, schedule, repo, syncs, run, cleanups, backup, attempts>>

CreateSync(th) ==
  LET t == thread[th]
      retrying == t.task # 0
  IN /\ AtWork(th, "create") /\ Len(syncs) < shape.syncs
     /\ IF CreateTaskAllowed
          THEN /\ NewSync(t.attempt, t.role, t.retry, t.again)
               /\ IF retrying THEN Return(th) ELSE NextRole(th, t.own \/ t.role = "source")
          ELSE /\ UNCHANGED syncs
               /\ IF retrying THEN Goto(th, "giveup") ELSE Write(th, "storage_failed")
     /\ UNCHANGED <<shape, status, schedule, repo, binding, run, cleanups, backup, attempts>>

(***************************************************************************)
(* Reports of the agents about storage-sync tasks                          *)
(***************************************************************************)
\* The thread's view of the task: what its payload says.
Handling(i, label, listing) ==
  [Idle EXCEPT !.at = label, !.task = i, !.role = syncs[i].role, !.listing = listing,
               !.attempt = syncs[i].attempt, !.retry = syncs[i].retry, !.again = syncs[i].again]

\* UpdateTaskStatus keeps the first terminal status, and the handler goes on in
\* either case.  The tasks of a removed plan are gone, and their reports are refused.
ReportSync(i, result) ==
  LET th == syncs[i].role
  IN /\ AtWork(th, "idle") /\ ~syncs[i].heard
     /\ syncs[i].attempt > 0 => Exists
     /\ syncs' = [syncs EXCEPT ![i].heard = TRUE,
                               ![i].st = IF @ = "active" THEN result ELSE @]
     /\ thread' = [thread EXCEPT ![th] =
          Handling(i, IF result = "succeeded" THEN "bind" ELSE "unbind", FALSE)]
     /\ UNCHANGED <<shape, status, schedule, repo, binding, run, cleanups, backup, attempts>>
MarkBindingReady_Bug(th) ==
  LET t == thread[th]
  IN /\ AtWork(th, "bind")
     /\ binding' = [binding EXCEPT ![t.role].st = "ready", ![t.role].success = repo.touched + 1]
     /\ IF t.attempt = 0 THEN Return(th)
        ELSE Goto(th, IF t.again THEN "finish" ELSE "continue")
     /\ UNCHANGED <<shape, status, schedule, repo, syncs, run, cleanups, backup, attempts>>


\* markClusterStorageBindingReady records the time of the completion, whatever the
\* repository was when the task was created.
MarkBindingReady(th) ==
  LET t == thread[th]
  IN /\ AtWork(th, "bind")
     /\ binding' = [binding EXCEPT ![t.role].st = "ready", ![t.role].success = repo.touched]
     /\ IF t.attempt = 0 THEN Return(th)
        ELSE Goto(th, IF t.again THEN "finish" ELSE "continue")
     /\ UNCHANGED <<shape, status, schedule, repo, syncs, run, cleanups, backup, attempts>>
Retried_Bug(t) ==
  IF t.retry <= MaxAttempts THEN [t EXCEPT !.at = "upsert", !.retry = @ + 1]
                            ELSE [t EXCEPT !.at = "giveup"]

Retried(t) ==
  IF t.retry < MaxAttempts THEN [t EXCEPT !.at = "upsert", !.retry = @ + 1]
                           ELSE [t EXCEPT !.at = "giveup"]

\* A failed task of the plan is tried again (retryStorageSyncTask).
MarkBindingFailed(th) ==
  LET t == thread[th]
  IN /\ AtWork(th, "unbind")
     /\ binding' = [binding EXCEPT ![t.role].st = "failed"]
     /\ IF t.attempt = 0 THEN Return(th)
        ELSE thread' = [thread EXCEPT ![th] = Retried(t)]
     /\ UNCHANGED <<shape, status, schedule, repo, syncs, run, cleanups, backup, attempts>>

\* finishTargetStorageSyncFailed: a target that cannot be configured adds a warning to
\* a plan that is active.
TargetSyncFailed(th) ==
  IF status \in Operating THEN Write(th, "active_with_warning") ELSE Return(th)

GiveUp(th) ==
  /\ AtWork(th, "giveup")
  /\ IF thread[th].role = "target" THEN TargetSyncFailed(th) ELSE Write(th, "storage_failed")
  /\ UNCHANGED <<shape, status, schedule, repo, binding, syncs, run, cleanups, backup, attempts>>

(***************************************************************************)
(* Completing an activation                                                *)
(***************************************************************************)
SourceSyncs(attempt) ==
  {i \in DOMAIN syncs : syncs[i].attempt = attempt /\ syncs[i].role = "source"}

\* protectionPlanActivationStorageReady: the attempt's latest task of the source.
SourceResult(attempt) ==
  IF SourceSyncs(attempt) = {} THEN "active"
  ELSE syncs[CHOOSE i \in SourceSyncs(attempt) :
               \A j \in SourceSyncs(attempt) : j <= i].st

\* finishProtectionPlanStorageReconfigure
FinishReconfigure(th) ==
  /\ AtWork(th, "finish")
  /\ CASE SourceResult(thread[th].attempt) = "failed" -> Write(th, "storage_failed")
       [] SourceResult(thread[th].attempt) = "active" -> Return(th)
       [] OTHER -> Goto(th, "continue")
  /\ UNCHANGED <<shape, status, schedule, repo, binding, syncs, run, cleanups, backup, attempts>>

\* protectionPlanStorageBindingsReady: a target that is not ready holds nothing back.
StorageBindingsReady == BindingReady("source")

\* continueProtectionPlanActivationAfterStorage up to its first write.
ContinueActivation(th) ==
  LET t == thread[th]
      own == t.attempt # 0
  IN /\ AtWork(th, "continue")
     /\ IF \/ t.role = "target" \/ status # "activating_storage" \/ ~StorageBindingsReady
           \/ own /\ SourceResult(t.attempt) = "active"
          THEN Return(th)
        ELSE IF own /\ SourceResult(t.attempt) = "failed" THEN Write(th, "storage_failed")
        ELSE IF shape.scheduled THEN Goto(th, "enable")
        ELSE Write(th, "active")
     /\ UNCHANGED <<shape, status, schedule, repo, binding, syncs, run, cleanups, backup, attempts>>

\* UpsertProtectionPlanSchedule inserts or updates the row of a plan that is there.
ScheduleEnabled == schedule \/ Exists

\* ... and its error fails the activation.
EnableSchedule(th) ==
  /\ AtWork(th, "enable")
  /\ schedule' = ScheduleEnabled
  /\ Write(th, IF Exists THEN "active" ELSE "schedule_failed")
  /\ UNCHANGED <<shape, status, repo, binding, syncs, run, cleanups, backup, attempts>>

\* UpdateProtectionPlanStatus: no row, no effect.
WriteStatus(th) ==
  /\ AtWork(th, "write")
  /\ status' = IF Exists THEN thread[th].value ELSE status
  /\ Return(th)
  /\ UNCHANGED <<shape, schedule, repo, binding, syncs, run, cleanups, backup, attempts>>

(***************************************************************************)
(* The plan list repairs activations: reconcileProtectionPlanActivationStates *)
(***************************************************************************)
LatestSyncs == {i \in DOMAIN syncs : syncs[i].attempt > 0}
LatestSync  == CHOOSE i \in LatestSyncs : \A j \in LatestSyncs : j <= i

ListPlans ==
  /\ AtWork("console", "idle")
  /\ status = "activating_storage" /\ LatestSyncs # {}
  /\ thread' = [thread EXCEPT !["console"] = [Idle EXCEPT !.at = "list", !.listing = TRUE]]
  /\ UNCHANGED <<shape, status, schedule, repo, binding, syncs, run, cleanups, backup, attempts>>
TimeoutSync_Bug(i) ==
  /\ AtWork("console", "list") /\ Exists
  /\ syncs[i].attempt = syncs[LatestSync].attempt /\ syncs[i].st = "active"
  /\ syncs' = [syncs EXCEPT ![i].st = "failed"]
  /\ UNCHANGED <<shape, status, schedule, repo, binding, run, cleanups, backup, attempts, thread>>


\* An open task of the latest attempt that is older than 90 seconds fails.
TimeoutSync(i) ==
  /\ AtWork("console", "list") /\ Exists
  /\ syncs[i].attempt = syncs[LatestSync].attempt /\ syncs[i].st = "active"
  /\ syncs' = [syncs EXCEPT ![i].st = "failed"]
  /\ thread' = [thread EXCEPT !["console"] = Handling(i, "unbind", TRUE)]
  /\ UNCHANGED <<shape, status, schedule, repo, binding, run, cleanups, backup, attempts>>

\* ... and then the latest task continues the activation.
ListLatest ==
  /\ AtWork("console", "list")
  /\ thread' = [thread EXCEPT !["console"] =
       Handling(LatestSync, IF syncs[LatestSync].again THEN "finish" ELSE "continue", FALSE)]
  /\ UNCHANGED <<shape, status, schedule, repo, binding, syncs, run, cleanups, backup, attempts>>

(***************************************************************************)
(* Reports of the agents about cleanup tasks                               *)
(***************************************************************************)
Cluster(mode) == IF mode = "source" THEN "source" ELSE "target"
Recheck(th)   == IF th = "source" THEN "recheckSource" ELSE "recheckTarget"

OfRun(k, mode) == {c \in DOMAIN cleanups : cleanups[c].run = k /\ cleanups[c].mode = mode}
RunComplete_Bug(k) ==
  /\ \E c \in DOMAIN cleanups : cleanups[c].run = k /\ cleanups[c].st = "succeeded"
  /\ OfRun(k, "source") # {}
  /\ shape.target => OfRun(k, "target") # {}


\* protectionCleanupTasksComplete for the tasks of one run
RunComplete(k) ==
  /\ \A c \in DOMAIN cleanups : cleanups[c].run = k => cleanups[c].st = "succeeded"
  /\ OfRun(k, "source") # {}
  /\ shape.target => OfRun(k, "target") # {}

\* ... and for the latest task of either cluster, where every task that is not for the
\* target counts for the source.
LatestSucceeded(ofTarget) ==
  \E c \in DOMAIN cleanups :
    /\ (cleanups[c].mode = "target") = ofTarget /\ cleanups[c].st = "succeeded"
    /\ \A d \in DOMAIN cleanups : d > c => (cleanups[d].mode = "target") # ofTarget

LatestComplete == LatestSucceeded(FALSE) /\ (shape.target => LatestSucceeded(TRUE))

\* markProtectionCleanupFailed does not tell the cleanup of a drill from the plan's own.
CleanupFailed == [Idle EXCEPT !.at = "write", !.value = "cleanup_failed"]

\* A completed task asks whether its run is complete.
ReportCleanup(c, result) ==
  LET th == Cluster(cleanups[c].mode)
  IN /\ Exists /\ AtWork(th, "idle") /\ cleanups[c].st = "active"
     /\ cleanups' = [cleanups EXCEPT ![c].st = result]
     /\ thread' = [thread EXCEPT ![th] =
          CASE result = "failed" -> CleanupFailed
            [] result = "succeeded" /\ cleanups[c].mode = "drill" -> Idle
            [] OTHER -> [Idle EXCEPT !.at = "check", !.task = cleanups[c].run]]
     /\ UNCHANGED <<shape, status, schedule, repo, binding, syncs, run, backup, attempts>>

\* finishProtectionCleanupTask: an incomplete run is looked at once more, by a worker
\* of its own half a second later.
FinishCleanup(th) ==
  LET t == thread[th]
  IN /\ AtWork(th, "check")
     /\ IF Exists /\ RunComplete(t.task)
          THEN Goto(th, "remove")
          ELSE thread' = [thread EXCEPT ![th] = Idle,
                            ![Recheck(th)] = IF th \in Roles /\ Exists THEN t ELSE @]
     /\ UNCHANGED <<shape, status, schedule, repo, binding, syncs, run, cleanups, backup, attempts>>

\* CleanupProtectionPlanRecords deletes the plan, its schedule, tasks and points; an
\* error of the database makes the cleanup a failed one.
RemovePlan(th) ==
  /\ AtWork(th, "remove")
  /\ \/ /\ status' = "gone" /\ schedule' = FALSE /\ backup' = "none"
        /\ Return(th)
     \/ /\ Exists /\ Write(th, "cleanup_failed")
        /\ UNCHANGED <<status, schedule, backup>>
  /\ UNCHANGED <<shape, repo, binding, syncs, run, cleanups, attempts>>

(***************************************************************************)
(* The scheduler, one tick at a time over all processes                    *)
(***************************************************************************)
\* reconcileAbandonedMaintenanceTasks fails a task that was silent for 35 minutes and
\* leaves the plan as it is.
ExpireCleanup(c) ==
  /\ AtWork("scheduler", "idle") /\ Exists /\ cleanups[c].st = "active"
  /\ cleanups' = [cleanups EXCEPT ![c].st = "failed"]
  /\ UNCHANGED <<shape, status, schedule, repo, binding, syncs, run, backup, attempts, thread>>
ReconcileCleanup_Bug ==
  /\ AtWork("scheduler", "idle") /\ status = "cleanup_running" /\ LatestComplete
  /\ Goto("scheduler", "remove")
  /\ UNCHANGED <<shape, status, schedule, repo, binding, syncs, run, cleanups, backup, attempts>>


\* reconcileProtectionCleanupPlans removes a plan whose latest tasks have succeeded, and
\* fails a cleanup that made no progress for ten minutes.
ReconcileCleanup ==
  /\ AtWork("scheduler", "idle") /\ status = "cleanup_running"
  /\ IF LatestComplete THEN Goto("scheduler", "remove") ELSE Write("scheduler", "cleanup_failed")
  /\ UNCHANGED <<shape, status, schedule, repo, binding, syncs, run, cleanups, backup, attempts>>

\* reconcilePlatformSchedules enables the schedule of an active plan.
ReconcileSchedule ==
  /\ AtWork("scheduler", "idle") /\ status \in Operating /\ shape.scheduled /\ ~schedule
  /\ Goto("scheduler", "arm")
  /\ UNCHANGED <<shape, status, schedule, repo, binding, syncs, run, cleanups, backup, attempts>>

\* fireProtectionPlanSchedule reads the plan of a due schedule ...
DueSchedule ==
  /\ AtWork("scheduler", "idle") /\ schedule
  /\ Goto("scheduler", IF status \in Operating THEN "fire" ELSE "disarm")
  /\ UNCHANGED <<shape, status, schedule, repo, binding, syncs, run, cleanups, backup, attempts>>

UpdateSchedule ==
  /\ \/ AtWork("scheduler", "arm") /\ schedule' = ScheduleEnabled
     \/ AtWork("scheduler", "disarm") /\ schedule' = FALSE
  /\ Return("scheduler")
  /\ UNCHANGED <<shape, status, repo, binding, syncs, run, cleanups, backup, attempts>>

\* ... and creates a backup task, unless one is running or the plan takes none by now.
FireSchedule ==
  /\ AtWork("scheduler", "fire")
  /\ backup' = IF CreateTaskAllowed /\ backup = "none" THEN "active" ELSE backup
  /\ Return("scheduler")
  /\ UNCHANGED <<shape, status, schedule, repo, binding, syncs, run, cleanups, attempts>>

BackupEnds ==
  /\ backup = "active" /\ backup' = "ended"
  /\ UNCHANGED <<shape, status, schedule, repo, binding, syncs, run, cleanups, attempts, thread>>

(***************************************************************************)
(* The specification                                                       *)
(***************************************************************************)
Requests ==
  \/ CreatePlan \/ UpdatePlan \/ ActivatePlan \/ ReconfigureStorage
  \/ BeginCleanup \/ CleanupDrill \/ UpdateRepository \/ TestRepository
  \/ \E r \in Roles : SyncRepository(r)

Reports ==
  \/ \E i \in DOMAIN syncs, result \in {"succeeded", "failed"} : ReportSync(i, result)
  \/ \E c \in DOMAIN cleanups, result \in {"succeeded", "failed"} : ReportCleanup(c, result)
  \/ BackupEnds

\* The next step of a handler that has begun.
Proceed(th) ==
  \/ Decide(th) \/ UpsertBinding(th) \/ CreateSync(th)
  \/ MarkBindingReady(th) \/ MarkBindingFailed(th) \/ GiveUp(th)
  \/ FinishReconfigure(th) \/ ContinueActivation(th) \/ EnableSchedule(th) \/ WriteStatus(th)
  \/ FinishCleanup(th) \/ RemovePlan(th)
  \/ th = "console" /\ (MarkActivating \/ CreateCleanup \/ ListLatest)
  \/ th = "scheduler" /\ (UpdateSchedule \/ FireSchedule)

Scheduler ==
  \/ ReconcileCleanup \/ ReconcileSchedule \/ DueSchedule
  \/ \E c \in DOMAIN cleanups : ExpireCleanup(c)

Next ==
  \/ Requests \/ Reports \/ Scheduler \/ ListPlans
  \/ \E i \in DOMAIN syncs : TimeoutSync(i)
  \/ \E th \in Threads : Proceed(th)

\* A handler that has begun goes on; the scheduler ticks every 15 seconds; the console
\* asks for the list of plans every five seconds while one is being activated, and a task
\* that stays open becomes older than its timeout.  Agents need not report anything.
Fairness ==
  /\ \A th \in Threads : WF_vars(Proceed(th))
  /\ WF_vars(ReconcileCleanup)
  /\ SF_vars(ListPlans)
  /\ SF_vars(\E i \in DOMAIN syncs : TimeoutSync(i))

Spec == Init /\ [][Next]_vars /\ Fairness

(***************************************************************************)
(* Properties                                                              *)
(***************************************************************************)
\* A cleanup has the plan to itself while the status says so: the tasks that ran when
\* BeginProtectionPlanCleanup looked are over, and CreateTask lets no other in, whichever
\* handler of an earlier request is still on its way.
CleanupIsExclusive == status = "cleanup_running" => ~SyncActive /\ backup # "active"

\* A plan is removed only when each of its clusters has completed a cleanup, with the
\* two rechecks and the scheduler all deciding on their own that it is time.  Plans with
\* a drill that was cleaned up are left out: its task counts as one of the source.
RemovedIsCleaned ==
  /\ status = "gone" /\ attempts > 0
  /\ \A c \in DOMAIN cleanups : cleanups[c].mode # "drill"
  => \A r \in Roles : HasRole(r) =>
       \E c \in DOMAIN cleanups : cleanups[c].mode = r /\ cleanups[c].st = "succeeded"

\* An active plan has storage on its source cluster that some sync has confirmed.
ActiveHasStorage == status \in Operating => binding["source"].success >= 0

\* No task of an attempt is tried more often than storageSyncMaxAttempts, with retries
\* started by the agent's report and by the list of plans.
RetriesAreBounded == \A i \in DOMAIN syncs : syncs[i].retry <= MaxAttempts

\* "A cleanup that has made no terminal progress for ten minutes must not remain an
\* unexplained spinner forever."
CleanupEnds == (status = "cleanup_running") ~> (status # "cleanup_running")

\* An activation ends even if no agent ever answers, as long as nobody touches the
\* repository, syncs it for another purpose or starts a cleanup.
Undisturbed ==
  /\ repo.touched = 0 /\ run = 0 /\ Len(syncs) < shape.syncs
  /\ \A i \in DOMAIN syncs : syncs[i].attempt > 0
ActivationEnds ==
  (status = "activating_storage") ~> (status # "activating_storage" \/ ~Undisturbed)

\* A plan is cleaned alone, active only with storage, and retried within bounds.
PlanSafety == TypeOK /\ CleanupIsExclusive /\ ActiveHasStorage /\ RetriesAreBounded

\* Cleanups and undisturbed activations end.
PlanWorkEnds == CleanupEnds /\ ActivationEnds
=============================================================================
