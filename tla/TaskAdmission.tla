----------------------------- MODULE TaskAdmission -----------------------------
(***************************************************************************)
(* How tasks of a protection plan are admitted.  Requests of the console   *)
(* for a sync, a drill, a restore, a retry or the deletion of a point, and *)
(* the ticks of the schedulers of two platform processes, each read the    *)
(* state first and then call CreateTask, a transaction of its own under    *)
(* the lock of the plan's row that looks again at part of it.              *)
(***************************************************************************)
EXTENDS Integers, Sequences

CONSTANTS
  Requesters,  \* the console's requests
  Points,      \* the restore points of the plan
  Instances,   \* platform processes on one database
  Admissions,  \* the histories to look at
  MaxRows      \* bounds the tasks that are created

Kinds      == {"none", "sync", "appSync", "drill", "restore", "retry", "delete"}
Recoveries == {"drill", "restore"}
Apps       == {"a", "b"}          \* the applications of the plan; "a" is its first
Rows       == 1..MaxRows

\* An admission gives the requests and bounds the schedule's times, the failures, and the
\* changes of the plan.
ASSUME AdmissionAssumption ==
  Admissions \subseteq [want : [Requesters -> Kinds], slots : Nat, faults : Nat, changes : Nat]
ASSUME InstancesAssumption == 0 \notin Instances

VARIABLES
  admission,   \* what is left of the bounds
  plan,        \* protection_plans.status
  point,       \* restore_points.status
  row,         \* tasks, in the order of creation
  latest,      \* latest_sync_task_id and latest_recovery_task_id
  request,     \* the handlers in progress
  schedule,    \* protection_plan_schedules: enabled, due, and the number of its time
  firing,      \* how far the tick of each process is
  holder,      \* the process that holds the scheduler's advisory lock
  unmarked     \* times of the schedule whose mark was lost (not in the code)

admVars == <<admission, plan, point, row, latest, request, schedule, firing, holder, unmarked>>

Idle  == [at |-> "idle", type |-> "none", app |-> "a", point |-> "none"]

AdmissionTypeOK ==
  /\ plan \in {"active", "inactive", "cleanup_running", "removed"}
  /\ point \in [Points -> {"available", "pending_delete", "deleting", "deleted"}]
  /\ row \in Seq([type : {"backup", "drill", "restore", "retention-cleanup"}, app : Apps,
                   point : Points \cup {"none"}, slot : Nat, status : {"active", "succeeded", "failed"}])
  /\ latest \in [sync : Nat, recovery : Nat]
  /\ \A r \in Requesters : request[r].at \in {"idle", "ready", "claim", "create", "done"}
  /\ schedule \in [enabled : BOOLEAN, due : BOOLEAN, slot : Nat]
  /\ firing \in [Instances -> {"idle", "read", "create", "mark"}] /\ holder \in Instances \cup {0} /\ unmarked \subseteq Nat

AdmissionInit ==
  /\ admission \in Admissions
  /\ plan = "active" /\ point = [p \in Points |-> "available"]
  /\ row = <<>> /\ latest = [sync |-> 0, recovery |-> 0]
  /\ request = [r \in Requesters |-> [Idle EXCEPT !.at = IF admission.want[r] = "none" THEN "done" ELSE "ready"]]
  /\ schedule = [enabled |-> TRUE, due |-> FALSE, slot |-> 0]
  /\ firing = [i \in Instances |-> "idle"] /\ holder = 0 /\ unmarked = {}

isActiveTaskStatus(k) == row[k].status = "active"
protectionPlanAllowsBackup == plan = "active"

-----------------------------------------------------------------------------
(* CreateTask *)

NextRow == Len(row) + 1

\* Another backup of the plan that has not ended.  (Reservations of a quota are in the
\* module RestorePoints.)
SyncBusy_Bug(app) == \E k \in DOMAIN row : row[k].type = "backup" /\ isActiveTaskStatus(k) /\ row[k].app = app
SyncBusy(app) == \E k \in DOMAIN row : row[k].type = "backup" /\ isActiveTaskStatus(k)

pointBusy_Bug(p) == FALSE
pointBusy(p) == \E k \in DOMAIN row : row[k].type \in Recoveries /\ isActiveTaskStatus(k) /\ row[k].point = p

\* What makes CreateTask fail, by the type of the task.
Refused(type, app, p) ==
  \/ plan = "removed" \/ plan = "cleanup_running"
  \/ type = "backup" /\ SyncBusy(app)
  \/ type \in Recoveries /\ (point[p] # "available" \/ pointBusy(p))
  \/ type = "retention-cleanup" /\ point[p] # "deleted" /\ pointBusy(p)

\* The pointers of the plan are published with the row.
Publish_Bug(type) ==
  latest' = [latest EXCEPT !.sync = IF type = "backup" THEN NextRow ELSE @,
                           !.recovery = IF type = "drill" THEN NextRow ELSE @]
Publish(type) ==
  latest' = [latest EXCEPT !.sync = IF type = "backup" THEN NextRow ELSE @,
                           !.recovery = IF type \in Recoveries THEN NextRow ELSE @]
CreateTask(type, app, p, slot) ==
  /\ Len(row) < MaxRows
  /\ IF Refused(type, app, p) THEN UNCHANGED <<row, latest, point>>
     ELSE /\ row' = Append(row, [type |-> type, app |-> app, point |-> p, slot |-> slot, status |-> "active"])
          /\ Publish(type)
          /\ point' = IF type = "retention-cleanup" /\ point[p] # "deleted"
                       THEN [point EXCEPT ![p] = "deleting"] ELSE point

-----------------------------------------------------------------------------
(* The console: what each handler looks at before CreateTask *)

Decide(r, ok, type, app, p) ==
  request' = [request EXCEPT ![r] = IF ok THEN [at |-> "create", type |-> type, app |-> app, point |-> p]
                                    ELSE [@ EXCEPT !.at = "done"]]
Looks == UNCHANGED <<admission, plan, point, row, latest, schedule, firing, holder, unmarked>>

\* findActiveBackupTask: a running sync is returned instead of a new one.
findActiveBackupTask(app) ==
  \E k \in DOMAIN row : /\ row[k].type = "backup" /\ isActiveTaskStatus(k)
                        /\ app = "any" \/ row[k].app = app

\* createBackupTask for a plan: the first application stands for all.
createBackupTask(r) ==
  /\ request[r].at = "ready" /\ admission.want[r] = "sync" /\ Looks
  /\ Decide(r, protectionPlanAllowsBackup /\ ~findActiveBackupTask("any"), "backup", "a", "none")

\* createBackupTask for one application, whose plan is looked for.
findActiveProtectionPlanForBackupTarget == protectionPlanAllowsBackup
createAppBackupTask(r, app) ==
  /\ request[r].at = "ready" /\ admission.want[r] = "appSync" /\ Looks
  /\ Decide(r, findActiveProtectionPlanForBackupTarget /\ ~findActiveBackupTask(app), "backup", app, "none")

\* NodePorts a drill asks for, by Service: in range, each once, none of another namespace.
validateServiceNodePortMappings(ports, used) ==
  /\ \A s \in DOMAIN ports : ports[s] \in 30000..32767 /\ ports[s] \notin used
  /\ \A s, t \in DOMAIN ports : ports[s] = ports[t] => s = t
MayMap == {[web |-> 30000, api |-> 30001], [web |-> 30000, api |-> 30000], [web |-> 29999, api |-> 30001]}
UsedPorts == {30002}

findActiveRecoveryTask(type) == \E k \in DOMAIN row : row[k].type = type /\ isActiveTaskStatus(k)

\* createRecoveryTask: the plan exists, the point is available, clusters and storage
\* classes fit; only a drill looks for ports and for a drill of the same application.
createRecoveryTask(r, type, p) ==
  /\ request[r].at = "ready" /\ admission.want[r] = type /\ type \in Recoveries /\ Looks
  /\ \E ports \in MayMap :
       Decide(r, /\ plan # "removed" /\ point[p] = "available"
                 /\ type = "drill" => /\ validateServiceNodePortMappings(ports, UsedPorts)
                                      /\ ~findActiveRecoveryTask("drill"),
              type, "a", p)

\* retryRecoveryTask repeats an ended recovery with the same point.
retryRecoveryTask(r, k) ==
  /\ request[r].at = "ready" /\ admission.want[r] = "retry" /\ k \in DOMAIN row /\ row[k].type \in Recoveries /\ Looks
  /\ Decide(r, ~isActiveTaskStatus(k), row[k].type, row[k].app, row[k].point)

\* A deletion claims its point first; the claim stays when the task is refused.
deleteRestorePoints(r, p) ==
  /\ request[r].at = "ready" /\ admission.want[r] = "delete" /\ point[p] = "available" /\ Looks
  /\ request' = [request EXCEPT ![r] = [at |-> "claim", type |-> "retention-cleanup", app |-> "a", point |-> p]]
ClaimRestorePointDeletion(r) ==
  /\ request[r].at = "claim"
  /\ LET p == request[r].point
         ok == ~pointBusy(p) /\ point[p] = "available"
     IN  /\ point' = IF ok THEN [point EXCEPT ![p] = "pending_delete"] ELSE point
         /\ request' = [request EXCEPT ![r].at = IF ok THEN "create" ELSE "done"]
  /\ UNCHANGED <<admission, plan, row, latest, schedule, firing, holder, unmarked>>

SubmitTask(r) ==
  /\ request[r].at = "create"
  /\ CreateTask(request[r].type, request[r].app, request[r].point, 0)
  /\ request' = [request EXCEPT ![r].at = "done"]
  /\ UNCHANGED <<admission, plan, schedule, firing, holder, unmarked>>

-----------------------------------------------------------------------------
(* The schedulers *)

RunSchedulerExclusive_Bug(i) == TRUE
RunSchedulerExclusive(i) == holder = 0

\* A tick takes the lock, repairs a schedule that is off while its plan is active, and
\* lists what is due.
BeginTick(i) ==
  /\ firing[i] = "idle" /\ RunSchedulerExclusive(i)
  /\ \/ /\ protectionPlanAllowsBackup /\ ~schedule.enabled
        /\ schedule' = [schedule EXCEPT !.enabled = TRUE, !.due = FALSE]
        /\ UNCHANGED <<firing, holder>>
     \/ /\ schedule.enabled /\ schedule.due /\ UNCHANGED schedule
        /\ firing' = [firing EXCEPT ![i] = "read"] /\ holder' = i
  /\ UNCHANGED <<admission, plan, point, row, latest, request, unmarked>>

Step(i, at) == firing' = [firing EXCEPT ![i] = at]
Leave(i) == Step(i, "idle") /\ holder' = IF holder = i THEN 0 ELSE holder

\* fireProtectionPlanSchedule: a plan that is gone or not active switches its schedule
\* off; a running sync skips this time; otherwise a task is created, and marked.
fireProtectionPlanSchedule(i) ==
  /\ firing[i] = "read"
  /\ \/ /\ ~protectionPlanAllowsBackup
        /\ schedule' = [schedule EXCEPT !.enabled = FALSE] /\ Leave(i)
     \/ /\ protectionPlanAllowsBackup /\ UNCHANGED <<schedule, holder>>
        /\ Step(i, IF findActiveBackupTask("any") THEN "mark" ELSE "create")
  /\ UNCHANGED <<admission, plan, point, row, latest, request, unmarked>>

\* When the task cannot be created the schedule stays due.
createScheduledBackupTask(i) ==
  /\ firing[i] = "create" /\ CreateTask("backup", "a", "none", schedule.slot)
  /\ IF Refused("backup", "a", "none") THEN Leave(i) ELSE Step(i, "mark") /\ UNCHANGED holder
  /\ UNCHANGED <<admission, plan, request, schedule, unmarked>>

MarkProtectionPlanScheduleFired(i) ==
  /\ firing[i] = "mark" /\ Leave(i)
  /\ \/ schedule' = [schedule EXCEPT !.due = FALSE] /\ UNCHANGED <<admission, unmarked>>
     \/ /\ admission.faults > 0 /\ admission' = [admission EXCEPT !.faults = @ - 1]
        /\ unmarked' = unmarked \cup {schedule.slot} /\ UNCHANGED schedule
  /\ UNCHANGED <<plan, point, row, latest, request>>

\* A process stops within a tick; the transaction that holds the lock is rolled back.
StopInstance_Bug(i) ==
  /\ firing[i] # "idle" /\ admission.faults > 0 /\ admission' = [admission EXCEPT !.faults = @ - 1]
  /\ Step(i, "idle") /\ unmarked' = unmarked \cup {schedule.slot}
  /\ UNCHANGED <<plan, point, row, latest, request, schedule, holder>>
StopInstance(i) ==
  /\ firing[i] # "idle" /\ admission.faults > 0 /\ admission' = [admission EXCEPT !.faults = @ - 1]
  /\ Leave(i) /\ unmarked' = unmarked \cup {schedule.slot}
  /\ UNCHANGED <<plan, point, row, latest, request, schedule>>

TickStep(i) ==
  BeginTick(i) \/ fireProtectionPlanSchedule(i) \/ createScheduledBackupTask(i) \/ MarkProtectionPlanScheduleFired(i)

-----------------------------------------------------------------------------
(* The rest of the system *)

\* The next time of the schedule comes.
ComeDue ==
  /\ schedule.enabled /\ ~schedule.due /\ schedule.slot < admission.slots
  /\ schedule' = [schedule EXCEPT !.due = TRUE, !.slot = @ + 1]
  /\ UNCHANGED <<admission, plan, point, row, latest, request, firing, holder, unmarked>>

\* A point whose deletion failed ("delete_failed") is as available as before.
EndTask(k) ==
  /\ k \in DOMAIN row /\ isActiveTaskStatus(k)
  /\ \E end \in {"succeeded", "failed"} :
       /\ row' = [row EXCEPT ![k].status = end]
       /\ point' = IF row[k].type # "retention-cleanup" THEN point
                   ELSE [point EXCEPT ![row[k].point] = IF end = "succeeded" THEN "deleted" ELSE "available"]
  /\ UNCHANGED <<admission, plan, latest, request, schedule, firing, holder, unmarked>>

\* The plan is changed, activated again, cleaned up and removed by other requests.
PlanMoves == [active |-> {"inactive", "cleanup_running"}, inactive |-> {"active"},
              cleanup_running |-> {"removed"}, removed |-> {"removed"}]
ChangePlan ==
  /\ admission.changes > 0 /\ admission' = [admission EXCEPT !.changes = @ - 1]
  /\ plan' \in PlanMoves[plan]
  /\ UNCHANGED <<point, row, latest, request, schedule, firing, holder, unmarked>>

AdmissionNext ==
  \/ \E r \in Requesters :
       \/ createBackupTask(r) \/ ClaimRestorePointDeletion(r) \/ SubmitTask(r)
       \/ \E app \in Apps : createAppBackupTask(r, app)
       \/ \E p \in Points : deleteRestorePoints(r, p) \/ \E t \in Recoveries : createRecoveryTask(r, t, p)
       \/ \E k \in Rows : retryRecoveryTask(r, k)
  \/ \E i \in Instances : TickStep(i) \/ StopInstance(i)
  \/ ComeDue \/ ChangePlan \/ \E k \in Rows : EndTask(k)

\* One process ticks for ever, and tasks end.
AdmissionFairness ==
  (\A i \in Instances : WF_admVars(TickStep(i))) /\ \A k \in Rows : WF_admVars(EndTask(k))
AdmissionSpec == AdmissionInit /\ [][AdmissionNext]_admVars /\ AdmissionFairness

-----------------------------------------------------------------------------
(* Properties *)

Running(types) == {k \in DOMAIN row : row[k].type \in types /\ isActiveTaskStatus(k)}

\* A plan never has two syncs, although the console, a request for one of its applications
\* and the schedulers of two processes each look for a running one before they create.
OneSyncPerPlan == \A j, k \in Running({"backup"}) : j = k

\* A point is used by one recovery at a time and is not deleted meanwhile, also when it was
\* still free as the request for its deletion or for a second use looked at it.
UseIsExclusive ==
  /\ \A j, k \in Running(Recoveries) : row[j].point = row[k].point => j = k
  /\ \A k \in Running(Recoveries) : point[row[k].point] = "available"

\* The plan's latest sync and latest recovery are the newest rows of their kinds.
LatestIsNewest ==
  \A k \in DOMAIN row : /\ row[k].type = "backup" => latest.sync >= k
                        /\ row[k].type \in Recoveries => latest.recovery >= k

\* One time of the schedule gives one sync, with two processes ticking and however soon the
\* sync ends, unless its mark was lost.
FiresOncePerTime ==
  \A j, k \in DOMAIN row : row[j].slot = row[k].slot /\ row[j].slot \notin unmarked \cup {0} => j = k

\* A schedule that is due is marked or switched off in the end, also when a process stops
\* in the middle of its tick.
DueIsHandled == (schedule.enabled /\ schedule.due) ~> ~(schedule.enabled /\ schedule.due)

\* However requests and schedulers overlap, the rows admitted exclude each other as they must.
AdmissionSafety ==
  AdmissionTypeOK /\ OneSyncPerPlan /\ UseIsExclusive /\ LatestIsNewest /\ FiresOncePerTime
=============================================================================
