-------------------------- MODULE ClusterRemoval --------------------------
(***************************************************************************)
(* How one cluster leaves the platform.  An unregister request audits the  *)
(* cluster and saves an unregister task.  When backup data is to be        *)
(* deleted, a worker first deletes the cluster's objects from every        *)
(* repository, then the protection relationships, and saves the marker     *)
(* unregisterPreflightCompleted; only then is the task sent to the agent,  *)
(* which uninstalls itself and reports, and the platform deletes the       *)
(* cluster's rows.  A forced removal takes the rows without the agent.     *)
(*                                                                         *)
(* Requests, workers and the connection's reader are threads; each         *)
(* transaction, each repository and each message is one step.  The         *)
(* platform may restart anywhere, the agent's connection may drop          *)
(* anywhere, and one request may run beside another.                       *)
(***************************************************************************)
EXTENDS Integers, Sequences, FiniteSets

CONSTANTS
  Estates,   \* the clusters and histories to look at
  Repos      \* object storage repositories

Plans == {"protects", "targets"}       \* a plan with this source, a plan with this target
Tasks == 1..2
\* Threads: requests of the console, the cleanup worker of each task, the goroutine that
\* reads from the agent's connection, and its redispatch of stored tasks.
Requests == {"q1", "q2"}
Workers  == {"w1", "w2"}
WorkerOf(t) == IF t = 1 THEN "w1" ELSE "w2"
Removers == Requests \cup Workers \cup {"reader", "redispatch"}

\* An estate is a cluster's plans, the repositories the audit finds, the ones that are
\* gone or belong to another tenant, whether restore points exist, how many requests are
\* made, and whether the platform restarts, a backup begins after the audit, or a request
\* is forced.
ASSUME EstateAssumption ==
  Estates \subseteq [plans : SUBSET Plans, repos : SUBSET Repos, foreign : SUBSET Repos,
                     points : BOOLEAN, requests : SUBSET Requests, restarts : Nat,
                     drops : Nat, late : BOOLEAN, force : BOOLEAN]

VARIABLES
  estate,    \* the cluster as it is at first, and the bounds of its history
  left,      \* the restarts of the platform, and drops of the connection or failures of the
             \* database, still to come
  row,       \* whether the clusters row exists
  plans,     \* the plans that still refer to the cluster
  objects,   \* repositories that hold objects of the cluster
  unreg,     \* unregister tasks in the order of created_at
  backup,    \* a backup task of the cluster
  online,    \* whether the hub has the agent's connection
  uninstall, \* the agent: the commands it has, the one it runs and how far it is
  doing,     \* the step each thread is at
  listed,    \* what redispatchPendingTasks has read, and the tasks it has still to look at
  forced     \* whether a forced removal has begun (not in the code)

remVars == <<estate, left, row, plans, objects, unreg, backup, online, uninstall, doing, listed, forced>>

Nothing == [at |-> "idle", task |-> 0, consent |-> FALSE, todo |-> {}, repos |-> {},
            next |-> "idle", clean |-> FALSE, rel |-> FALSE]

Ended   == {"succeeded", "failed"}
Steps   == {"idle", "plans", "create", "send", "mark", "begin", "clean", "list", "save",
            "close", "delete", "succeed", "rows", "refused"}

UnregisterTasks == [st : {"queued", "running", "dispatched", "finalizing"} \cup Ended,
                    clean : BOOLEAN, rel : BOOLEAN, repos : SUBSET Repos, ready : BOOLEAN]

RemovalTypeOK ==
  /\ estate \in Estates /\ left \in [restarts : Nat, drops : Nat]
  /\ row \in BOOLEAN /\ plans \subseteq Plans /\ objects \subseteq Repos
  /\ listed \in [tasks : Seq(UnregisterTasks), todo : SUBSET Tasks]
  /\ unreg \in Seq(UnregisterTasks)
  /\ Len(unreg) <= 2 /\ backup \in {"none", "active", "ended"} /\ online \in BOOLEAN
  /\ uninstall \in [got : SUBSET Tasks, task : 0..2, lost : SUBSET Tasks,
                    at : {"idle", "working", "failing", "reporting", "gone"}]
  /\ doing \in [Removers -> [at : Steps, task : 0..2, consent : BOOLEAN, todo : SUBSET Plans,
                             repos : SUBSET Repos, next : Steps, clean : BOOLEAN, rel : BOOLEAN]]
  /\ forced \in BOOLEAN

RemovalInit ==
  /\ estate \in Estates /\ left = [restarts |-> estate.restarts, drops |-> estate.drops]
  /\ row = TRUE /\ plans = estate.plans
  /\ objects = (IF estate.points THEN estate.repos ELSE {})
  /\ unreg = <<>> /\ backup = "none" /\ online = TRUE /\ forced = FALSE
  /\ uninstall = [got |-> {}, task |-> 0, lost |-> {}, at |-> "idle"]
  /\ doing = [x \in Removers |-> Nothing] /\ listed = [tasks |-> <<>>, todo |-> {}]

\* UpdateTaskStatus: a task that has ended keeps its status.
SetTask(t, st) == [unreg EXCEPT ![t].st = IF @ \in Ended THEN @ ELSE st]
Active(t) == unreg[t].st \notin Ended
Goto(x, at) == doing' = [doing EXCEPT ![x].at = at]

-----------------------------------------------------------------------------
(* The request *)

\* auditClusterUnregister and the decision of unregisterCluster.  Consent to delete the
\* data lifts only the blockers that are about protection data.
Audit(q, consent) ==
  LET running  == backup = "active"
      active   == \E t \in DOMAIN unreg : Active(t)
      allowed  == online /\ ~running /\ ~active /\ "targets" \notin plans
      resolves == consent /\ online /\ ~running /\ ~active
      repos    == estate.repos
      clean    == repos # {} /\ (~estate.points \/ consent)
      rel      == consent /\ plans # {}
      go       == row /\ (allowed \/ resolves) /\ ~(estate.points /\ ~consent)
  IN /\ doing[q].at = "idle" /\ q \in estate.requests
     /\ doing' = [doing EXCEPT ![q] =
          IF ~go THEN [Nothing EXCEPT !.at = "refused"]
          ELSE [at |-> IF rel /\ ~clean THEN "plans" ELSE "create", next |-> "create",
                task |-> 0, consent |-> consent, todo |-> IF rel /\ ~clean THEN plans ELSE {},
                repos |-> repos, clean |-> clean, rel |-> rel]]
     /\ UNCHANGED <<estate, left, row, plans, objects, unreg, backup, online, uninstall, listed, forced>>

\* forceCleanupCluster: the relationships, then the rows.
ForceCleanup(q) ==
  /\ estate.force /\ doing[q].at = "idle" /\ q \in estate.requests /\ row
  /\ doing' = [doing EXCEPT ![q] = [Nothing EXCEPT
       !.at = IF plans # {} THEN "plans" ELSE "close", !.next = "close", !.todo = plans]]
  /\ forced' = TRUE
  /\ UNCHANGED <<estate, left, row, plans, objects, unreg, backup, online, uninstall, listed>>

\* DeleteProtectionPlan for a plan with this source, ClearProtectionPlanTargetCluster for
\* one with this target: either way it refers to the cluster no more.
Unlink(p) == plans \ {p}

\* cleanupUnregisterProtectionRelationships: one transaction for each plan of the list.  A
\* plan that has changed meanwhile ends the request, or fails the worker's task.
RemoveRelationship(x, p) ==
  /\ doing[x].at = "plans" /\ p \in doing[x].todo
  /\ \/ /\ p \in plans
        /\ plans' = Unlink(p)
        /\ doing' = [doing EXCEPT ![x].todo = @ \ {p},
                                  ![x].at = IF doing[x].todo = {p} THEN doing[x].next ELSE @]
        /\ UNCHANGED unreg
     \/ /\ p \notin plans
        /\ doing' = [doing EXCEPT ![x] = IF x \in Requests THEN [Nothing EXCEPT !.at = "refused"]
                                         ELSE Nothing]
        /\ unreg' = IF x \in Workers THEN SetTask(doing[x].task, "failed") ELSE unreg
        /\ UNCHANGED plans
  /\ UNCHANGED <<estate, left, row, objects, backup, online, uninstall, listed, forced>>

\* CreateTask, and startUnregisterCleanup when objects are to be deleted.  Nothing of the
\* audit is looked at again.
CreateUnregister(q) ==
  LET t == Len(unreg) + 1 IN
  /\ doing[q].at = "create"
  /\ \/ /\ row
        /\ unreg' = Append(unreg, [st |-> "queued", clean |-> doing[q].clean, ready |-> FALSE,
                                   rel |-> doing[q].rel, repos |-> doing[q].repos])
        /\ doing' = IF doing[q].clean
                    THEN [doing EXCEPT ![q] = [Nothing EXCEPT !.at = "refused"],
                                       ![WorkerOf(t)] = [Nothing EXCEPT !.at = "begin", !.task = t]]
                    ELSE [doing EXCEPT ![q].at = "send", ![q].task = t]
     \/ ~row /\ UNCHANGED unreg /\ Goto(q, "refused")
  /\ UNCHANGED <<estate, left, row, plans, objects, backup, online, uninstall, listed, forced>>

-----------------------------------------------------------------------------
(* The cleanup worker: startUnregisterCleanup and cleanupAndDispatchUnregister *)

BeginCleanup(w) ==
  LET t == doing[w].task IN
  /\ doing[w].at = "begin"
  /\ IF Active(t) /\ ~unreg[t].ready
     THEN /\ unreg' = SetTask(t, "running")
          /\ doing' = [doing EXCEPT ![w].at = "clean", ![w].repos = unreg[t].repos,
                                    ![w].rel = unreg[t].rel]
     ELSE unreg' = unreg /\ doing' = [doing EXCEPT ![w] = Nothing]
  /\ UNCHANGED <<estate, left, row, plans, objects, backup, online, uninstall, listed, forced>>

\* cleanupClusterObjectStorageRepositories: every repository is looked up, and its tenant
\* compared, before the first object is deleted.
CheckRepositories_Bug(w) == TRUE
CheckRepositories(w) == unreg[doing[w].task].repos \cap estate.foreign = {}

\* deleteObjectStoragePrefix on one repository; a repository that cannot be cleaned, and a
\* cluster whose tenant is unknown by now, fail the task.
CleanRepository(w, r) ==
  /\ doing[w].at = "clean" /\ r \in doing[w].repos /\ row /\ CheckRepositories(w)
  /\ objects' = objects \ {r}
  /\ doing' = [doing EXCEPT ![w].repos = @ \ {r},
                            ![w].at = IF doing[w].repos = {r} THEN "list" ELSE @]
  /\ UNCHANGED <<estate, left, row, plans, unreg, backup, online, uninstall, listed, forced>>

CleanupFails_Bug(w) ==
  /\ doing[w].at = "clean"
  /\ doing' = [doing EXCEPT ![w].at = "list"]
  /\ UNCHANGED <<estate, left, row, plans, objects, unreg, backup, online, uninstall, listed, forced>>
CleanupFails(w) ==
  /\ doing[w].at = "clean"
  /\ unreg' = SetTask(doing[w].task, "failed")
  /\ doing' = [doing EXCEPT ![w] = Nothing]
  /\ UNCHANGED <<estate, left, row, plans, objects, backup, online, uninstall, listed, forced>>

\* ListProtectionPlans, when the relationships are to go as well.
ListRelationships(w) ==
  /\ doing[w].at = "list"
  /\ doing' = [doing EXCEPT ![w].todo = IF doing[w].rel THEN plans ELSE {}, ![w].next = "save",
                            ![w].at = IF doing[w].rel /\ plans # {} THEN "plans" ELSE "save"]
  /\ UNCHANGED <<estate, left, row, plans, objects, unreg, backup, online, uninstall, listed, forced>>

\* The marker is saved with the status before anything is sent.
SaveMarker(w) ==
  LET t == doing[w].task IN
  /\ doing[w].at = "save"
  /\ unreg' = [SetTask(t, "queued") EXCEPT ![t].ready = Active(t)]
  /\ doing' = IF Active(t) THEN [doing EXCEPT ![w].at = "send"]
              ELSE [doing EXCEPT ![w] = Nothing]
  /\ UNCHANGED <<estate, left, row, plans, objects, backup, online, uninstall, listed, forced>>

-----------------------------------------------------------------------------
(* Sending the task *)

\* dispatchStoredTask refuses a task whose cleanup is not marked complete.
Dispatchable(task) == ~task.clean \/ task.ready

\* hub.get and the write; the task stays queued when the agent is offline.
Send(x) ==
  LET t == doing[x].task IN
  /\ doing[x].at = "send"
  /\ IF online /\ Dispatchable(IF x = "redispatch" THEN listed.tasks[t] ELSE unreg[t])
     THEN uninstall' = [uninstall EXCEPT !.got = @ \cup {t}] /\ unreg' = unreg /\ Goto(x, "mark")
     ELSE /\ uninstall' = uninstall /\ unreg' = SetTask(t, "queued")
          /\ doing' = [doing EXCEPT ![x] = IF x \in Requests THEN [Nothing EXCEPT !.at = "refused"]
                                           ELSE Nothing]
  /\ UNCHANGED <<estate, left, row, plans, objects, backup, online, listed, forced>>

MarkDispatched(x) ==
  /\ doing[x].at = "mark"
  /\ unreg' = SetTask(doing[x].task, "dispatched")
  /\ doing' = [doing EXCEPT ![x] = IF x \in Requests THEN [Nothing EXCEPT !.at = "refused"]
                                   ELSE Nothing]
  /\ UNCHANGED <<estate, left, row, plans, objects, backup, online, uninstall, listed, forced>>

\* redispatchPendingTasks: the tasks of the list one by one.  One whose cleanup is not
\* complete goes back to a worker, unless one is at it.
Redispatch_Bug(t) ==
  LET task == listed.tasks[t]  x == "redispatch" IN
  /\ doing[x].at = "idle" /\ t \in listed.todo
  /\ listed' = [listed EXCEPT !.todo = @ \ {t}]
  /\ doing' = IF task.st \in {"queued", "dispatched"} /\ (task.clean => task.ready)
              THEN [doing EXCEPT ![x] = [Nothing EXCEPT !.at = "send", !.task = t]] ELSE doing
  /\ UNCHANGED <<estate, left, row, plans, objects, unreg, backup, online, uninstall, forced>>
Redispatch(t) ==
  LET task == listed.tasks[t]  w == WorkerOf(t)  x == "redispatch" IN
  /\ doing[x].at = "idle" /\ t \in listed.todo
  /\ listed' = [listed EXCEPT !.todo = @ \ {t}]
  /\ doing' =
       IF task.clean /\ ~task.ready /\ task.st \in {"queued", "dispatched", "running"}
       THEN [doing EXCEPT ![w] = IF @.at = "idle" THEN [Nothing EXCEPT !.at = "begin", !.task = t]
                                 ELSE @]
       ELSE IF task.st \in {"queued", "dispatched"}
       THEN [doing EXCEPT ![x] = [Nothing EXCEPT !.at = "send", !.task = t]]
       ELSE doing
  /\ UNCHANGED <<estate, left, row, plans, objects, unreg, backup, online, uninstall, forced>>

-----------------------------------------------------------------------------
(* The agent, and its connection *)

\* executeUnregisterTask: the command is accepted and progress reported, or dropped without
\* a word when the socket is gone.  A command that comes again is run again.
AcceptUnregister(t) ==
  /\ t \in uninstall.got /\ uninstall.at = "idle"
  /\ IF online
     THEN /\ uninstall' = [uninstall EXCEPT !.got = @ \ {t}, !.task = t, !.at = "working"]
          /\ unreg' = SetTask(t, "running")
     ELSE uninstall' = [uninstall EXCEPT !.got = @ \ {t}] /\ unreg' = unreg
  /\ UNCHANGED <<estate, left, row, plans, objects, backup, online, doing, listed, forced>>

\* The agent's process restarts in the middle of an uninstall: recoverLedgerTasks resumes
\* only backups and restores.
RestartUninstaller ==
  /\ uninstall.at = "working" /\ left.drops > 0
  /\ left' = [left EXCEPT !.drops = @ - 1] /\ online' = FALSE
  /\ uninstall' = [got |-> {}, task |-> 0, lost |-> {uninstall.task}, at |-> "idle"]
  /\ UNCHANGED <<estate, row, plans, objects, unreg, backup, doing, listed, forced>>

\* Uninstall: nothing of the agent itself is removed unless all before it succeeded.
RunUninstall ==
  /\ uninstall.at = "working"
  /\ \E at \in {"failing", "reporting"} : uninstall' = [uninstall EXCEPT !.at = at]
  /\ UNCHANGED <<estate, left, row, plans, objects, unreg, backup, online, doing, listed, forced>>

\* The failure is reported, and the agent goes on.
ReportFailed ==
  /\ uninstall.at = "failing" /\ online
  /\ unreg' = SetTask(uninstall.task, "failed")
  /\ uninstall' = [uninstall EXCEPT !.at = "idle", !.task = 0]
  /\ UNCHANGED <<estate, left, row, plans, objects, backup, online, doing, listed, forced>>

\* The agent's own namespace is being deleted: it may be stopped before it has reported.
AgentStops ==
  /\ uninstall.at = "reporting" /\ doing["reader"].at = "idle"
  /\ uninstall' = [uninstall EXCEPT !.at = "gone"]
  /\ UNCHANGED <<estate, left, row, plans, objects, unreg, backup, online, doing, listed, forced>>

\* The completion is received: the task is finalizing.
ReceiveCompleted_Bug ==
  /\ uninstall.at \in {"working", "reporting"} /\ online /\ doing["reader"].at = "idle"
  /\ unreg' = SetTask(uninstall.task, "finalizing")
  /\ doing' = [doing EXCEPT !["reader"] = [Nothing EXCEPT !.at = "close", !.task = uninstall.task]]
  /\ UNCHANGED <<estate, left, row, plans, objects, backup, online, uninstall, listed, forced>>
ReceiveCompleted ==
  /\ uninstall.at = "reporting" /\ online /\ doing["reader"].at = "idle"
  /\ unreg' = SetTask(uninstall.task, "finalizing")
  /\ doing' = [doing EXCEPT !["reader"] = [Nothing EXCEPT !.at = "close", !.task = uninstall.task]]
  /\ UNCHANGED <<estate, left, row, plans, objects, backup, online, uninstall, listed, forced>>

\* finishUnregisterTask, and the end of a forced removal: hub.close, then DeleteCluster.
CloseHub(x) ==
  /\ doing[x].at = "close"
  /\ online' = FALSE /\ Goto(x, "delete")
  /\ UNCHANGED <<estate, left, row, plans, objects, unreg, backup, uninstall, listed, forced>>

DeleteClusterRows(x) ==
  /\ doing[x].at = "delete"
  /\ row' = FALSE /\ plans' = {}
  /\ Goto(x, IF x = "reader" THEN "succeed" ELSE "refused")
  /\ UNCHANGED <<estate, left, objects, unreg, backup, online, uninstall, listed, forced>>

\* The rows cannot be deleted: the task has failed, the agent will send its report again,
\* and then they are deleted for the failed task.
DeletionFails(x) ==
  /\ doing[x].at = "delete" /\ row /\ left.drops > 0 /\ left' = [left EXCEPT !.drops = @ - 1]
  /\ IF x = "reader"
     THEN unreg' = SetTask(doing[x].task, "failed") /\ doing' = [doing EXCEPT ![x] = Nothing]
     ELSE unreg' = unreg /\ Goto(x, "refused")
  /\ UNCHANGED <<estate, row, plans, objects, backup, online, uninstall, listed, forced>>

CompleteUnregister ==
  /\ doing["reader"].at = "succeed"
  /\ unreg' = SetTask(doing["reader"].task, "succeeded")
  /\ doing' = [doing EXCEPT !["reader"] = Nothing]
  /\ uninstall' = [uninstall EXCEPT !.at = "gone"]
  /\ UNCHANGED <<estate, left, row, plans, objects, backup, online, listed, forced>>

\* The agent's connection drops; its redispatch goes on with a dead socket.
DropConnection ==
  /\ online /\ left.drops > 0 /\ doing["reader"].at = "idle"
  /\ online' = FALSE /\ left' = [left EXCEPT !.drops = @ - 1]
  /\ UNCHANGED <<estate, row, plans, objects, unreg, backup, uninstall, doing, listed, forced>>

\* The agent comes back while its credential is known, and the stored tasks are listed.
Reconnect ==
  /\ ~online /\ row /\ uninstall.at # "gone"
  /\ doing["redispatch"] = Nothing /\ listed.todo = {}
  /\ online' = TRUE /\ listed' = [tasks |-> unreg, todo |-> DOMAIN unreg]
  /\ UNCHANGED <<estate, left, row, plans, objects, unreg, backup, uninstall, doing, forced>>

\* The platform stops and starts again: no thread survives.  A worker that is told to
\* stop while it deletes objects puts its task back into the queue.
RestartPlatform ==
  /\ left.restarts > 0 /\ left' = [left EXCEPT !.restarts = @ - 1]
  /\ online' = FALSE /\ listed' = [tasks |-> <<>>, todo |-> {}]
  /\ doing' = [x \in Removers |->
       IF x \in Requests /\ doing[x].at # "idle" THEN [Nothing EXCEPT !.at = "refused"] ELSE Nothing]
  /\ \/ unreg' = unreg
     \/ /\ \E w \in Workers : doing[w].at = "clean"
        /\ unreg' = [t \in DOMAIN unreg |->
             IF doing[WorkerOf(t)].at = "clean" THEN SetTask(t, "queued")[t] ELSE unreg[t]]
  /\ UNCHANGED <<estate, row, plans, objects, backup, uninstall, forced>>

\* A backup of the cluster runs, and writes to one of its repositories.
StartBackup ==
  /\ estate.late /\ backup = "none" /\ row /\ online
  /\ backup' = "active"
  /\ UNCHANGED <<estate, left, row, plans, objects, unreg, online, uninstall, doing, listed, forced>>
FinishBackup ==
  /\ backup = "active" /\ backup' = "ended"
  /\ objects' = objects \cup (estate.repos \ estate.foreign)
  /\ UNCHANGED <<estate, left, row, plans, unreg, online, uninstall, doing, listed, forced>>

ThreadStep(x) ==
  \/ \E p \in Plans : RemoveRelationship(x, p)
  \/ x \in Requests /\ CreateUnregister(x)
  \/ x \in Workers /\ (\/ BeginCleanup(x) \/ ListRelationships(x) \/ SaveMarker(x) \/ CleanupFails(x)
                       \/ \E r \in Repos : CleanRepository(x, r))
  \/ Send(x) \/ MarkDispatched(x) \/ CloseHub(x) \/ DeleteClusterRows(x) \/ DeletionFails(x)
  \/ x = "redispatch" /\ (\E t \in Tasks : Redispatch(t))
  \/ x = "reader" /\ CompleteUnregister
AgentStep ==
  \/ \E t \in Tasks : AcceptUnregister(t)
  \/ RunUninstall \/ ReportFailed \/ ReceiveCompleted

RemovalNext ==
  \/ \E q \in Requests : ForceCleanup(q) \/ \E consent \in BOOLEAN : Audit(q, consent)
  \/ \E x \in Removers : ThreadStep(x)
  \/ AgentStep \/ AgentStops \/ RestartUninstaller \/ DropConnection \/ Reconnect \/ RestartPlatform
  \/ StartBackup \/ FinishBackup

\* Goroutines run on, the agent reports and redials every ten seconds.
RemovalFairness ==
  /\ \A x \in Removers : WF_remVars(ThreadStep(x))
  /\ WF_remVars(AgentStep) /\ WF_remVars(Reconnect)

RemovalSpec == RemovalInit /\ [][RemovalNext]_remVars /\ RemovalFairness

-----------------------------------------------------------------------------
(* Properties *)

\* The agent never uninstalls itself for a task that was to delete the cluster's backup
\* data before every repository of the task is empty, whatever restarts, drops and
\* redispatches come between (dispatchStoredTask and the durable marker).  A backup that
\* began after the audit may have written again.
UninstallFollowsCleanup ==
  \A t \in DOMAIN unreg :
    uninstall.task = t /\ uninstall.at \in {"working", "reporting"} /\ unreg[t].clean /\ backup = "none"
      => objects \cap unreg[t].repos = {}

\* "A missing/foreign later repository must not partially delete earlier ones": as long as
\* one repository of the task cannot be used, no object is deleted at all.
CleanupIsAllOrNothing ==
  estate.foreign \cap estate.repos # {} /\ estate.points => estate.repos \subseteq objects

\* "A failed storage cleanup must leave the source plan and restore-point metadata usable
\* for a retry": the worker of a task removes a relationship only when no repository of
\* the task holds objects of the cluster any more.
RelationshipsOutliveData ==
  [][\A w \in Workers :
       doing[w].at = "plans" /\ doing'[w] # doing[w] /\ plans' # plans /\ backup = "none"
         => objects \cap unreg[doing[w].task].repos = {}]_remVars

\* Without a forced removal the cluster's row outlives the agent: it is deleted only for an
\* agent that has finished its uninstall.
RowOutlivesAgent == row \/ forced \/ uninstall.at \in {"reporting", "gone"}

\* An unregister task ends, or its cluster is gone: through drops, a restart, and a second
\* request.  Left out are a forced removal, and an agent that restarted in the middle of
\* its uninstall, or was stopped by it before it could report: the command is neither
\* resumed nor sent again, and the task stays as it is.
UnregisterEnds ==
  \A t \in Tasks :
    (Len(unreg) >= t /\ unreg[t].st \notin Ended)
      ~> (\/ Len(unreg) >= t /\ unreg[t].st \in Ended
          \/ ~row \/ forced \/ t \in uninstall.lost \/ uninstall.at = "gone")

\* Data goes before the agent and the agent before the row, and data goes all or not at all.
RemovalSafety ==
  RemovalTypeOK /\ UninstallFollowsCleanup /\ CleanupIsAllOrNothing /\ RowOutlivesAgent
=============================================================================
