------------------------------ MODULE MCAgent ------------------------------
(***************************************************************************)
(* The work of one cluster agent on small instances: recoveries, the      *)
(* cleanup of a plan's traces, the cache settings and the agent's own      *)
(* removal.  The four share no state here; a behaviour is one of one part, *)
(* and the others stay where they began.  Backups have a run of their own. *)
(***************************************************************************)
EXTENDS AgentRestore, ProtectionCleanup, CacheSettings, AgentUninstall

CONSTANTS d1, d2
VARIABLE part
agentLifeVars == <<part, restoreVars, cleanVars, cacheVars, uninVars>>

-----------------------------------------------------------------------------
(* Recoveries *)

\* A generated drill namespace is always replaced (recoveryConflictPolicy); a
\* restore keeps the policy of the request.
DrillCommand ==
  [type |-> "drill", target |-> "isolated", replace |-> TRUE, mapped |-> TRUE,
   waits |-> TRUE, cancelable |-> FALSE]

MCCommands ==
  {DrillCommand,
   [DrillCommand EXCEPT !.replace = FALSE, !.waits = FALSE, !.cancelable = TRUE],
   [DrillCommand EXCEPT !.type = "restore", !.target = "source"],
   [DrillCommand EXCEPT !.target = "agent", !.mapped = FALSE]}

\* The second drill of an application, after a first one that failed while its
\* volume was being restored and whose cleanup was deferred.
SecondDrill ==
  /\ cmd = [t \in Tasks |-> DrillCommand]
  /\ pc = [r \in Routines |-> "none"]
  /\ known = [t \in Tasks |-> t = d1] /\ pending = [t \in Tasks |-> t = d1]
  /\ warned = [t \in Tasks |-> FALSE]
  /\ report = [t \in Tasks |-> IF t = d1 THEN {"failed"} ELSE {}]
  /\ restore = [t \in Tasks |-> IF t = d1 THEN "InProgress" ELSE "absent"]
  /\ \E v \in {"", "InProgress"} :
       /\ volume = [t \in Tasks |-> IF t = d1 THEN v ELSE "absent"]
       /\ writer = [t \in Tasks |-> t = d1 /\ v = "InProgress"]
  /\ stopping = [t \in Tasks |-> FALSE]
  /\ ns = [n \in Namespaces |->
             [phase |-> "Active", for |-> IF n = "isolated" THEN d1 ELSE NoTask]]
  /\ cleaner = [c \in Cleaners |-> IF c = <<d1, 1>> THEN "cancel" ELSE "none"]
  /\ recovers = MaxRecovers

\* One task from its dispatch on, with restarts; the other one was refused.
FirstDrill ==
  /\ cmd \in [Tasks -> MCCommands] /\ cmd[d2] = DrillCommand
  /\ pc = [r \in Routines |-> "none"]
  /\ known = [t \in Tasks |-> FALSE] /\ pending = [t \in Tasks |-> FALSE]
  /\ warned = [t \in Tasks |-> FALSE]
  /\ report = [t \in Tasks |-> IF t = d2 THEN {"failed"} ELSE {}]
  /\ restore = [t \in Tasks |-> "absent"] /\ volume = [t \in Tasks |-> "absent"]
  /\ writer = [t \in Tasks |-> FALSE] /\ stopping = [t \in Tasks |-> FALSE]
  /\ ns = [n \in Namespaces |->
             [phase |-> IF n = "isolated" THEN "absent" ELSE "Active", for |-> NoTask]]
  /\ cleaner = [c \in Cleaners |-> "none"]
  /\ recovers = 0

-----------------------------------------------------------------------------
(* Cleanups, cache settings and removals *)

\* Source and target at once; a plan made anew; a task delivered twice; drills with and
\* without namespaces to delete, the source's among them.
Cleaning(m, f, g, t, s) == [modes |-> m, faults |-> f, gives |-> g, twice |-> t, spaces |-> s]
MCCleanings ==
  {Cleaning(Clusters, 0, 0, FALSE, <<>>), Cleaning({"source"}, 1, 1, FALSE, <<>>),
   Cleaning({"target"}, 1, 0, TRUE, <<>>), Cleaning({"drill"}, 1, 0, FALSE, <<"app-drill", "app">>),
   Cleaning({"drill"}, 1, 0, FALSE, <<"app-drill">>), Cleaning({"drill"}, 0, 0, FALSE, <<>>)}

\* Two settings and a connection; a cleaning of the nodes' caches, with and without nodes;
\* an image that only some releases support.
Upkeep(p, c, k, u, f, s, n) ==
  [puts |-> p, cleans |-> c, connects |-> k, upgrades |-> u, faults |-> f, fit |-> s, nodes |-> n]
MCUpkeeps ==
  {Upkeep(2, 0, 1, 1, 1, Images, Nodes), Upkeep(1, 1, 0, 1, 1, Images, Nodes),
   Upkeep(1, 1, 0, 1, 0, {"old"}, Nodes), Upkeep(0, 1, 0, 0, 0, Images, {})}

\* Every request, with two failing calls and one retry.
MCUninstalls ==
  {u \in [deleteVelero : BOOLEAN, deleteNamespace : BOOLEAN, faults : {2}, retries : {1},
          stuck : BOOLEAN, other : Others, arrives : BOOLEAN, openshift : BOOLEAN] :
     u.openshift => u.other = "none" /\ ~u.arrives}

-----------------------------------------------------------------------------
AgentParts == {"restore", "cleanup", "cache", "uninstall"}

\* An arbitrary initial state of each part stands for a part that does not move.
Still == [cleaning |-> Cleaning(Clusters, 0, 0, FALSE, <<>>),
          upkeep |-> Upkeep(0, 1, 0, 0, 0, Images, {}), removal |-> CHOOSE u \in MCUninstalls : TRUE]

MCInit ==
  /\ part \in AgentParts
  /\ FirstDrill \/ (part = "restore" /\ SecondDrill)
  /\ CleaningInit /\ CacheInit /\ UninstallInit
  /\ part # "restore" => cmd[d1] = DrillCommand
  /\ part # "cleanup" => cleaning = Still.cleaning
  /\ part # "cache" => upkeep = Still.upkeep
  /\ part # "uninstall" => removal = Still.removal

MCNext ==
  /\ UNCHANGED part
  /\ \/ part = "restore" /\ RestoreNext /\ UNCHANGED <<cleanVars, cacheVars, uninVars>>
     \/ part = "cleanup" /\ CleaningNext /\ UNCHANGED <<restoreVars, cacheVars, uninVars>>
     \/ part = "cache" /\ CacheNext /\ UNCHANGED <<restoreVars, cleanVars, uninVars>>
     \/ part = "uninstall" /\ UninstallNext /\ UNCHANGED <<restoreVars, cleanVars, cacheVars>>

\* The fairness of each part, for the part that moves.
MCFairness ==
  /\ \A r \in Routines : WF_restoreVars(part = "restore" /\ Observe(r))
  /\ WF_restoreVars(part = "restore" /\ Recover /\ \E t \in Tasks : Stranded(t))
  /\ WF_uninVars(part = "uninstall" /\ Uninstall) /\ WF_uninVars(part = "uninstall" /\ Retry)

MCSpec == MCInit /\ [][MCNext]_agentLifeVars /\ MCFairness

\* What no step of the agent does: it reports no success that it does not observe, cleans up
\* no data of a renewed plan, undoes no upgrade of Velero, deletes no CRDs that others use.
AgentStepsAreSafe == SuccessIsObserved /\ RenewedIsKept /\ UpgradeIsKept /\ SharedCRDsStay

\* What the agent has begun comes to an end that the platform is told of.
AgentWorkEnds == ObservedIsReportedOrPending /\ UninstallCompletes
=============================================================================
