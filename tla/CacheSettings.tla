----------------------------- MODULE CacheSettings -----------------------------
(***************************************************************************)
(* The settings of the node cache of a cluster: saved by the platform,     *)
(* applied by a task and again at every connection of the agent to the     *)
(* node-agent DaemonSet, which an upgrade of Velero patches at the same    *)
(* time; and the cleaning of the cache by a Job on every node.             *)
(***************************************************************************)
EXTENDS Integers, FiniteSets

CONSTANT Upkeeps   \* the histories to look at

Sizes    == 0..2                  \* settings; 0 is what a cluster begins with
Nodes    == {"n1", "n2"}
Writers  == {"task", "connect"}   \* goroutines of the agent that configure the cache
Images   == {"old", "new"}        \* node-agent images; an upgrade installs "new"

ASSUME UpkeepAssumption ==
  Upkeeps \subseteq [puts : Nat, cleans : Nat, connects : Nat, upgrades : Nat, faults : Nat,
                     fit : SUBSET Images, nodes : SUBSET Nodes]

VARIABLES
  upkeep,   \* what is left of the bounds; fit: the images that support a persistent cache
  saved,    \* cluster_cache_settings
  cacheTask,\* the latest cache-settings task: its setting and status
  daemon,   \* the DaemonSet: image, the image its capability is noted for, setting, version
  cacheWriter,   \* each goroutine: where it is, what it applies, the DaemonSet it read
  jobs,     \* cleaning Jobs by node
  overtaken \* a setting was applied after a newer one (not in the code)

cacheVars == <<upkeep, saved, cacheTask, daemon, cacheWriter, jobs, overtaken>>

Resting == [at |-> "idle", size |-> 0, seen |-> 0, clean |-> FALSE]
CacheSteps == {"idle", "get", "update", "wait", "clean", "create", "watch", "failed", "completed"}

CacheTypeOK ==
  /\ saved \in Sizes /\ cacheTask \in [size : Sizes, status : {"none", "active", "failed", "succeeded"}]
  /\ daemon \in [image : Images, noted : Images, size : Sizes, version : Nat]
  /\ \A w \in Writers : cacheWriter[w].at \in CacheSteps
  /\ jobs \in [Nodes -> {"none", "running", "succeeded", "failed", "deleted"}] /\ overtaken \in BOOLEAN

CacheInit ==
  /\ upkeep \in Upkeeps
  /\ saved = 0 /\ cacheTask = [size |-> 0, status |-> "none"]
  /\ daemon = [image |-> "old", noted |-> "old", size |-> 0, version |-> 0]
  /\ cacheWriter = [w \in Writers |-> Resting] /\ jobs = [n \in Nodes |-> "none"] /\ overtaken = FALSE

-----------------------------------------------------------------------------
(* The platform *)

\* clusterCacheSettings: refused while a task is active; the task is created and the
\* settings are saved under one mutex, and the agent is sent the command.
clusterCacheSettings(clean) ==
  /\ cacheTask.status # "active" /\ cacheWriter["task"].at = "idle"
  /\ IF clean THEN upkeep.cleans > 0 ELSE upkeep.puts > 0
  /\ upkeep' = IF clean THEN [upkeep EXCEPT !.cleans = 0] ELSE [upkeep EXCEPT !.puts = @ - 1]
  /\ \E size \in IF clean THEN {saved} ELSE Sizes \ {0, saved} :
       /\ saved' = size
       /\ cacheTask' = [size |-> size, status |-> "active"]
       /\ cacheWriter' = [cacheWriter EXCEPT !["task"] = [at |-> IF clean THEN "clean" ELSE "get", size |-> size,
                                                seen |-> 0, clean |-> clean]]
  /\ jobs' = [n \in Nodes |-> "none"] /\ UNCHANGED <<daemon, overtaken>>

\* The acceptance of a connection carries the settings as they are saved.
AcceptConnection ==
  /\ upkeep.connects > 0 /\ upkeep' = [upkeep EXCEPT !.connects = @ - 1]
  /\ cacheWriter["connect"].at = "idle"
  /\ cacheWriter' = [cacheWriter EXCEPT !["connect"] = [Resting EXCEPT !.at = "get", !.size = saved]]
  /\ UNCHANGED <<saved, cacheTask, daemon, jobs, overtaken>>

\* The result of the task is received.
ReceiveResult ==
  /\ cacheWriter["task"].at \in {"failed", "completed"} /\ cacheTask.status = "active"
  /\ cacheTask' = [cacheTask EXCEPT !.status = IF cacheWriter["task"].at = "failed" THEN "failed" ELSE "succeeded"]
  /\ cacheWriter' = [cacheWriter EXCEPT !["task"].at = "idle"]
  /\ UNCHANGED <<upkeep, saved, daemon, jobs, overtaken>>

-----------------------------------------------------------------------------
(* ConfigureCache *)

WriterAt(w, at) == cacheWriter' = [cacheWriter EXCEPT ![w].at = at]
Ends(w, at) == WriterAt(w, IF w = "task" THEN at ELSE "idle")
Breaks == upkeep.faults > 0 /\ upkeep' = [upkeep EXCEPT !.faults = @ - 1]
Keeps == UNCHANGED upkeep

\* Cache settings need an image that supports them, and for which that was noted.
Supported == daemon.image \in upkeep.fit /\ daemon.noted = daemon.image

GetDaemon(w) ==
  /\ cacheWriter[w].at = "get"
  /\ \/ Keeps /\ ~Supported /\ Ends(w, "failed")
     \/ Keeps /\ Supported /\ daemon.size = cacheWriter[w].size /\ WriterAt(w, "wait")
     \/ /\ Keeps /\ Supported /\ daemon.size # cacheWriter[w].size
        /\ cacheWriter' = [cacheWriter EXCEPT ![w].at = "update", ![w].seen = daemon.version]
     \/ Breaks /\ Ends(w, "failed")
  /\ UNCHANGED <<saved, cacheTask, daemon, jobs, overtaken>>

\* The update carries the version it read: RetryOnConflict reads again when it is stale.
UpdateDaemon_Bug(w) ==
  /\ cacheWriter[w].at = "update" /\ Keeps /\ WriterAt(w, "wait")
  /\ daemon' = [daemon EXCEPT !.size = cacheWriter[w].size, !.version = @ + 1,
                              !.image = IF daemon.version = cacheWriter[w].seen THEN @ ELSE "old",
                              !.noted = IF daemon.version = cacheWriter[w].seen THEN @ ELSE "old"]
  /\ overtaken' = (overtaken \/ saved # cacheWriter[w].size)
  /\ UNCHANGED <<saved, cacheTask, jobs>>
UpdateDaemon_Lost(w) ==
  /\ cacheWriter[w].at = "update" /\ Keeps /\ WriterAt(w, "wait")
  /\ daemon' = IF daemon.version = cacheWriter[w].seen
               THEN [daemon EXCEPT !.size = cacheWriter[w].size, !.version = @ + 1] ELSE daemon
  /\ UNCHANGED <<saved, cacheTask, jobs, overtaken>>
UpdateDaemon(w) ==
  /\ cacheWriter[w].at = "update"
  /\ \/ /\ Keeps /\ daemon.version = cacheWriter[w].seen /\ WriterAt(w, "wait")
        /\ daemon' = [daemon EXCEPT !.size = cacheWriter[w].size, !.version = @ + 1]
        /\ overtaken' = (overtaken \/ saved # cacheWriter[w].size)
     \/ /\ Keeps /\ daemon.version # cacheWriter[w].seen /\ WriterAt(w, "get") /\ UNCHANGED <<daemon, overtaken>>
     \/ /\ Breaks /\ Ends(w, "failed") /\ UNCHANGED <<daemon, overtaken>>
  /\ UNCHANGED <<saved, cacheTask, jobs>>

\* The rollout is waited for; after ninety seconds the task fails, the setting stays.
WaitRollout(w) ==
  /\ cacheWriter[w].at = "wait"
  /\ (Keeps /\ Ends(w, "completed")) \/ (Breaks /\ Ends(w, "failed"))
  /\ UNCHANGED <<saved, cacheTask, daemon, jobs, overtaken>>

\* UpgradeVelero patches image and capability, whatever version the DaemonSet has.
UpgradeVelero ==
  /\ upkeep.upgrades > 0 /\ upkeep' = [upkeep EXCEPT !.upgrades = 0]
  /\ daemon' = [daemon EXCEPT !.image = "new", !.noted = "new", !.version = @ + 1]
  /\ UNCHANGED <<saved, cacheTask, cacheWriter, jobs, overtaken>>

-----------------------------------------------------------------------------
(* cleanCache *)

\* The Jobs that were created are deleted on every way out.
Sweep_Bug == UNCHANGED jobs
Sweep == jobs' = [n \in Nodes |-> IF jobs[n] = "none" THEN "none" ELSE "deleted"]

\* What is installed is looked at first, and the nodes that run a node-agent.
CheckClean ==
  /\ cacheWriter["task"].at = "clean" /\ Keeps
  /\ WriterAt("task", IF Supported /\ upkeep.nodes # {} THEN "create" ELSE "failed")
  /\ UNCHANGED <<saved, cacheTask, daemon, jobs, overtaken>>

\* A Job for every node; the first that cannot be created ends the cleaning.
CreateJob(n) ==
  /\ cacheWriter["task"].at = "create" /\ n \in upkeep.nodes /\ jobs[n] = "none"
  /\ \/ /\ Keeps /\ jobs' = [jobs EXCEPT ![n] = "running"]
        /\ IF \E k \in upkeep.nodes \ {n} : jobs[k] = "none" THEN UNCHANGED cacheWriter ELSE WriterAt("task", "watch")
     \/ Breaks /\ Sweep /\ WriterAt("task", "failed")
  /\ UNCHANGED <<saved, cacheTask, daemon, overtaken>>

RunJob(n) ==
  /\ jobs[n] = "running"
  /\ \/ Keeps /\ jobs' = [jobs EXCEPT ![n] = "succeeded"]
     \/ Breaks /\ jobs' = [jobs EXCEPT ![n] = "failed"]
  /\ UNCHANGED <<saved, cacheTask, daemon, cacheWriter, overtaken>>

\* All have succeeded, or one has failed or takes longer than 150 seconds.
WatchJobs ==
  /\ cacheWriter["task"].at = "watch"
  /\ \/ Keeps /\ (\A n \in upkeep.nodes : jobs[n] = "succeeded") /\ WriterAt("task", "completed")
     \/ Keeps /\ (\E n \in upkeep.nodes : jobs[n] = "failed") /\ WriterAt("task", "failed")
     \/ Breaks /\ WriterAt("task", "failed")
  /\ Sweep /\ UNCHANGED <<saved, cacheTask, daemon, overtaken>>

CacheStep == (\E w \in Writers : GetDaemon(w) \/ UpdateDaemon(w) \/ WaitRollout(w)) \/ CheckClean \/ WatchJobs
CacheNext ==
  \/ \E clean \in BOOLEAN : clusterCacheSettings(clean)
  \/ AcceptConnection \/ ReceiveResult \/ CacheStep \/ UpgradeVelero \/ \E n \in Nodes : CreateJob(n) \/ RunJob(n)

CacheSpec == CacheInit /\ [][CacheNext]_cacheVars

-----------------------------------------------------------------------------
(* Properties *)

\* The upgrade of Velero is not undone by a cache setting that was read before it and
\* written after it.
UpgradeIsKept == [][daemon.image = "new" => daemon'.image = "new"]_cacheVars

\* Once a task of settings has succeeded and the agent rests, the DaemonSet has the saved
\* settings, unless an older setting that came with a connection was written after it.
SettingsArrive ==
  cacheTask.status = "succeeded" /\ (\A w \in Writers : cacheWriter[w].at = "idle") /\ ~overtaken
    /\ cacheTask.size = saved => daemon.size = saved \/ cacheWriter["task"].clean

\* No way out of a cleaning, a failure on the first node or on a later one included, leaves
\* a Job running that has the cache of its node mounted.
NoJobIsLeft == cacheWriter["task"].at \notin {"create", "watch"} => \A n \in Nodes : jobs[n] # "running"

\* A settled change of the cache has reached the DaemonSet and leaves no Job behind.
CacheSafety == CacheTypeOK /\ SettingsArrive /\ NoJobIsLeft
=============================================================================
