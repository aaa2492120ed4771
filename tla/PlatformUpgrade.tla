---------------------------- MODULE PlatformUpgrade ----------------------------
(***************************************************************************)
(* The upgrade of the platform itself.  Releases are registered in the     *)
(* database; an administrator's request checks and creates a job; the      *)
(* upgrader, a process of its own, takes the newest queued job, backs up,  *)
(* pulls images, rewrites the deployment's environment file, restarts the  *)
(* services one after the other, and activates the release, or writes the  *)
(* old environment back and restarts them again.  While a job is open the  *)
(* scheduler starts nothing.                                               *)
(*                                                                         *)
(* Each statement of the store, each file and each service is one step.    *)
(* The upgrader may stop anywhere.                                         *)
(***************************************************************************)
EXTENDS Integers

CONSTANTS
  Targets,     \* the releases that may be installed; 0 runs at first
  Jobs,        \* the jobs that may be created, in this order
  Admins,      \* the requests for an upgrade
  Releasings   \* the histories to look at

Releases == Targets \cup {0}
Services == {"api", "executor", "frontend"}

\* A releasing bounds the requests, the failures, the stops of the upgrader and the tasks
\* that are due.
ASSUME ReleasingAssumption ==
  /\ Targets \subseteq Nat \ {0} /\ Jobs \subseteq Nat \ {0}
  /\ Releasings \subseteq [admins : SUBSET Admins, faults : Nat, stops : Nat, due : Nat]

VARIABLES
  releasing,   \* what is left of the bounds
  catalog,     \* platform_releases: the status of each release
  admin,       \* createPlatformUpgrade, one per request
  job,         \* platform_upgrade_jobs
  envFile,     \* the release in the environment file
  runs,        \* the release each service runs
  manifest,    \* current-release.json
  worker,      \* the upgrader: its job, its step and the release it found
  replacing,   \* a container was started to replace the upgrader
  tick,        \* whether a tick of the scheduler is past its look at the jobs
  active,      \* whether a task of the scheduler is active
  faulted      \* ghost: what nothing repairs: an upgrader that stopped within a job or lost
               \* its last update, an ignored error, a job made beside a task

platVars == <<releasing, catalog, admin, job, envFile, runs, manifest, worker, replacing, tick, active, faulted>>

Terminal == {"succeeded", "failed"}
NoJob  == [status |-> "none", release |-> 0]
Off    == [job |-> 0, at |-> "idle", old |-> 0]

PlatformTypeOK ==
  /\ catalog \in [Releases -> {"none", "candidate", "active", "retired"}]
  /\ admin \in [Admins -> [at : {"idle", "checked", "none"}, release : Releases]]
  /\ job \in [Jobs -> [status : Terminal \cup {"none", "queued", "open"}, release : Releases]]
  /\ envFile \in Releases /\ runs \in [Services -> Releases] /\ manifest \in Releases
  /\ worker.job \in Jobs \cup {0} /\ worker.old \in Releases
  /\ {replacing, tick, active} \subseteq BOOLEAN /\ faulted \subseteq {"stopped", "unrestored", "file", "overlap"}

PlatformInit ==
  /\ releasing \in Releasings
  /\ catalog = [r \in Releases |-> IF r = 0 THEN "active" ELSE "none"]
  /\ admin = [a \in Admins |-> [at |-> IF a \in releasing.admins THEN "idle" ELSE "none", release |-> 0]]
  /\ job = [j \in Jobs |-> NoJob] /\ envFile = 0 /\ runs = [s \in Services |-> 0] /\ manifest = 0
  /\ worker = Off /\ replacing = FALSE /\ tick = FALSE /\ active = FALSE /\ faulted = {}

Open(j) == job[j].status \in {"queued", "open"}

-----------------------------------------------------------------------------
(* The API *)

\* createPlatformRelease: the first release of all is active, others are candidates; the
\* registry's answers and a digest that changed are refusals.
createPlatformRelease(r) ==
  /\ catalog[r] = "none"
  /\ catalog' = [catalog EXCEPT ![r] = IF \A q \in Releases : catalog[q] = "none" THEN "active" ELSE "candidate"]
  /\ UNCHANGED <<releasing, admin, job, envFile, runs, manifest, worker, replacing, tick, active, faulted>>

\* platformPrecheck, with the list of jobs that createPlatformUpgrade reads after it.
platformPrecheck(r) ==
  catalog[r] # "none" /\ ~active /\ r # runs["api"] /\ \A j \in Jobs : ~Open(j)
CheckUpgrade(a, r) ==
  /\ admin[a].at = "idle" /\ platformPrecheck(r)
  /\ admin' = [admin EXCEPT ![a] = [at |-> "checked", release |-> r]]
  /\ UNCHANGED <<releasing, catalog, job, envFile, runs, manifest, worker, replacing, tick, active, faulted>>

NextJob(j) == job[j].status = "none" /\ \A i \in Jobs : i < j => job[i].status # "none"

\* The insert meets the index of one open job per tenant.
CreatePlatformUpgradeJob_Bug(a, j) ==
  /\ admin[a].at = "checked" /\ NextJob(j)
  /\ job' = [job EXCEPT ![j] = [status |-> "queued", release |-> admin[a].release]]
  /\ admin' = [admin EXCEPT ![a].at = "none"]
  /\ faulted' = IF tick \/ active THEN faulted \cup {"overlap"} ELSE faulted
  /\ UNCHANGED <<releasing, catalog, envFile, runs, manifest, worker, replacing, tick, active>>
CreatePlatformUpgradeJob(a, j) ==
  /\ admin[a].at = "checked" /\ NextJob(j)
  /\ job' = IF \E i \in Jobs : Open(i) THEN job
            ELSE [job EXCEPT ![j] = [status |-> "queued", release |-> admin[a].release]]
  /\ admin' = [admin EXCEPT ![a].at = "none"]
  /\ faulted' = IF tick \/ active THEN faulted \cup {"overlap"} ELSE faulted
  /\ UNCHANGED <<releasing, catalog, envFile, runs, manifest, worker, replacing, tick, active>>

-----------------------------------------------------------------------------
(* The upgrader: run *)

At(step) == worker.at = step
WorksOn(step) == worker' = [worker EXCEPT !.at = step]
Fine  == UNCHANGED releasing
Fault == releasing.faults > 0 /\ releasing' = [releasing EXCEPT !.faults = @ - 1]

\* The end of a job; the error of the update is ignored.
UpdatePlatformUpgradeJob(status) ==
  \/ Fine /\ job' = [job EXCEPT ![worker.job].status = status] /\ UNCHANGED faulted
  \/ Fault /\ faulted' = faulted \cup {"stopped"} /\ UNCHANGED job

\* The loop of main takes a queued job; run reads the environment file and the release.
TakeJob(j) ==
  /\ worker = Off /\ job[j].status = "queued"
  /\ \/ /\ Fine /\ worker' = [job |-> j, at |-> "backup", old |-> envFile]
        /\ job' = [job EXCEPT ![j].status = "open"]
     \/ Fault /\ job' = [job EXCEPT ![j].status = "failed"] /\ UNCHANGED worker
  /\ UNCHANGED <<catalog, admin, envFile, runs, manifest, replacing, tick, active, faulted>>

\* Until the environment file is written nothing has changed: a failure just ends the job.
PrepareStep(step, next) ==
  /\ At(step) /\ \/ Fine /\ WorksOn(next)
                 \/ Fault /\ WorksOn("fail")
  /\ UNCHANGED <<catalog, admin, job, envFile, runs, manifest, replacing, tick, active, faulted>>
writeEnv ==
  /\ At("write") /\ \/ Fine /\ envFile' = job[worker.job].release /\ WorksOn("api")
                    \/ Fault /\ WorksOn("fail") /\ UNCHANGED envFile
  /\ UNCHANGED <<catalog, admin, job, runs, manifest, replacing, tick, active, faulted>>

\* The API takes its requests and its tick with it when it is replaced.
Restart(s) ==
  /\ runs' = [x \in Services |-> IF x \in s THEN envFile ELSE runs[x]]
  /\ IF "api" \in s /\ runs["api"] # envFile
       THEN /\ tick' = FALSE
            /\ admin' = [a \in Admins |-> IF admin[a].at = "checked" THEN [admin[a] EXCEPT !.at = "none"] ELSE admin[a]]
       ELSE UNCHANGED <<tick, admin>>

\* docker compose up; when it fails the service may have been replaced all the same.
Switch(s, next) ==
  /\ At(s)
  /\ \/ Fine /\ Restart({s}) /\ WorksOn(next)
     \/ Fault /\ WorksOn("rollback") /\ \E done \in {{}, {s}} : Restart(done)
  /\ UNCHANGED <<catalog, job, envFile, manifest, replacing, active, faulted>>
waitHealth(step, next) ==
  /\ At(step) /\ \/ Fine /\ WorksOn(next)
                 \/ Fault /\ WorksOn("rollback")
  /\ UNCHANGED <<catalog, admin, job, envFile, runs, manifest, replacing, tick, active, faulted>>

\* The manifest's file is replaced by a rename.
activateLocalManifest ==
  /\ At("manifest") /\ \/ Fine /\ manifest' = job[worker.job].release /\ WorksOn("activate")
                       \/ Fault /\ WorksOn("rollback") /\ UNCHANGED manifest
  /\ UNCHANGED <<catalog, admin, job, envFile, runs, replacing, tick, active, faulted>>

\* One transaction.  The rollback after its failure leaves the manifest's file as it is.
ActivatePlatformRelease ==
  /\ At("activate")
  /\ \/ /\ Fine /\ catalog' = [r \in Releases |-> IF r = job[worker.job].release THEN "active"
                                                 ELSE IF catalog[r] = "active" THEN "retired" ELSE catalog[r]]
        /\ WorksOn("close") /\ UNCHANGED faulted
     \/ Fault /\ WorksOn("rollback") /\ faulted' = faulted \cup {"file"} /\ UNCHANGED catalog
  /\ UNCHANGED <<admin, job, envFile, runs, manifest, replacing, tick, active>>

\* The job has succeeded, and the upgrader's own replacement is scheduled.
Succeed ==
  /\ At("close") /\ UpdatePlatformUpgradeJob("succeeded") /\ worker' = Off /\ replacing' = TRUE
  /\ UNCHANGED <<catalog, admin, envFile, runs, manifest, tick, active>>

\* rollback: the old environment, the services, the end of the job; errors are ignored.
RestoreEnv_Bug ==
  /\ At("rollback") /\ WorksOn("restart")
  /\ UNCHANGED <<releasing, catalog, admin, job, envFile, runs, manifest, replacing, tick, active, faulted>>
RestoreEnv ==
  /\ At("rollback") /\ WorksOn("restart")
  /\ \/ Fine /\ envFile' = worker.old /\ UNCHANGED faulted
     \/ Fault /\ faulted' = faulted \cup {"unrestored"} /\ UNCHANGED envFile
  /\ UNCHANGED <<catalog, admin, job, runs, manifest, replacing, tick, active>>
RestartServices ==
  /\ At("restart") /\ WorksOn("fail")
  /\ \/ Fine /\ Restart(Services) /\ UNCHANGED faulted
     \/ Fault /\ Restart({}) /\ faulted' = faulted \cup {"unrestored"}
  /\ UNCHANGED <<catalog, job, envFile, manifest, replacing, active>>
FailJob_Bug ==
  /\ At("fail") /\ worker' = Off
  /\ UNCHANGED <<releasing, catalog, admin, job, envFile, runs, manifest, replacing, tick, active, faulted>>
FailJob ==
  /\ At("fail") /\ UpdatePlatformUpgradeJob("failed") /\ worker' = Off
  /\ UNCHANGED <<catalog, admin, envFile, runs, manifest, replacing, tick, active>>

\* The upgrader stops, by itself or because its replacement comes when it has begun the
\* next job.  Only queued jobs are ever taken, so an open one stays open.
StopUpgrader ==
  /\ \/ replacing /\ replacing' = FALSE /\ Fine
     \/ /\ releasing.stops > 0 /\ releasing' = [releasing EXCEPT !.stops = @ - 1]
        /\ UNCHANGED replacing
  /\ worker' = Off /\ faulted' = IF worker = Off THEN faulted ELSE faulted \cup {"stopped"}
  /\ UNCHANGED <<catalog, admin, job, envFile, runs, manifest, tick, active>>

Upgrade ==
  \/ \E j \in Jobs : TakeJob(j)
  \/ PrepareStep("backup", "pull") \/ PrepareStep("pull", "write") \/ writeEnv
  \/ Switch("api", "health") \/ waitHealth("health", "executor")
  \/ Switch("executor", "frontend") \/ Switch("frontend", "verify") \/ waitHealth("verify", "manifest")
  \/ activateLocalManifest \/ ActivatePlatformRelease \/ Succeed
  \/ RestoreEnv \/ RestartServices \/ FailJob

-----------------------------------------------------------------------------
(* The scheduler *)

\* A tick reads the jobs, then fires what is due.
LookAtJobs_Bug ==
  /\ ~tick /\ releasing.due > 0 /\ \A j \in Jobs : job[j].status # "queued"
  /\ tick' = TRUE /\ releasing' = [releasing EXCEPT !.due = @ - 1]
  /\ UNCHANGED <<catalog, admin, job, envFile, runs, manifest, worker, replacing, active, faulted>>
LookAtJobs ==
  /\ ~tick /\ releasing.due > 0 /\ \A j \in Jobs : ~Open(j)
  /\ tick' = TRUE /\ releasing' = [releasing EXCEPT !.due = @ - 1]
  /\ UNCHANGED <<catalog, admin, job, envFile, runs, manifest, worker, replacing, active, faulted>>
FireSchedule ==
  /\ tick /\ tick' = FALSE /\ active' = TRUE
  /\ UNCHANGED <<releasing, catalog, admin, job, envFile, runs, manifest, worker, replacing, faulted>>
TenantTaskEnds ==
  /\ active /\ active' = FALSE
  /\ UNCHANGED <<releasing, catalog, admin, job, envFile, runs, manifest, worker, replacing, tick, faulted>>

PlatformNext ==
  \/ \E r \in Targets : createPlatformRelease(r)
  \/ \E a \in Admins : (\E j \in Jobs : CreatePlatformUpgradeJob(a, j)) \/ (\E r \in Releases : CheckUpgrade(a, r))
  \/ Upgrade \/ StopUpgrader \/ LookAtJobs \/ FireSchedule \/ TenantTaskEnds

PlatformFairness == WF_platVars(Upgrade)
PlatformSpec == PlatformInit /\ [][PlatformNext]_platVars /\ PlatformFairness

-----------------------------------------------------------------------------
(* Properties *)

Quiet == \A j \in Jobs : ~Open(j)

\* Whichever step failed, when no job is open the environment file, every service and the
\* active release are the same release, and so is the file of the manifest unless the
\* activation failed after it was written.  Exempt are an upgrader that stopped within a
\* job and a rollback whose restart failed.
SettledIsUniform ==
  Quiet /\ faulted \cap {"stopped", "unrestored"} = {} =>
    /\ \A s \in Services : runs[s] = envFile
    /\ catalog[envFile] = "active"
    /\ manifest = envFile \/ "file" \in faulted

\* Two requests that both passed the check leave one open job: at no time are two releases
\* being installed.
OneUpgrade == \A i, j \in Jobs : Open(i) /\ Open(j) => i = j

\* The upgrader never replaces a service under a task of the scheduler, neither one that
\* was active when the upgrade was checked nor one of a later tick: only a tick that was
\* past its look at the jobs, or had fired, when the job was created can meet it.
NoTaskIsSwitched ==
  active /\ worker.at \in Services => "overlap" \in faulted

\* Every job ends unless the upgrader stops within it.
PlatformUpgradeEnds == \A j \in Jobs : Open(j) ~> (~Open(j) \/ "stopped" \in faulted)

\* One upgrade at a time, under no task, which ends with one release everywhere.
PlatformSafety == PlatformTypeOK /\ SettledIsUniform /\ OneUpgrade /\ NoTaskIsSwitched
=============================================================================
