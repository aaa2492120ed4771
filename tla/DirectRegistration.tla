--------------------------- MODULE DirectRegistration ---------------------------
(***************************************************************************)
(* Platform-direct registration of a cluster.  A kubeconfig is uploaded to *)
(* a session directory, one of its contexts is inspected, and a task is    *)
(* created that an executor, a service or a Job of its own, claims and     *)
(* runs.  Timers, a janitor, cancellation and deletion remove the upload;  *)
(* the API may restart and the executor may die at any point.              *)
(***************************************************************************)
EXTENDS Integers

CONSTANTS
  Enrolments,  \* the histories to look at
  Contexts,    \* of the kubeconfig
  Executors,   \* the executor service's processes; a Job is the executor 1
  UploadTTL,   \* cceUploadTTL, a quarter of an hour
  TaskLease,   \* TaskTimeout and ten minutes
  LastTime     \* how far the clock goes

\* What inspectCluster demands, by the type of the cluster.
Gates == {"api", "version", "identity", "nodes", "capacity", "permissions", "storageClass",
          "provider", "openshift", "nodeImages", "oadpPermissions"}
Demanded(type) ==
  (Gates \ {"provider", "openshift", "nodeImages", "oadpPermissions"})
    \cup CASE type = "cce" -> {"provider"}
           [] type = "openshift" -> {"openshift", "nodeImages", "oadpPermissions"}
           [] OTHER -> {}

ASSUME EnrolmentAssumption ==
  /\ Enrolments \subseteq [helm : BOOLEAN, type : {"native", "cce", "openshift"}, has : [Contexts -> SUBSET Gates],
                           probes : Nat, starts : Nat, cancels : Nat, deletes : Nat, restarts : Nat, faults : Nat]
  /\ {"none", "idle"} \cap Contexts = {} /\ {UploadTTL, TaskLease, LastTime} \subseteq Nat

VARIABLES
  enrolment, \* the cluster, and what is left of the bounds
  now,       \* the time, in quarters of an hour
  upload,    \* cceRegistrationUploads: is the session known, until when, what was inspected
  timers,    \* the times at which expireCCEKubeconfig wakes up
  files,     \* the session directory
  result,    \* inspection-result.json
  probe,     \* inspectCCEKubeconfig in progress
  probeJob,  \* the inspection Job of the session
  enrolTask, \* the cluster-registration task
  starting,  \* startCCEDirectRegistration after the task: create the Job, or fail the task
  jobMade,   \* the Job exists
  executor,  \* where each executor is
  cancel,    \* cancelTask in progress: the status it read
  sweep,     \* the janitor between the tasks and the directories
  stale,     \* an inspection gave up and its result came later (not in the code)
  startLost  \* the Job was created and the answer lost (not in the code)

enrolVars == <<enrolment, now, upload, timers, files, result, probe, probeJob, enrolTask, starting, jobMade,
               executor, cancel, sweep, stale, startLost>>

NoUpload == [known |-> FALSE, expires |-> 0, inspected |-> {}]
NoResult == [context |-> "none", ok |-> FALSE]
Enrolling   == {"queued", "running", "canceling"}
Ended    == {"canceled", "failed", "succeeded"}
Busy     == {"claimed", "preflight", "install", "settle"}
Times    == 0..(LastTime + UploadTTL + TaskLease)

EnrolTypeOK ==
  /\ now \in 0..LastTime /\ upload \in [known : BOOLEAN, expires : Times, inspected : SUBSET Contexts]
  /\ timers \subseteq Times /\ files \subseteq {"kubeconfig", "request"}
  /\ result \in [context : Contexts \cup {"none"}, ok : BOOLEAN] /\ probe \in Contexts \cup {"idle"}
  /\ probeJob \in [at : {"none", "running", "kept"}, context : Contexts \cup {"none"}]
  /\ enrolTask \in [status : Enrolling \cup Ended \cup {"none"}, context : Contexts \cup {"none"}, expires : Times]
  /\ starting \in {"idle", "job", "failing"} /\ jobMade \in BOOLEAN
  /\ executor \in [Executors -> [at : Busy \cup {"idle"}, end : Ended \cup {"none"}]]
  /\ cancel \in Enrolling \cup {"idle"} /\ sweep \in {"idle", "spare", "sweep"} /\ stale \in BOOLEAN /\ startLost \in BOOLEAN

Rested == [at |-> "idle", end |-> "none"]

EnrolInit ==
  /\ enrolment \in Enrolments
  /\ now = 0 /\ upload = NoUpload /\ timers = {} /\ files = {} /\ result = NoResult
  /\ probe = "idle" /\ probeJob = [at |-> "none", context |-> "none"]
  /\ enrolTask = [status |-> "none", context |-> "none", expires |-> 0]
  /\ starting = "idle" /\ jobMade = FALSE /\ executor = [e \in Executors |-> Rested]
  /\ cancel = "idle" /\ sweep = "idle" /\ stale = FALSE /\ startLost = FALSE

Spends(what) == enrolment[what] > 0 /\ enrolment' = [enrolment EXCEPT ![what] = @ - 1]
RemoveAll == files' = {} /\ result' = NoResult
UpdateTaskStatus(status) ==
  enrolTask' = IF enrolTask.status \in Ended THEN enrolTask ELSE [enrolTask EXCEPT !.status = status]

-----------------------------------------------------------------------------
(* Upload and inspection *)

uploadCCEKubeconfig ==
  /\ now = 0 /\ ~upload.known /\ timers = {} /\ files = {} /\ enrolTask.status = "none"
  /\ upload' = [known |-> TRUE, expires |-> UploadTTL, inspected |-> {}]
  /\ timers' = {UploadTTL} /\ files' = {"kubeconfig"}
  /\ UNCHANGED <<enrolment, now, result, probe, probeJob, enrolTask, starting, jobMade, executor, cancel, sweep,
                 stale, startLost>>

Known == upload.known /\ now < upload.expires
inspectCluster(c) == Demanded(enrolment.type) \subseteq enrolment.has[c]

\* The executor service answers the request itself.
InspectByService(c) ==
  /\ ~enrolment.helm /\ Spends("probes") /\ Known /\ inspectCluster(c) /\ "kubeconfig" \in files
  /\ upload' = [upload EXCEPT !.inspected = @ \cup {c}]
  /\ UNCHANGED <<now, timers, files, result, probe, probeJob, enrolTask, starting, jobMade, executor,
                 cancel, sweep, stale, startLost>>

\* A Job named after the session: while one is kept no other can be created.
createRegistrationInspectionJob(c) ==
  /\ enrolment.helm /\ Spends("probes") /\ Known /\ probe = "idle" /\ probeJob.at = "none"
  /\ probe' = c /\ probeJob' = [at |-> "running", context |-> c]
  /\ UNCHANGED <<now, upload, timers, files, result, enrolTask, starting, jobMade, executor, cancel,
                 sweep, stale, startLost>>
runInspectionJob ==
  /\ probeJob.at = "running" /\ probeJob' = [probeJob EXCEPT !.at = "kept"]
  /\ IF files = {} THEN UNCHANGED <<result, stale>>
     ELSE /\ result' = [context |-> probeJob.context, ok |-> inspectCluster(probeJob.context)]
          /\ stale' = (stale \/ probe # probeJob.context)
  /\ UNCHANGED <<enrolment, now, upload, timers, files, probe, enrolTask, starting, jobMade, executor, cancel,
                 sweep, startLost>>
JobIsCollected ==
  /\ probeJob.at = "kept" /\ probeJob' = [at |-> "none", context |-> "none"]
  /\ UNCHANGED <<enrolment, now, upload, timers, files, result, probe, enrolTask, starting, jobMade, executor,
                 cancel, sweep, stale, startLost>>

\* inspectCCEKubeconfig polls for the result, for fifty seconds.
ReadInspection ==
  /\ probe # "idle" /\ result # NoResult /\ probe' = "idle" /\ result' = NoResult
  /\ upload' = IF result.ok /\ upload.known THEN [upload EXCEPT !.inspected = @ \cup {probe}] ELSE upload
  /\ UNCHANGED <<enrolment, now, timers, files, probeJob, enrolTask, starting, jobMade, executor, cancel, sweep,
                 stale, startLost>>
InspectionTimesOut ==
  /\ probe # "idle" /\ result = NoResult /\ probe' = "idle"
  /\ UNCHANGED <<enrolment, now, upload, timers, files, result, probeJob, enrolTask, starting, jobMade, executor,
                 cancel, sweep, stale, startLost>>

-----------------------------------------------------------------------------
(* startCCEDirectRegistration *)

Allowed_Bug(c) == Known /\ upload.inspected # {}
Allowed(c) == Known /\ c \in upload.inspected

\* The lease is extended, the request is written and the task is created; when that fails
\* the request is removed.  A session gives one task.
startCCEDirectRegistration(c) ==
  /\ starting = "idle" /\ enrolTask.status = "none" /\ Allowed(c)
  /\ upload' = [upload EXCEPT !.expires = now + TaskLease] /\ timers' = timers \cup {now + TaskLease}
  /\ \/ /\ Spends("starts") /\ starting' = (IF enrolment.helm THEN "job" ELSE "idle") /\ files' = files \cup {"request"}
        /\ enrolTask' = [status |-> "queued", context |-> c, expires |-> now + TaskLease]
     \/ Spends("faults") /\ UNCHANGED <<starting, files, enrolTask>>
  /\ UNCHANGED <<now, result, probe, probeJob, jobMade, executor, cancel, sweep, stale, startLost>>

\* createRegistrationExecutorJob: an error, which does not say that there is no Job, removes
\* the session and only then fails the task.
createIsolatedRegistrationJob ==
  /\ starting = "job"
  /\ \/ starting' = "idle" /\ jobMade' = TRUE /\ UNCHANGED <<enrolment, upload, files, result, startLost>>
     \/ /\ Spends("faults") /\ starting' = "failing" /\ jobMade' \in BOOLEAN /\ startLost' = jobMade'
        /\ RemoveAll /\ upload' = NoUpload
  /\ UNCHANGED <<now, timers, probe, probeJob, enrolTask, executor, cancel, sweep, stale>>
FailStart ==
  /\ starting = "failing" /\ starting' = "idle" /\ UpdateTaskStatus("failed")
  /\ UNCHANGED <<enrolment, now, upload, timers, files, result, probe, probeJob, jobMade, executor, cancel, sweep,
                 stale, startLost>>

-----------------------------------------------------------------------------
(* The executor *)

MayRun(e) == executor[e].at = "idle" /\ IF enrolment.helm THEN e = 1 /\ jobMade ELSE TRUE
ClaimQueuedTask_Bug(e) ==
  /\ MayRun(e) /\ enrolTask.status \in Enrolling
  /\ enrolTask' = [enrolTask EXCEPT !.status = "running"] /\ executor' = [executor EXCEPT ![e].at = "claimed"]
  /\ UNCHANGED <<enrolment, now, upload, timers, files, result, probe, probeJob, starting, jobMade, cancel, sweep,
                 stale, startLost>>
ClaimQueuedTask(e) ==
  /\ MayRun(e) /\ enrolTask.status = "queued"
  /\ enrolTask' = [enrolTask EXCEPT !.status = "running"] /\ executor' = [executor EXCEPT ![e].at = "claimed"]
  /\ UNCHANGED <<enrolment, now, upload, timers, files, result, probe, probeJob, starting, jobMade, cancel, sweep,
                 stale, startLost>>

Works(e, from, to) == executor[e].at = from /\ executor' = [executor EXCEPT ![e].at = to]
Elsewhere == UNCHANGED <<now, upload, timers, probe, probeJob, starting, jobMade, cancel, sweep, stale, startLost>>

\* A failure is written first, then the session is removed.
FailRun(e) == executor' = [executor EXCEPT ![e] = Rested] /\ UpdateTaskStatus("failed") /\ RemoveAll

\* The request is read, and the status is "running" again, a cancellation that came since
\* the claim included.
ReadRequest(e) ==
  /\ executor[e].at = "claimed"
  /\ IF "request" \notin files THEN FailRun(e)
     ELSE Works(e, "claimed", "preflight") /\ UpdateTaskStatus("running") /\ UNCHANGED <<files, result>>
  /\ UNCHANGED enrolment /\ Elsewhere
downloadInstaller(e) ==
  /\ executor[e].at = "preflight"
  /\ \/ Works(e, "preflight", "install") /\ UNCHANGED <<enrolment, files, result, enrolTask>>
     \/ Spends("faults") /\ FailRun(e)
  /\ Elsewhere

\* registrationProgressWriter: a stage of the installer makes the status "running".
ObserveStage(e) ==
  /\ executor[e].at = "install" /\ enrolTask.status = "canceling" /\ UpdateTaskStatus("running")
  /\ UNCHANGED <<enrolment, files, result, executor>> /\ Elsewhere

\* The installer ends, is terminated because the task is being canceled, or because its
\* time is over or the executor is stopped; the session goes before the end is written.
runInstallProcess(e) ==
  /\ executor[e].at = "install" /\ RemoveAll
  /\ \E end \in {"succeeded", "failed"} \cup IF enrolTask.status = "canceling" THEN {"canceled"} ELSE {} :
       executor' = [executor EXCEPT ![e] = [at |-> "settle", end |-> end]]
  /\ UNCHANGED <<enrolment, enrolTask>> /\ Elsewhere
SettleRun(e) ==
  /\ executor[e].at = "settle" /\ UpdateTaskStatus(executor[e].end)
  /\ executor' = [executor EXCEPT ![e] = Rested]
  /\ UNCHANGED <<enrolment, files, result>> /\ Elsewhere

\* A service begins again with the next queued task, a Job does not begin again.
ExecutorDies(e) ==
  /\ executor[e].at \in Busy /\ Spends("faults")
  /\ executor' = [executor EXCEPT ![e] = Rested]
  /\ UNCHANGED <<files, result, enrolTask>> /\ Elsewhere

RunRegistration(e) ==
  ClaimQueuedTask(e) \/ ReadRequest(e) \/ downloadInstaller(e) \/ runInstallProcess(e) \/ SettleRun(e)

-----------------------------------------------------------------------------
(* Cancellation and removal *)

BeginCancel ==
  /\ cancel = "idle" /\ enrolTask.status \in {"queued", "running"} /\ Spends("cancels")
  /\ cancel' = enrolTask.status
  /\ UNCHANGED <<now, upload, timers, files, result, probe, probeJob, enrolTask, starting, jobMade, executor, sweep,
                 stale, startLost>>
\* A task that was queued is canceled and its upload removed; another is "canceling".
cancelTask ==
  /\ cancel # "idle" /\ cancel' = "idle"
  /\ IF cancel = "queued"
     THEN /\ UpdateTaskStatus("canceled") /\ upload' = NoUpload
          /\ IF upload.known THEN RemoveAll ELSE UNCHANGED <<files, result>>
     ELSE UpdateTaskStatus("canceling") /\ UNCHANGED <<upload, files, result>>
  /\ UNCHANGED <<enrolment, now, timers, probe, probeJob, starting, jobMade, executor, sweep, stale, startLost>>

deleteCCEKubeconfig ==
  /\ upload.known /\ enrolTask.status \notin Enrolling /\ starting = "idle" /\ Spends("deletes")
  /\ upload' = NoUpload /\ RemoveAll
  /\ UNCHANGED <<now, timers, probe, probeJob, enrolTask, starting, jobMade, executor, cancel, sweep, stale, startLost>>

\* A timer wakes up; the lease may have been extended since it was set.
expireCCEKubeconfig_Bug(t) ==
  /\ t \in timers /\ t <= now /\ timers' = timers \ {t}
  /\ upload' = NoUpload /\ RemoveAll
  /\ UNCHANGED <<enrolment, now, probe, probeJob, enrolTask, starting, jobMade, executor, cancel, sweep, stale, startLost>>
expireCCEKubeconfig(t) ==
  /\ t \in timers /\ t <= now /\ timers' = timers \ {t}
  /\ IF upload.known /\ upload.expires <= now THEN upload' = NoUpload /\ RemoveAll ELSE UNCHANGED <<upload, files, result>>
  /\ UNCHANGED <<enrolment, now, probe, probeJob, enrolTask, starting, jobMade, executor, cancel, sweep, stale, startLost>>

\* The janitor: active tasks spare their session until their credential expires, and then
\* fail; directories that memory does not know go when the kubeconfig is old.
FailExpired_Bug == IF enrolTask.status = "queued" THEN UpdateTaskStatus("failed") ELSE UNCHANGED enrolTask
FailExpired == UpdateTaskStatus("failed")
ListRegistrationTasks ==
  /\ sweep = "idle" /\ (files # {} \/ enrolTask.status \in Enrolling)
  /\ IF enrolTask.status \in Enrolling
     THEN IF now < enrolTask.expires THEN sweep' = "spare" /\ UNCHANGED enrolTask
                                     ELSE sweep' = "sweep" /\ FailExpired
     ELSE sweep' = "sweep" /\ UNCHANGED enrolTask
  /\ UNCHANGED <<enrolment, now, upload, timers, files, result, probe, probeJob, starting, jobMade, executor, cancel,
                 stale, startLost>>
Orphaned_Bug == upload.known /\ upload.expires <= now
Orphaned == ~(upload.known /\ now < upload.expires) /\ now >= UploadTTL
cleanupOrphanedCCEKubeconfigs ==
  /\ sweep # "idle" /\ sweep' = "idle"
  /\ IF sweep = "sweep" /\ Orphaned THEN RemoveAll ELSE UNCHANGED <<files, result>>
  /\ UNCHANGED <<enrolment, now, upload, timers, probe, probeJob, enrolTask, starting, jobMade, executor, cancel,
                 stale, startLost>>
Janitor == ListRegistrationTasks \/ cleanupOrphanedCCEKubeconfigs

\* Memory, timers and the handlers in progress are lost.
RestartAPI ==
  /\ Spends("restarts")
  /\ upload' = NoUpload /\ timers' = {} /\ probe' = "idle" /\ starting' = "idle" /\ cancel' = "idle" /\ sweep' = "idle"
  /\ UNCHANGED <<now, files, result, probeJob, enrolTask, jobMade, executor, stale, startLost>>

TimePasses ==
  /\ now < LastTime /\ now' = now + 1
  /\ UNCHANGED <<enrolment, upload, timers, files, result, probe, probeJob, enrolTask, starting, jobMade, executor,
                 cancel, sweep, stale, startLost>>

EnrolNext ==
  \/ uploadCCEKubeconfig \/ runInspectionJob \/ JobIsCollected \/ ReadInspection \/ InspectionTimesOut
  \/ \E c \in Contexts : InspectByService(c) \/ createRegistrationInspectionJob(c) \/ startCCEDirectRegistration(c)
  \/ createIsolatedRegistrationJob \/ FailStart
  \/ \E e \in Executors : RunRegistration(e) \/ ObserveStage(e) \/ ExecutorDies(e)
  \/ BeginCancel \/ cancelTask \/ deleteCCEKubeconfig \/ (\E t \in timers : expireCCEKubeconfig(t))
  \/ Janitor \/ RestartAPI \/ TimePasses

\* The janitor's ticker and the clock go on.
EnrolFairness == WF_enrolVars(Janitor) /\ WF_enrolVars(TimePasses)
EnrolSpec == EnrolInit /\ [][EnrolNext]_enrolVars /\ EnrolFairness

-----------------------------------------------------------------------------
(* Properties *)

\* While an installer runs whose task has not ended, and until the lease of its credential
\* is over, the kubeconfig it uses is there: no timer set for the upload, no janitor's pass
\* begun before the task, no deletion and no restart of the API takes it away.  Not so when
\* the creation of its Job succeeded and was taken for a failure.
InstallHasCredential ==
  \A e \in Executors :
    executor[e].at \in {"preflight", "install"} /\ enrolTask.status \in Enrolling /\ now < enrolTask.expires /\ ~startLost
      => "kubeconfig" \in files

\* One task is run by one executor, which also holds after an executor died.
OneInstaller == \A e, f \in Executors : executor[e].at \in Busy /\ executor[f].at \in Busy => e = f

\* A context is registered after an inspection of this context has passed all its gates,
\* unless the result of an inspection that had timed out was read as that of a later one.
OnlyInspected == enrolTask.status # "none" /\ ~stale => inspectCluster(enrolTask.context)

\* A task ends, although its Job was never created, its executor died or the API restarted.
RegistrationEnds == (enrolTask.status \in Enrolling) ~> (enrolTask.status \in Ended)

\* "Expired on-disk kubeconfigs are removed", also those that no memory knows any more.
CredentialGoes == ("kubeconfig" \in files) ~> (files = {})

\* An inspected context is installed by one executor that has its credential.
EnrolmentSafety == EnrolTypeOK /\ InstallHasCredential /\ OneInstaller /\ OnlyInspected
=============================================================================
