--------------------------- MODULE ProtectionCleanup ---------------------------
(***************************************************************************)
(* The agents' side of the cleanup of a protection plan.  The source's     *)
(* agent deletes backups through Velero, then the schedule, what else      *)
(* bears the plan's name, and the plan's objects in the object store; at   *)
(* the same time the target's agent deletes the copies that Velero synced  *)
(* there; a third task deletes what drills left.  Any step may fail and    *)
(* end the task, the command may come twice, and the platform may repeat a *)
(* cleanup it gave up waiting for.                                         *)
(***************************************************************************)
EXTENDS Integers, Sequences, Functions

CONSTANT Cleanings   \* the histories to look at

Clusters == {"source", "target"}
Modes    == Clusters \cup {"drill"}
Turns     == 1..2                      \* tasks, or deliveries, of one mode
PlanBackups  == {"b1", "b2", "x"}         \* x has the plan's prefix but is no restore point
BackupPoints == <<"b1", "b2">>
Artifacts == PlanBackups \cup {"restore", "transfer", "download"}
Spaces   == {"app-drill", "app", "agent", ""}   \* a drill's, the source's, the agent's, none

\* A cleaning has the steps that may fail, the platform's impatience, a second delivery,
\* and the namespaces a drill's cleanup is told.
ASSUME CleaningAssumption ==
  Cleanings \subseteq [modes : SUBSET Modes, faults : Nat, gives : Nat, twice : BOOLEAN, spaces : Seq(Spaces)]

VARIABLES
  cleaning,  \* what is left of the bounds
  held,      \* the plan's resources in each cluster
  objects,   \* the plan's objects in the store; "kopia" is its namespaces' repository
  asked,     \* DeleteBackupRequests that Velero has not carried out
  spaces,    \* namespaces that exist
  task,      \* for each mode and go: the next step, or how it ended
  believed,  \* what the platform knows of each mode's latest task
  renewed    \* the namespaces' data of a plan created after this one was removed

cleanVars == <<cleaning, held, objects, asked, spaces, task, believed, renewed>>

Open == {"off", "gone", "silent", "failed", "completed"}    \* every other value is a step
CleaningSteps(m) == CASE m = "source" -> <<"point1", "wait1", "point2", "wait2", "schedule", "prefix", "repository",
                                   "backupObjects", "restoreObjects", "kopia", "report">>
              [] m = "target" -> <<"names", "prefix", "repository", "report">>
              [] m = "drill"  -> <<"restores", "spaces", "report">>

CleaningTypeOK ==
  /\ held \in [Clusters -> SUBSET (Artifacts \cup {"repository", "schedule"})]
  /\ objects \subseteq PlanBackups \cup {"restore", "kopia"} /\ asked \subseteq PlanBackups /\ spaces \subseteq Spaces
  /\ \A m \in Modes, g \in Turns : task[m][g] \in Open \cup Range(CleaningSteps(m))
  /\ believed \in [Modes -> {"running", "failed", "completed"}] /\ renewed \in BOOLEAN

CleaningInit ==
  /\ cleaning \in Cleanings
  /\ held = [c \in Clusters |-> Artifacts \cup {"repository"} \cup IF c = "source" THEN {"schedule"} ELSE {}]
  /\ objects = PlanBackups \cup {"restore", "kopia"} /\ asked = {} /\ spaces = Spaces \ {""}
  /\ task = [m \in Modes |-> [g \in Turns |-> IF g = 1 /\ m \in cleaning.modes THEN CleaningSteps(m)[1] ELSE "off"]]
  /\ believed = [m \in Modes |-> IF m \in cleaning.modes THEN "running" ELSE "completed"]
  /\ renewed = FALSE

-----------------------------------------------------------------------------
(* A step of a task *)

At(m, g, step) == task[m][g] = step
After(m, step) == LET s == CleaningSteps(m) IN s[(CHOOSE i \in 1..Len(s) : s[i] = step) + 1]
CleansOn(m, g, step) == task' = [task EXCEPT ![m][g] = step]
Done(m, g) == CleansOn(m, g, After(m, task[m][g]))
CallFails == cleaning.faults > 0 /\ cleaning' = [cleaning EXCEPT !.faults = @ - 1]
Fine == UNCHANGED cleaning
Fail(m, g) == CallFails /\ CleansOn(m, g, "failed")

\* A DeleteBackupRequest for each restore point; Velero removes data and Backup.
DeletePoint(g, k) ==
  /\ At("source", g, IF k = 1 THEN "point1" ELSE "point2")
  /\ \/ Fine /\ asked' = asked \cup {BackupPoints[k]} /\ Done("source", g)
     \/ Fail("source", g) /\ UNCHANGED asked
  /\ UNCHANGED <<held, objects, spaces, believed, renewed>>

\* WaitForVeleroBackupDeleted; progress that cannot be sent ends the run without a report.
WaitPoint(g, k) ==
  /\ At("source", g, IF k = 1 THEN "wait1" ELSE "wait2")
  /\ \/ Fine /\ BackupPoints[k] \notin held["source"] /\ Done("source", g)
     \/ Fail("source", g)
     \/ BackupPoints[k] \notin held["source"] /\ CallFails /\ CleansOn("source", g, "silent")
  /\ UNCHANGED <<held, objects, asked, spaces, believed, renewed>>

VeleroDeletesBackup(b) ==
  /\ b \in asked /\ asked' = asked \ {b}
  /\ held' = [held EXCEPT !["source"] = @ \ {b}] /\ objects' = objects \ {b}
  /\ UNCHANGED <<cleaning, spaces, task, believed, renewed>>

\* Velero brings the store's backups to each cluster, and drops Backups that lost their objects.
VeleroSyncs(c, b) ==
  /\ held' = [held EXCEPT ![c] = IF b \in objects THEN @ \cup {b} ELSE @ \ {b}] /\ held' # held
  /\ UNCHANGED <<cleaning, objects, asked, spaces, task, believed, renewed>>

DeleteSchedule(g) ==
  /\ At("source", g, "schedule")
  /\ \/ Fine /\ held' = [held EXCEPT !["source"] = @ \ {"schedule"}] /\ Done("source", g)
     \/ Fail("source", g) /\ UNCHANGED held
     \/ CallFails /\ held' = [held EXCEPT !["source"] = @ \ {"schedule"}] /\ CleansOn("source", g, "silent")
  /\ UNCHANGED <<objects, asked, spaces, believed, renewed>>

\* DeleteVeleroBackupArtifacts: Restores, the transfers of backups, and Backups, in this
\* order, then the downloads of the Restores that this call found; an error stops it.
Kinds(names) == <<{"restore"}, {"transfer"}, names>>
Removed(c, names, n) == held[c] \ UNION {Kinds(names)[i] : i \in 1..n}
DeleteVeleroBackupArtifacts(m, g, names) ==
  \/ /\ Fine /\ Done(m, g)
     /\ held' = [held EXCEPT ![m] = Removed(m, names, 3) \ IF "restore" \in held[m] THEN {"download"} ELSE {}]
  \/ /\ Fail(m, g)
     /\ \E n \in 0..3 : held' = [held EXCEPT ![m] = Removed(m, names, n)]

\* The restore points by name, at the target only; then whatever has the plan's prefix.
DeleteByName(g) ==
  /\ At("target", g, "names") /\ DeleteVeleroBackupArtifacts("target", g, Range(BackupPoints))
  /\ UNCHANGED <<objects, asked, spaces, believed, renewed>>
DeleteByPrefix(m, g) ==
  /\ At(m, g, "prefix")
  /\ IF held[m] \cap PlanBackups = {} THEN Fine /\ Done(m, g) /\ UNCHANGED held
     ELSE DeleteVeleroBackupArtifacts(m, g, held[m] \cap PlanBackups)
  /\ UNCHANGED <<objects, asked, spaces, believed, renewed>>

DeleteBackupRepositories(m, g) ==
  /\ At(m, g, "repository")
  /\ \/ Fine /\ held' = [held EXCEPT ![m] = @ \ {"repository"}] /\ Done(m, g)
     \/ Fail(m, g) /\ UNCHANGED held
  /\ UNCHANGED <<objects, asked, spaces, believed, renewed>>

\* Each removes the objects under a prefix one by one; an error leaves the rest of them.
Purge(g, step, which) ==
  /\ At("source", g, step)
  /\ \/ Fine /\ objects' = objects \ which /\ Done("source", g)
     \/ Fail("source", g) /\ \E left \in SUBSET (objects \cap which) : objects' = (objects \ which) \cup left
  /\ UNCHANGED <<held, asked, spaces, believed>>
DeleteBackupObjectsByNamePrefix_Bug(g) == Purge(g, "backupObjects", Range(BackupPoints)) /\ UNCHANGED renewed
DeleteBackupObjectsByNamePrefix(g) == Purge(g, "backupObjects", PlanBackups) /\ UNCHANGED renewed
\* retryProtectionCleanup repeats it while the API is unreachable: no fault of its own.
DeleteRestoreObjects(g) == Purge(g, "restoreObjects", {"restore"}) /\ UNCHANGED renewed
\* The repository of the namespaces: whatever plan its data belong to.
DeleteKopiaRepositories(g) ==
  Purge(g, "kopia", {"kopia"}) /\ renewed' = FALSE

\* The Restores of drills, then their namespaces; the first that is none of a drill ends it.
\* A command that names no namespace is refused.
DeleteDrillRestores(g) ==
  /\ At("drill", g, "restores")
  /\ \/ cleaning.spaces = <<>> /\ Fine /\ CleansOn("drill", g, "failed") /\ UNCHANGED held
     \/ /\ cleaning.spaces # <<>> /\ Fine /\ Done("drill", g)
        /\ held' = [held EXCEPT !["target"] = @ \ {"restore"}]
     \/ Fail("drill", g) /\ UNCHANGED held
  /\ UNCHANGED <<objects, asked, spaces, believed, renewed>>
Unsafe_Bug(n) == n = ""
Unsafe(n) == n \in {"", "agent", "app"}
DeleteDrillNamespaces(g) ==
  LET told == cleaning.spaces
      bad == {i \in 1..Len(told) : Unsafe(told[i])}
      reach(n) == {told[i] : i \in 1..n}
  IN /\ At("drill", g, "spaces")
     /\ \/ /\ Fine /\ bad = {} /\ spaces' = spaces \ Range(told) /\ Done("drill", g)
        \/ /\ Fine /\ CleansOn("drill", g, "failed")
           /\ \E i \in bad : (\A j \in 1..(i - 1) : j \notin bad) /\ spaces' = spaces \ reach(i - 1)
        \/ /\ Fail("drill", g)
           /\ \E n \in 0..(Len(told) - 1) : (\A i \in 1..n : i \notin bad) /\ spaces' = spaces \ reach(n)
     /\ UNCHANGED <<held, objects, asked, believed, renewed>>

ReportCleanup_Bug(m, g) ==
  /\ task[m][g] \in {"failed", "report", "kopia"}
  /\ believed' = [believed EXCEPT ![m] = IF At(m, g, "failed") THEN "failed" ELSE "completed"]
  /\ CleansOn(m, g, IF At(m, g, "kopia") THEN "kopia" ELSE IF At(m, g, "failed") THEN "gone" ELSE "completed")
  /\ Fine /\ UNCHANGED <<held, objects, asked, spaces, renewed>>
ReportCleanup(m, g) ==
  /\ task[m][g] \in {"failed", "report"}
  /\ believed' = [believed EXCEPT ![m] = IF At(m, g, "failed") THEN "failed" ELSE "completed"]
  /\ CleansOn(m, g, IF At(m, g, "failed") THEN "gone" ELSE "completed")
  /\ Fine /\ UNCHANGED <<held, objects, asked, spaces, renewed>>

executeProtectionCleanupTask(g) ==
  \/ \E k \in 1..2 : DeletePoint(g, k) \/ WaitPoint(g, k)
  \/ DeleteSchedule(g) \/ DeleteByName(g)
  \/ \E m \in Clusters : DeleteByPrefix(m, g) \/ DeleteBackupRepositories(m, g)
  \/ DeleteBackupObjectsByNamePrefix(g) \/ DeleteRestoreObjects(g) \/ DeleteKopiaRepositories(g)
  \/ DeleteDrillRestores(g) \/ DeleteDrillNamespaces(g)
  \/ \E m \in Modes : ReportCleanup(m, g)

-----------------------------------------------------------------------------
(* The platform *)

Working(m, g) == task[m][g] \notin Open \ {"failed"}

\* A failed mode is cleaned again; a command that was accepted may be delivered again; and
\* the platform gives up a cleanup after ten minutes.
CleanAgain(m) ==
  /\ task[m][2] = "off" /\ task[m][1] # "off"
  /\ \/ believed[m] = "failed" /\ Fine
     \/ cleaning.twice /\ believed[m] = "running" /\ Fine
     \/ /\ cleaning.gives > 0 /\ believed[m] = "running"
        /\ cleaning' = [cleaning EXCEPT !.gives = 0]
  /\ task' = [task EXCEPT ![m][2] = CleaningSteps(m)[1]]
  /\ believed' = [believed EXCEPT ![m] = "running"]
  /\ UNCHANGED <<held, objects, asked, spaces, renewed>>

\* The plan is removed when its source and its target are clean; another plan then backs
\* the namespaces up to the same repository.
Renew ==
  /\ ~renewed /\ \A c \in Clusters : believed[c] = "completed" /\ c \in cleaning.modes
  /\ renewed' = TRUE /\ UNCHANGED <<cleaning, held, objects, asked, spaces, task, believed>>

CleaningNext ==
  \/ \E g \in Turns : executeProtectionCleanupTask(g)
  \/ \E b \in PlanBackups : VeleroDeletesBackup(b) \/ \E c \in Clusters : VeleroSyncs(c, b)
  \/ (\E m \in Modes : CleanAgain(m)) \/ Renew

CleaningSpec == CleaningInit /\ [][CleaningNext]_cleanVars

-----------------------------------------------------------------------------
(* Properties *)

\* When the source's task reports success nothing of the plan is left in the object store,
\* nor its schedule and repository in the cluster, whatever failed before and whichever
\* part of it an earlier or a second run had already done.
CleanedIsGone ==
  believed["source"] = "completed" /\ "source" \in cleaning.modes
    => objects = {} /\ held["source"] \cap {"schedule", "repository"} = {}

\* The data of a plan that came after this one are not touched by its cleanup, unless a run
\* is still at work that the platform no longer waits for.
RenewedIsKept ==
  [][renewed => renewed' \/ \E g \in Turns : Working("source", g) /\ \E h \in Turns \ {g} : task["source"][h] = "completed"]_cleanVars

\* The cleanup of drills never removes the application's or the agent's namespace,
\* whichever place of the list it has and whatever failed before.
DrillStaysInside == {"app", "agent"} \subseteq spaces

\* A cleanup removes all that it reports as removed, and no namespace of others.
CleaningSafety == CleaningTypeOK /\ CleanedIsGone /\ DrillStaysInside
=============================================================================
