----------------------------- MODULE PlatformProofs ----------------------------
(***************************************************************************)
(* Proofs about three parts of the control plane that share no state.      *)
(*                                                                         *)
(* The safety of platform upgrades, for every number of releases, requests *)
(* and jobs and every history.  The inductive invariant says, for every    *)
(* step of the upgrader, which release each of the places that must agree  *)
(* in the end has at that step.                                            *)
(*                                                                         *)
(* Accounts keep an administrator beside them, for every number of         *)
(* addresses, organizations and links and every history: the invariant is  *)
(* that an organization has an active administrator as soon as it has a    *)
(* member or a pending invitation of an operator.                          *)
(*                                                                         *)
(* An agent that is handed over can return until the handover is           *)
(* committed, for any number of stops, failures, drops and repetitions:    *)
(* the invariant tells by the connection and the deadline which goroutines *)
(* can be at work together.                                                *)
(***************************************************************************)
EXTENDS PlatformUpgrade, Organizations, ControlPlaneHandover, TLAPS

Steps == {"backup", "pull", "write", "api", "health", "executor", "frontend", "verify", "manifest",
          "activate", "close", "rollback", "restart", "fail"}

\* PlatformTypeOK, with the steps of the upgrader.
PlatformTypes ==
  /\ PlatformTypeOK
  /\ worker \in [job : Jobs \cup {0}, at : Steps \cup {"idle"}, old : Releases]
  /\ replacing \in BOOLEAN /\ tick \in BOOLEAN /\ active \in BOOLEAN

\* The upgrader works on a job of its own that is open (TakeJob).
WorkIsOpen == worker = Off \/ (worker.job \in Jobs /\ job[worker.job].status = "open" /\ worker.at \in Steps)

\* A job that is open beside no task had no tick before it either (LookAtJobs).
JobsExcludeTicks == "overlap" \in faulted \/ (\A j \in Jobs : ~Open(j)) \/ (~tick /\ ~active)

\* Every place has the release the upgrader found, or the environment file's.
Everywhere(r) == (\A s \in Services : runs[s] = r) /\ catalog[r] = "active" /\ (manifest = r \/ "file" \in faulted)
Found == catalog[worker.old] = "active" /\ (manifest = worker.old \/ "file" \in faulted)
Target == job[worker.job].release

\* What has which release at each step of the upgrader (run).
Progress ==
  /\ worker.at \in {"idle", "backup", "pull", "write", "fail"} => Everywhere(envFile)
  /\ worker.at \in {"backup", "pull", "write"} => worker.old = envFile
  /\ worker.at \in {"api", "health", "executor", "frontend", "verify", "manifest", "activate"} =>
       envFile = Target /\ catalog[worker.old] = "active"
  /\ worker.at \in {"api", "health", "executor", "frontend", "verify", "manifest", "rollback", "restart"} => Found
  /\ worker.at \in {"health", "executor", "frontend", "verify", "manifest", "activate", "close"} => runs["api"] = envFile
  /\ worker.at \in {"frontend", "verify", "manifest", "activate", "close"} => runs["executor"] = envFile
  /\ worker.at \in {"verify", "manifest", "activate", "close"} => runs["frontend"] = envFile
  /\ worker.at \in {"activate", "close"} => manifest = envFile
  /\ worker.at = "close" => catalog[envFile] = "active"
  /\ worker.at = "restart" => envFile = worker.old

Repaired == faulted \cap {"stopped", "unrestored"} = {}

PlatformInv ==
  PlatformTypes /\ OneUpgrade /\ WorkIsOpen /\ JobsExcludeTicks /\ (Repaired => Progress)

-----------------------------------------------------------------------------
(* Types, jobs and ticks *)

\* Restart keeps the types, and leaves no tick but the one there was.
LEMMA RestartType ==
  ASSUME PlatformTypes, NEW s \in SUBSET Services, Restart(s)
  PROVE  /\ runs' \in [Services -> Releases] /\ (tick' = tick \/ tick' = FALSE)
         /\ admin' \in [Admins -> [at : {"idle", "checked", "none"}, release : Releases]]
BY DEF PlatformTypes, PlatformTypeOK, Restart, Services

\* Every step keeps the types.
LEMMA PlatformTypeStep ==
  ASSUME PlatformTypes, WorkIsOpen, PlatformNext PROVE PlatformTypes'
<1> USE DEF PlatformTypes, PlatformTypeOK, Steps, Terminal, Releases
<1>1. ASSUME NEW r \in Targets, createPlatformRelease(r) PROVE PlatformTypes'
  BY <1>1 DEF createPlatformRelease
<1>2. ASSUME NEW a \in Admins, NEW r \in Releases, CheckUpgrade(a, r) PROVE PlatformTypes'
  BY <1>2 DEF CheckUpgrade
<1>3. ASSUME NEW a \in Admins, NEW j \in Jobs, CreatePlatformUpgradeJob(a, j) PROVE PlatformTypes'
  BY <1>3 DEF CreatePlatformUpgradeJob, NextJob
<1>4. ASSUME NEW j \in Jobs, TakeJob(j) PROVE PlatformTypes'
  <2>1. job[j] \in [status : Terminal \cup {"none", "queued", "open"}, release : Releases]
    OBVIOUS
  <2>2. \A st \in {"open", "failed"} : [job[j] EXCEPT !.status = st] \in [status : Terminal \cup {"none", "queued", "open"}, release : Releases]
    BY <2>1, Zenon
  <2>3. job' \in [Jobs -> [status : Terminal \cup {"none", "queued", "open"}, release : Releases]]
    BY <1>4, <2>2, ZenonT(60) DEF TakeJob
  <2> QED
    BY <1>4, <2>3 DEF TakeJob
<1>5. ASSUME NEW i \in {"backup", "pull"}, NEW n \in {"pull", "write"}, PrepareStep(i, n) PROVE PlatformTypes'
  BY <1>5 DEF PrepareStep, At, WorksOn
<1>6. ASSUME writeEnv PROVE PlatformTypes'
  BY <1>6 DEF writeEnv, At, WorksOn, WorkIsOpen, Off
<1>7. ASSUME NEW i \in Services, NEW n \in {"health", "frontend", "verify"}, Switch(i, n) PROVE PlatformTypes'
  <2>1. runs' \in [Services -> Releases] /\ tick' \in BOOLEAN
        /\ admin' \in [Admins -> [at : {"idle", "checked", "none"}, release : Releases]]
    <3>1. PICK s \in SUBSET Services : Restart(s)
      BY <1>7, Zenon DEF Switch
    <3> QED
      BY <3>1, RestartType, Zenon
  <2> QED
    BY <1>7, <2>1 DEF Switch, At, WorksOn
<1>8. ASSUME NEW i \in {"health", "verify"}, NEW n \in {"executor", "manifest"}, waitHealth(i, n) PROVE PlatformTypes'
  BY <1>8 DEF waitHealth, At, WorksOn
<1>9. ASSUME activateLocalManifest PROVE PlatformTypes'
  BY <1>9 DEF activateLocalManifest, At, WorksOn, WorkIsOpen, Off
<1>10. ASSUME ActivatePlatformRelease PROVE PlatformTypes'
  BY <1>10 DEF ActivatePlatformRelease, At, WorksOn
<1>11. ASSUME Succeed PROVE PlatformTypes'
  BY <1>11 DEF Succeed, UpdatePlatformUpgradeJob, At, Off
<1>12. ASSUME RestoreEnv PROVE PlatformTypes'
  BY <1>12, Zenon DEF RestoreEnv, At, WorksOn
<1>13. ASSUME RestartServices PROVE PlatformTypes'
  <2>1. runs' \in [Services -> Releases] /\ tick' \in BOOLEAN
        /\ admin' \in [Admins -> [at : {"idle", "checked", "none"}, release : Releases]]
    <3>1. PICK s \in SUBSET Services : Restart(s)
      BY <1>13, Zenon DEF RestartServices
    <3> QED
      BY <3>1, RestartType, Zenon
  <2> QED
    BY <1>13, <2>1, Zenon DEF RestartServices, At, WorksOn
<1>14. ASSUME FailJob PROVE PlatformTypes'
  BY <1>14 DEF FailJob, UpdatePlatformUpgradeJob, At, Off
<1>15. ASSUME StopUpgrader PROVE PlatformTypes'
  BY <1>15, Zenon DEF StopUpgrader, Off
<1>16. ASSUME LookAtJobs PROVE PlatformTypes'
  BY <1>16 DEF LookAtJobs
<1>17. ASSUME FireSchedule PROVE PlatformTypes'
  BY <1>17, ZenonT(60) DEF FireSchedule
<1>18. ASSUME TenantTaskEnds PROVE PlatformTypes'
  BY <1>18, ZenonT(60) DEF TenantTaskEnds
<1> HIDE DEF PlatformTypes, PlatformTypeOK
<1> QED
  BY <1>1, <1>2, <1>3, <1>4, <1>5, <1>6, <1>7, <1>8, <1>9, <1>10, <1>11, <1>12, <1>13, <1>14, <1>15, <1>16, <1>17, <1>18, Zenon DEF PlatformNext, Upgrade, Services

-----------------------------------------------------------------------------
(* Jobs, ticks, and the releases at every step *)

\* A job is open for one upgrade, the upgrader's own (the index of the insert, TakeJob).
LEMMA JobsStep ==
  ASSUME PlatformTypes, OneUpgrade, WorkIsOpen, PlatformNext
  PROVE  OneUpgrade' /\ WorkIsOpen'
<1> USE DEF PlatformTypes, PlatformTypeOK, Open, OneUpgrade, WorkIsOpen, Off, Steps, Terminal
<1>1. ASSUME NEW r \in Targets, createPlatformRelease(r) PROVE OneUpgrade' /\ WorkIsOpen'
  BY <1>1, Zenon DEF createPlatformRelease
<1>2. ASSUME NEW a \in Admins, NEW r \in Releases, CheckUpgrade(a, r) PROVE OneUpgrade' /\ WorkIsOpen'
  BY <1>2, Zenon DEF CheckUpgrade
<1>3. ASSUME NEW a \in Admins, NEW j \in Jobs, CreatePlatformUpgradeJob(a, j) PROVE OneUpgrade' /\ WorkIsOpen'
  BY <1>3, ZenonT(60) DEF CreatePlatformUpgradeJob, NextJob
<1>4. ASSUME NEW j \in Jobs, TakeJob(j) PROVE OneUpgrade' /\ WorkIsOpen'
  <2>1. \A i \in Jobs : i # j => job'[i] = job[i]
    BY <1>4, Zenon DEF TakeJob
  <2>2. job[j].status = "queued" /\ job'[j].status \in {"open", "failed"}
    BY <1>4 DEF TakeJob
  <2>3. OneUpgrade'
    BY <2>1, <2>2, ZenonT(60)
  <2>4. worker' = worker \/ (worker'.job = j /\ worker'.at = "backup" /\ job'[j].status = "open")
    BY <1>4 DEF TakeJob
  <2> QED
    BY <1>4, <2>3, <2>4, Zenon DEF TakeJob
<1>5. ASSUME NEW i \in {"backup", "pull"}, NEW n \in {"pull", "write"}, PrepareStep(i, n) PROVE OneUpgrade' /\ WorkIsOpen'
  BY <1>5 DEF PrepareStep, At, WorksOn
<1>6. ASSUME writeEnv PROVE OneUpgrade' /\ WorkIsOpen'
  BY <1>6 DEF writeEnv, At, WorksOn
<1>7. ASSUME NEW i \in Services, NEW n \in {"health", "frontend", "verify"}, Switch(i, n) PROVE OneUpgrade' /\ WorkIsOpen'
  BY <1>7 DEF Switch, At, WorksOn, Services
<1>8. ASSUME NEW i \in {"health", "verify"}, NEW n \in {"executor", "manifest"}, waitHealth(i, n) PROVE OneUpgrade' /\ WorkIsOpen'
  BY <1>8 DEF waitHealth, At, WorksOn
<1>9. ASSUME activateLocalManifest PROVE OneUpgrade' /\ WorkIsOpen'
  BY <1>9 DEF activateLocalManifest, At, WorksOn
<1>10. ASSUME ActivatePlatformRelease PROVE OneUpgrade' /\ WorkIsOpen'
  BY <1>10 DEF ActivatePlatformRelease, At, WorksOn
<1>11. ASSUME Succeed PROVE OneUpgrade' /\ WorkIsOpen'
  BY <1>11 DEF Succeed, UpdatePlatformUpgradeJob, At
<1>12. ASSUME RestoreEnv PROVE OneUpgrade' /\ WorkIsOpen'
  BY <1>12 DEF RestoreEnv, At, WorksOn
<1>13. ASSUME RestartServices PROVE OneUpgrade' /\ WorkIsOpen'
  BY <1>13 DEF RestartServices, At, WorksOn, Restart
<1>14. ASSUME FailJob PROVE OneUpgrade' /\ WorkIsOpen'
  BY <1>14 DEF FailJob, UpdatePlatformUpgradeJob, At
<1>15. ASSUME StopUpgrader PROVE OneUpgrade' /\ WorkIsOpen'
  BY <1>15, Zenon DEF StopUpgrader
<1>16. ASSUME LookAtJobs PROVE OneUpgrade' /\ WorkIsOpen'
  BY <1>16, Zenon DEF LookAtJobs
<1>17. ASSUME FireSchedule PROVE OneUpgrade' /\ WorkIsOpen'
  BY <1>17, Zenon DEF FireSchedule
<1>18. ASSUME TenantTaskEnds PROVE OneUpgrade' /\ WorkIsOpen'
  BY <1>18, Zenon DEF TenantTaskEnds
<1> HIDE DEF PlatformTypes, PlatformTypeOK, OneUpgrade, WorkIsOpen
<1> QED
  BY <1>1, <1>2, <1>3, <1>4, <1>5, <1>6, <1>7, <1>8, <1>9, <1>10, <1>11, <1>12, <1>13, <1>14, <1>15, <1>16, <1>17, <1>18
 , Zenon DEF PlatformNext, Upgrade, Services

\* No tick and no task meets a job it did not overlap at its creation (LookAtJobs).
LEMMA TicksStep ==
  ASSUME PlatformTypes, WorkIsOpen, JobsExcludeTicks, PlatformNext
  PROVE  JobsExcludeTicks'
<1> USE DEF PlatformTypes, PlatformTypeOK, Open, WorkIsOpen, JobsExcludeTicks, Off, Steps, Terminal
<1>1. ASSUME NEW r \in Targets, createPlatformRelease(r) PROVE JobsExcludeTicks'
  BY <1>1, Zenon DEF createPlatformRelease
<1>2. ASSUME NEW a \in Admins, NEW r \in Releases, CheckUpgrade(a, r) PROVE JobsExcludeTicks'
  BY <1>2, Zenon DEF CheckUpgrade
<1>3. ASSUME NEW a \in Admins, NEW j \in Jobs, CreatePlatformUpgradeJob(a, j) PROVE JobsExcludeTicks'
  BY <1>3, Zenon DEF CreatePlatformUpgradeJob, NextJob
<1>4. ASSUME NEW j \in Jobs, TakeJob(j) PROVE JobsExcludeTicks'
  BY <1>4, Zenon DEF TakeJob
<1>5. ASSUME NEW i \in {"backup", "pull"}, NEW n \in {"pull", "write"}, PrepareStep(i, n) PROVE JobsExcludeTicks'
  BY <1>5, Zenon DEF PrepareStep, At, WorksOn
<1>6. ASSUME writeEnv PROVE JobsExcludeTicks'
  BY <1>6, Zenon DEF writeEnv, At, WorksOn
<1>7. ASSUME NEW i \in Services, NEW n \in {"health", "frontend", "verify"}, Switch(i, n) PROVE JobsExcludeTicks'
  BY <1>7, Zenon DEF Switch, At, WorksOn, Restart
<1>8. ASSUME NEW i \in {"health", "verify"}, NEW n \in {"executor", "manifest"}, waitHealth(i, n) PROVE JobsExcludeTicks'
  BY <1>8, Zenon DEF waitHealth, At, WorksOn
<1>9. ASSUME activateLocalManifest PROVE JobsExcludeTicks'
  BY <1>9, Zenon DEF activateLocalManifest, At, WorksOn
<1>10. ASSUME ActivatePlatformRelease PROVE JobsExcludeTicks'
  BY <1>10, Zenon DEF ActivatePlatformRelease, At, WorksOn
<1>11. ASSUME Succeed PROVE JobsExcludeTicks'
  BY <1>11 DEF Succeed, UpdatePlatformUpgradeJob, At
<1>12. ASSUME RestoreEnv PROVE JobsExcludeTicks'
  BY <1>12, Zenon DEF RestoreEnv, At, WorksOn
<1>13. ASSUME RestartServices PROVE JobsExcludeTicks'
  BY <1>13, Zenon DEF RestartServices, At, WorksOn, Restart
<1>14. ASSUME FailJob PROVE JobsExcludeTicks'
  BY <1>14 DEF FailJob, UpdatePlatformUpgradeJob, At
<1>15. ASSUME StopUpgrader PROVE JobsExcludeTicks'
  BY <1>15, Zenon DEF StopUpgrader
<1>16. ASSUME LookAtJobs PROVE JobsExcludeTicks'
  BY <1>16, Zenon DEF LookAtJobs
<1>17. ASSUME FireSchedule PROVE JobsExcludeTicks'
  BY <1>17, Zenon DEF FireSchedule
<1>18. ASSUME TenantTaskEnds PROVE JobsExcludeTicks'
  BY <1>18, Zenon DEF TenantTaskEnds
<1> HIDE DEF PlatformTypes, PlatformTypeOK, JobsExcludeTicks, WorkIsOpen
<1> QED
  BY <1>1, <1>2, <1>3, <1>4, <1>5, <1>6, <1>7, <1>8, <1>9, <1>10, <1>11, <1>12, <1>13, <1>14, <1>15, <1>16, <1>17, <1>18
 , Zenon DEF PlatformNext, Upgrade, Services

\* Every step of the upgrader leaves each place the release the next step expects there.
LEMMA ProgressStep ==
  ASSUME PlatformInv, PlatformNext
  PROVE  (Repaired => Progress)'
<1> USE DEF PlatformInv, PlatformTypes, PlatformTypeOK, WorkIsOpen, Off, Steps, Terminal, Repaired, Progress, Everywhere, Found, Target
<1>1. ASSUME NEW r \in Targets, createPlatformRelease(r) PROVE (Repaired => Progress)'
  BY <1>1, Zenon DEF createPlatformRelease
<1>2. ASSUME NEW a \in Admins, NEW r \in Releases, CheckUpgrade(a, r) PROVE (Repaired => Progress)'
  BY <1>2, Zenon DEF CheckUpgrade
<1>3. ASSUME NEW a \in Admins, NEW j \in Jobs, CreatePlatformUpgradeJob(a, j) PROVE (Repaired => Progress)'
  BY <1>3 DEF CreatePlatformUpgradeJob, NextJob
<1>4. ASSUME NEW j \in Jobs, TakeJob(j) PROVE (Repaired => Progress)'
  BY <1>4 DEF TakeJob
<1>5. ASSUME NEW i \in {"backup", "pull"}, NEW n \in {"pull", "write"}, PrepareStep(i, n) PROVE (Repaired => Progress)'
  BY <1>5, Zenon DEF PrepareStep, At, WorksOn
<1>6. ASSUME writeEnv PROVE (Repaired => Progress)'
  BY <1>6 DEF writeEnv, At, WorksOn
<1>7. ASSUME Switch("api", "health") PROVE (Repaired => Progress)'
  BY <1>7 DEF Switch, At, WorksOn, Restart, Services
<1>8. ASSUME Switch("executor", "frontend") PROVE (Repaired => Progress)'
  BY <1>8 DEF Switch, At, WorksOn, Restart, Services
<1>9. ASSUME Switch("frontend", "verify") PROVE (Repaired => Progress)'
  BY <1>9 DEF Switch, At, WorksOn, Restart, Services
<1>10. ASSUME waitHealth("health", "executor") PROVE (Repaired => Progress)'
  BY <1>10 DEF waitHealth, At, WorksOn
<1>11. ASSUME waitHealth("verify", "manifest") PROVE (Repaired => Progress)'
  BY <1>11 DEF waitHealth, At, WorksOn
<1>12. ASSUME activateLocalManifest PROVE (Repaired => Progress)'
  BY <1>12 DEF activateLocalManifest, At, WorksOn
<1>13. ASSUME ActivatePlatformRelease PROVE (Repaired => Progress)'
  BY <1>13 DEF ActivatePlatformRelease, At, WorksOn
<1>14. ASSUME Succeed PROVE (Repaired => Progress)'
  BY <1>14, Zenon DEF Succeed, UpdatePlatformUpgradeJob, At, Services
<1>15. ASSUME RestoreEnv PROVE (Repaired => Progress)'
  BY <1>15, Zenon DEF RestoreEnv, At, WorksOn
<1>16. ASSUME RestartServices PROVE (Repaired => Progress)'
  <2>1. worker.at = "restart" /\ worker'.at = "fail" /\ envFile' = envFile /\ catalog' = catalog /\ manifest' = manifest
    BY <1>16, Zenon DEF RestartServices, At, WorksOn
  <2>2. Repaired' => Repaired /\ faulted' = faulted /\ \A s \in Services : runs'[s] = envFile
    BY <1>16, Zenon DEF RestartServices, Restart
  <2> QED
    BY <2>1, <2>2
<1>17. ASSUME FailJob PROVE (Repaired => Progress)'
  BY <1>17, Zenon DEF FailJob, UpdatePlatformUpgradeJob, At
<1>18. ASSUME StopUpgrader PROVE (Repaired => Progress)'
  BY <1>18, Zenon DEF StopUpgrader
<1>19. ASSUME LookAtJobs PROVE (Repaired => Progress)'
  BY <1>19, Zenon DEF LookAtJobs
<1>20. ASSUME FireSchedule PROVE (Repaired => Progress)'
  BY <1>20, Zenon DEF FireSchedule
<1>21. ASSUME TenantTaskEnds PROVE (Repaired => Progress)'
  BY <1>21, Zenon DEF TenantTaskEnds
<1> HIDE DEF PlatformInv, Repaired, Progress, PlatformTypes, PlatformTypeOK, WorkIsOpen
<1> QED
  BY <1>1, <1>2, <1>3, <1>4, <1>5, <1>6, <1>7, <1>8, <1>9, <1>10, <1>11, <1>12, <1>13, <1>14, <1>15, <1>16, <1>17, <1>18, <1>19, <1>20, <1>21
 , Zenon DEF PlatformNext, Upgrade, Services

-----------------------------------------------------------------------------
(* The theorems *)

\* The invariant says what the run checks of every state.
LEMMA PlatformInvImpliesSafety == PlatformInv => PlatformSafety
<1> SUFFICES ASSUME PlatformInv PROVE PlatformSafety
  OBVIOUS
<1>1. PlatformTypeOK /\ OneUpgrade
  BY Zenon DEF PlatformInv, PlatformTypes
<1>2. NoTaskIsSwitched
  BY DEF PlatformInv, WorkIsOpen, JobsExcludeTicks, NoTaskIsSwitched, Off, Services, Open
<1>3. SettledIsUniform
  <2>1. Quiet => worker.at = "idle"
    BY DEF PlatformInv, WorkIsOpen, Quiet, Open, Off
  <2> QED
    BY <2>1, Zenon DEF PlatformInv, Repaired, Progress, Everywhere, SettledIsUniform
<1> QED
  BY <1>1, <1>2, <1>3, Zenon DEF PlatformSafety

\* At the start nothing is open and every place has release 0.
LEMMA PlatformInitInv == PlatformInit => PlatformInv
<1> SUFFICES ASSUME PlatformInit PROVE PlatformInv
  OBVIOUS
<1>1. PlatformTypes
  BY Zenon DEF PlatformInit, PlatformTypes, PlatformTypeOK, Releases, Off, NoJob, Terminal
<1>2. OneUpgrade /\ WorkIsOpen /\ JobsExcludeTicks
  BY Zenon DEF PlatformInit, OneUpgrade, WorkIsOpen, JobsExcludeTicks, Open, NoJob
<1>3. Progress
  BY Zenon DEF PlatformInit, Progress, Everywhere, Off, Releases
<1> QED
  BY <1>1, <1>2, <1>3, Zenon DEF PlatformInv

\* The invariant is inductive.
THEOREM PlatformInvariance == PlatformSpec => []PlatformInv
<1>1. PlatformInv /\ [PlatformNext]_platVars => PlatformInv'
  <2> SUFFICES ASSUME PlatformInv, [PlatformNext]_platVars PROVE PlatformInv'
    OBVIOUS
  <2>1. CASE PlatformNext
    <3>1. PlatformTypes' /\ OneUpgrade' /\ WorkIsOpen' /\ JobsExcludeTicks'
      BY <2>1, PlatformTypeStep, JobsStep, TicksStep, Zenon DEF PlatformInv
    <3> QED
      BY <2>1, <3>1, ProgressStep, Zenon DEF PlatformInv
  <2>2. CASE UNCHANGED platVars
    BY <2>2 DEF platVars, PlatformInv, PlatformTypes, PlatformTypeOK, OneUpgrade, WorkIsOpen, JobsExcludeTicks, Open,
       Repaired, Progress, Everywhere, Found, Target
  <2> QED
    BY <2>1, <2>2, Zenon
<1> QED
  BY <1>1, PlatformInitInv, PTL DEF PlatformSpec

\* Whatever fails and whenever it fails, one job is open at a time, no service is replaced
\* under a task that did not overlap the creation of the job, and once no job is open every
\* place has the same release (run, rollback and the API's checks together).
THEOREM UpgradesSettle == PlatformSpec => []PlatformSafety
BY PlatformInvariance, PlatformInvImpliesSafety, PTL

--------------------------------------------------------------------------------

\* A pending invitation is to an organization and gives a role (invite).
Offers ==
  \A l \in Links : link[l].kind = "invitation" => link[l].org \in Orgs /\ link[l].role \in {"admin", "operator"}

\* Whoever is in an organization, or may still join it as an operator, has an
\* administrator beside them (mutateMember, invite, complete).
Staffed ==
  \A o \in Orgs :
    \/ \E e \in Emails : account[e].org = o
    \/ \E l \in Links : link[l].kind = "invitation" /\ link[l].org = o /\ link[l].role = "operator"
    => Administrators(o) # {}

OrganizationsInv ==
  OrganizationsTypeOK /\ Offers /\ (restored \/ Staffed) /\ DeletedLinksStayDead

\* What a request may be in, as OrganizationsTypeOK has it.
Principals == [Emails -> [org : Orgs \cup {None}, role : {"admin", "operator", "none"}, own : BOOLEAN]]
Oauth == [at : {"none", "asked", "signup", "session", "link"}, invitation : Links \cup {None}, linking : BOOLEAN]

-----------------------------------------------------------------------------
(* Types *)

\* The request of a caller is over: principals stay well typed (Answered).
LEMMA ClosedType ==
  ASSUME OrganizationsTypeOK, NEW c PROVE Closed(c) \in Principals
BY Zenon DEF OrganizationsTypeOK, Closed, NoCaller, Principals

\* A link keeps its type when it is spent.
LEMMA SpentType ==
  ASSUME OrganizationsTypeOK, NEW l \in Links, link[l] # Unissued
  PROVE  /\ Spent(l) \in Issued /\ Spent(l).kind = "spent"
         /\ Spent(l).email = link[l].email /\ Spent(l).org = link[l].org /\ Spent(l).role = link[l].role
<1>1. link[l] \in Issued
  BY Zenon DEF OrganizationsTypeOK
<1> QED
  BY <1>1, Zenon DEF Spent, Issued

\* A link in use is issued.
LEMMA KindIsIssued ==
  ASSUME OrganizationsTypeOK, NEW l \in Links, link[l].kind # "none"
  PROVE  link[l] \in Issued
BY DEF OrganizationsTypeOK, Unissued

\* An account that belongs to an organization is an account.
LEMMA MemberIsAccount ==
  ASSUME OrganizationsTypeOK, NEW e \in Emails, NEW o \in Orgs, account[e].org = o
  PROVE  account[e] \in Account
BY OrganizationAssumption DEF OrganizationsTypeOK, NoAccount

\* An account that is usable is an account.
LEMMA UsableIsAccount ==
  ASSUME OrganizationsTypeOK, NEW e \in Emails, Usable(e)
  PROVE  account[e] \in Account
BY DEF OrganizationsTypeOK, NoAccount, Usable

\* Enrol keeps the types (complete).
LEMMA EnrolType ==
  ASSUME OrganizationsTypeOK, NEW l \in Links, NEW o \in Orgs, NEW role \in {"admin", "operator"},
         NEW spent \in SUBSET Links, \A k \in spent : link[k] # Unissued,
         link[l] \in Issued, scope' \in [Orgs -> {"none", "active", "disabled"}],
         Enrol(l, o, role, spent)
  PROVE  OrganizationsTypeOK'
<1>1. link[l].email \in Emails
  BY Zenon DEF Issued
<1>2. account' \in [Emails -> Account \cup {NoAccount}]
  BY <1>1, ZenonT(60) DEF Enrol, OrganizationsTypeOK, Account
<1>3. link' \in [Links -> Issued \cup {Unissued}]
  BY SpentType, Zenon DEF Enrol, OrganizationsTypeOK
<1>4. identity' \subseteq Emails
  BY <1>1, Zenon DEF Enrol, OrganizationsTypeOK
<1>5. entering' \in [Emails -> {"no", "create", "check", "login"}]
  BY <1>1, Zenon DEF Enrol, OrganizationsTypeOK
<1> QED
  BY <1>2, <1>3, <1>4, <1>5, Zenon DEF Enrol, OrganizationsTypeOK

\* mutateMember keeps the types of accounts and sessions.
LEMMA MutateType ==
  ASSUME OrganizationsTypeOK, NEW c, NEW o \in Orgs, NEW e \in Emails, NEW next \in Account \cup {NoAccount},
         mutateMember(c, o, e, next)
  PROVE  /\ account' \in [Emails -> Account \cup {NoAccount}] /\ sessions' \subseteq Emails
         /\ scope' = scope /\ asked' = asked /\ restored' = restored
BY Zenon DEF mutateMember, OrganizationsTypeOK

\* Every step keeps the types.
LEMMA OrganizationsTypeStep ==
  ASSUME OrganizationsTypeOK, Offers, OrganizationsNext PROVE OrganizationsTypeOK'
<1> USE DEF OrganizationsTypeOK
<1>1. ASSUME NEW e \in Emails, login(e) PROVE OrganizationsTypeOK'
  BY <1>1, Zenon DEF login, Spend
<1>2. ASSUME NEW e \in Emails, CreateSession(e) PROVE OrganizationsTypeOK'
  BY <1>2, Zenon DEF CreateSession
<1>3. ASSUME NEW e \in Emails, CheckSession(e) PROVE OrganizationsTypeOK'
  BY <1>3, Zenon DEF CheckSession
<1>4. ASSUME NEW e \in Emails, AuthenticateRequest(e) PROVE OrganizationsTypeOK'
  <2>1. account[e].org \in Orgs /\ account[e].role \in {"admin", "operator"}
    BY <1>4, UsableIsAccount, Zenon DEF AuthenticateRequest, Account
  <2> QED
    BY <1>4, <2>1, Zenon DEF AuthenticateRequest
<1>5. ASSUME NEW e \in Emails, Refuse(e) PROVE OrganizationsTypeOK'
  BY <1>5, ClosedType, Zenon DEF Refuse, Answered, Principals
<1>6. ASSUME NEW e \in Emails, requestSignup(e) PROVE OrganizationsTypeOK'
  BY <1>6, Zenon DEF requestSignup
<1>7. ASSUME NEW e \in Emails, googleCallback(e) PROVE OrganizationsTypeOK'
  <2>1. Outcome(e) \in {"none", "link", "session", "signup"}
    BY Zenon DEF Outcome
  <2>2. NoOauth \in Oauth /\ oauth[e] \in Oauth
    BY Zenon DEF NoOauth, Oauth
  <2> DEFINE next == [oauth[e] EXCEPT !.at = Outcome(e)]
  <2>3. Outcome(e) # "none" => next \in Oauth
    BY <2>1, <2>2, Zenon DEF Oauth
  <2>4. oauth' = [oauth EXCEPT ![e] = IF Outcome(e) = "none" THEN NoOauth ELSE next]
    BY <1>7, Zenon DEF googleCallback
  <2> HIDE DEF next
  <2>5. oauth' \in [Emails -> Oauth]
    BY <2>2, <2>3, <2>4, Zenon DEF Oauth
  <2> QED
    BY <1>7, <2>5, Zenon DEF googleCallback, Oauth
<1>8. ASSUME NEW e \in Emails, LinkIdentity(e) PROVE OrganizationsTypeOK'
  BY <1>8, Zenon DEF LinkIdentity, NoOauth
<1>9. ASSUME NEW e \in Emails, UpdateProfile(e) PROVE OrganizationsTypeOK'
  BY <1>9, Zenon DEF UpdateProfile
<1>10. ASSUME NEW e \in Emails, UpdateUser(e) PROVE OrganizationsTypeOK'
  BY <1>10, Zenon DEF UpdateUser
<1>11. ASSUME NEW o \in Orgs, administrationOrganizations(o) PROVE OrganizationsTypeOK'
  BY <1>11, Zenon DEF administrationOrganizations
<1>12. ASSUME NEW o \in Orgs, administrationOrganization(o) PROVE OrganizationsTypeOK'
  BY <1>12, Zenon DEF administrationOrganization
<1>13. ASSUME NEW c \in Emails \cup {Root}, NEW o \in Orgs, NEW e \in Emails, NEW role \in {"admin", "operator"}, NEW l \in Links, invite(c, o, e, role, l) PROVE OrganizationsTypeOK'
  <2>1. PICK sent \in BOOLEAN :
          link' = [k \in Links |->
            IF k = l THEN [kind |-> IF sent THEN "invitation" ELSE "spent", email |-> e, org |-> o, role |-> role, by |-> c]
            ELSE IF Pending(k, e, o) THEN Spent(k) ELSE link[k]]
    BY <1>13, Zenon DEF invite
  <2>2. [kind |-> IF sent THEN "invitation" ELSE "spent", email |-> e, org |-> o, role |-> role, by |-> c] \in Issued
    BY Zenon DEF Issued
  <2>3. \A k \in Links : Pending(k, e, o) => Spent(k) \in Issued
    BY SpentType DEF Pending, Unissued
  <2>4. link' \in [Links -> Issued \cup {Unissued}]
    BY <2>1, <2>2, <2>3, Zenon
  <2> QED
    BY <1>13, <2>4, ClosedType, Zenon DEF invite, Answered, Principals
<1>14. ASSUME NEW c \in Emails \cup {Root}, NEW o \in Orgs, NEW e \in Emails, NEW role \in {"admin", "operator"}, NEW status \in {"active", "disabled"}, updateMember(c, o, e, role, status) PROVE OrganizationsTypeOK'
  <2>1. [org |-> o, role |-> role, status |-> status] \in Account \cup {NoAccount}
    BY Zenon DEF Account
  <2>2. mutateMember(c, o, e, [org |-> o, role |-> role, status |-> status])
    BY <1>14, Zenon DEF updateMember
  <2>3. account' \in [Emails -> Account \cup {NoAccount}] /\ sessions' \subseteq Emails
        /\ scope' = scope /\ asked' = asked /\ restored' = restored
    BY <2>1, <2>2, MutateType, Zenon
  <2> QED
    BY <1>14, <2>3, ClosedType, Zenon DEF updateMember, Answered, Principals
<1>15. ASSUME NEW c \in Emails \cup {Root}, NEW o \in Orgs, NEW e \in Emails, deleteMember(c, o, e) PROVE OrganizationsTypeOK'
  <2>1. account' \in [Emails -> Account \cup {NoAccount}] /\ sessions' \subseteq Emails
        /\ scope' = scope /\ asked' = asked /\ restored' = restored
    BY <1>15, MutateType, Zenon DEF deleteMember
  <2>2. principal' \in Principals
    <3>1. Closed(c) \in Principals
      BY ClosedType, Zenon
    <3> QED
      BY <1>15, <3>1, ZenonT(60) DEF deleteMember, Principals
  <2>3. \A l \in Links : Buries(l, e) => Spent(l) \in Issued
    BY SpentType, Zenon DEF Buries
  <2>4. link' \in [Links -> Issued \cup {Unissued}]
    BY <1>15, <2>3, Zenon DEF deleteMember
  <2>5. oauth' \in [Emails -> Oauth]
    BY <1>15, Zenon DEF deleteMember, NoOauth, Oauth
  <2> QED
    BY <1>15, <2>1, <2>2, <2>4, <2>5, Zenon DEF deleteMember, Principals, Oauth
<1>16. ASSUME NEW c \in Emails \cup {Root}, NEW l \in Links, revokeInvitation(c, l) PROVE OrganizationsTypeOK'
  <2>1. link[l] # Unissued
    BY <1>16 DEF revokeInvitation, Unissued
  <2>2. link' \in [Links -> Issued \cup {Unissued}]
    BY <1>16, <2>1, SpentType, Zenon DEF revokeInvitation, Spent
  <2> QED
    BY <1>16, <2>2, ClosedType, Zenon DEF revokeInvitation, Answered, Principals
<1>17. ASSUME NEW l \in Links, LinkExpires(l) PROVE OrganizationsTypeOK'
  <2>1. link[l] # Unissued
    BY <1>17 DEF LinkExpires, Unissued
  <2>2. link' \in [Links -> Issued \cup {Unissued}]
    BY <1>17, <2>1, SpentType, Zenon DEF LinkExpires, Spent
  <2> QED
    BY <1>17, <2>2, Zenon DEF LinkExpires
<1>18. ASSUME NEW l \in Links, completeInvitation(l) PROVE OrganizationsTypeOK'
  <2>1. link[l] \in Issued /\ link[l].org \in Orgs /\ link[l].role \in {"admin", "operator"}
    BY <1>18, KindIsIssued, Zenon DEF completeInvitation, Offers
  <2>2. \A k \in {l} : link[k] # Unissued
    BY <1>18 DEF completeInvitation, Unissued
  <2>3. Enrol(l, link[l].org, link[l].role, {l}) /\ scope' = scope
    BY <1>18, Zenon DEF completeInvitation
  <2>4. {l} \in SUBSET Links /\ scope' \in [Orgs -> {"none", "active", "disabled"}]
    BY <2>3, Zenon
  <2> HIDE DEF OrganizationsTypeOK
  <2> QED
    BY <2>1, <2>2, <2>3, <2>4, EnrolType, Zenon
<1>19. ASSUME NEW l \in Links, googleSession(l) PROVE OrganizationsTypeOK'
  <2>1. link[l] # Unissued /\ link[l].email \in Emails
    BY <1>19, KindIsIssued DEF googleSession, Unissued, Issued
  <2>2. link' \in [Links -> Issued \cup {Unissued}]
    BY <1>19, <2>1, SpentType, Zenon DEF googleSession, Spent
  <2> QED
    BY <1>19, <2>1, <2>2, Zenon DEF googleSession
<1>20. ASSUME NEW l \in Links, NEW e \in Emails, SendSignup(e, l) PROVE OrganizationsTypeOK'
  <2>1. [kind |-> "signup", email |-> e, org |-> None, role |-> "none", by |-> Root] \in Issued
    BY Zenon DEF Issued
  <2> QED
    BY <1>20, <2>1, Zenon DEF SendSignup
<1>21. ASSUME NEW l \in Links, NEW e \in Emails, IssueGoogle(e, l) PROVE OrganizationsTypeOK'
  <2> DEFINE i == oauth[e].invitation
             joins == oauth[e].at = "signup" /\ i # None
             made == [kind |-> IF oauth[e].at = "signup" THEN "google" ELSE "session", email |-> e,
                      org |-> IF joins THEN link[i].org ELSE None,
                      role |-> IF joins THEN link[i].role ELSE "none", by |-> Root]
  <2>1. joins => i \in Links
    OBVIOUS
  <2>2. \A k \in Links : link[k].org \in Orgs \cup {None} /\ link[k].role \in {"admin", "operator", "none"}
    BY DEF Issued, Unissued
  <2>3. made \in Issued
    BY <2>1, <2>2, Zenon DEF Issued
  <2>4. link' = [link EXCEPT ![l] = made] /\ oauth' = [oauth EXCEPT ![e] = NoOauth]
    BY <1>21, Zenon DEF IssueGoogle
  <2>5. NoOauth \in Oauth
    BY Zenon DEF NoOauth, Oauth
  <2> HIDE DEF made
  <2>6. link' \in [Links -> Issued \cup {Unissued}] /\ oauth' \in [Emails -> Oauth]
    BY <2>3, <2>4, <2>5, Zenon DEF Oauth
  <2> QED
    BY <1>21, <2>6, Zenon DEF IssueGoogle, Oauth
<1>22. ASSUME NEW l \in Links, NEW o \in Orgs, completeSignup(l, o) PROVE OrganizationsTypeOK'
  <2>1. link[l] \in Issued
    BY <1>22, KindIsIssued, Zenon DEF completeSignup
  <2>2. \A k \in {l} : link[k] # Unissued
    BY <1>22 DEF completeSignup, Unissued
  <2>3. scope' \in [Orgs -> {"none", "active", "disabled"}]
    BY <1>22, Zenon DEF completeSignup
  <2> QED
    BY <1>22, <2>1, <2>2, <2>3, EnrolType DEF completeSignup
<1>23. ASSUME NEW l \in Links, NEW k \in Links, completeGoogle(l, k) PROVE OrganizationsTypeOK'
  <2>1. link[l] \in Issued /\ link[l].org \in Orgs
    BY <1>23, KindIsIssued, Zenon DEF completeGoogle, Issued
  <2>2. link[k].role \in {"admin", "operator"}
    BY <1>23, Zenon DEF completeGoogle, Pending, Offers
  <2>3. \A j \in {l, k} : link[j] # Unissued
    BY <1>23 DEF completeGoogle, Pending, Unissued
  <2>4. Enrol(l, link[l].org, link[k].role, {l, k}) /\ scope' = scope
    BY <1>23, Zenon DEF completeGoogle
  <2>5. {l, k} \in SUBSET Links /\ scope' \in [Orgs -> {"none", "active", "disabled"}]
    BY <2>4, Zenon
  <2> HIDE DEF OrganizationsTypeOK
  <2> QED
    BY <2>1, <2>2, <2>3, <2>4, <2>5, EnrolType, Zenon
<1>24. ASSUME NEW e \in Emails, NEW i \in Links \cup {None}, NEW linking \in BOOLEAN, startGoogle(e, i, linking) PROVE OrganizationsTypeOK'
  <2>1. [at |-> "asked", invitation |-> i, linking |-> linking] \in Oauth
    BY Zenon DEF Oauth
  <2>2. oauth' \in [Emails -> Oauth]
    BY <1>24, <2>1, Zenon DEF startGoogle, Oauth
  <2> QED
    BY <1>24, <2>2, Zenon DEF startGoogle, Oauth
<1> HIDE DEF OrganizationsTypeOK
<1> QED
  BY <1>1, <1>2, <1>3, <1>4, <1>5, <1>6, <1>7, <1>8, <1>9, <1>10, <1>11, <1>12, <1>13, <1>14, <1>15, <1>16, <1>17, <1>18, <1>19, <1>20, <1>21, <1>22, <1>23, <1>24, SMTT(30) DEF OrganizationsNext

-----------------------------------------------------------------------------
(* Administrators, invitations and spent links *)

\* Links are issued or spent and accounts stay as they are.
LEMMA LinksKeep ==
  ASSUME OrganizationsInv, UNCHANGED <<account, restored, buried>>,
         \A l \in Links :
           \/ link'[l] = link[l]
           \/ link'[l].kind = "spent"
           \/ /\ link[l] = Unissued
              /\ link'[l].kind = "invitation" =>
                   /\ link'[l].org \in Orgs /\ link'[l].role \in {"admin", "operator"}
                   /\ link'[l].role = "operator" => Administrators(link'[l].org) # {}
  PROVE  Offers' /\ (restored \/ Staffed)' /\ DeletedLinksStayDead'
<1>1. Offers'
  BY Zenon DEF OrganizationsInv, Offers
<1>2. DeletedLinksStayDead'
  BY DEF OrganizationsInv, DeletedLinksStayDead, OrganizationsTypeOK, Unissued
<1>3. \A o : Administrators(o)' = Administrators(o)
  BY Zenon DEF Administrators
<1>4. ASSUME Staffed PROVE Staffed'
  <2> SUFFICES ASSUME NEW o \in Orgs,
                      \/ \E e \in Emails : account'[e].org = o
                      \/ \E l \in Links : link'[l].kind = "invitation" /\ link'[l].org = o /\ link'[l].role = "operator"
               PROVE  Administrators(o)' # {}
    BY Zenon DEF Staffed
  <2>1. CASE \E e \in Emails : account'[e].org = o
    BY <1>3, <1>4, <2>1, Zenon DEF Staffed
  <2>2. ASSUME NEW l \in Links, link'[l].kind = "invitation", link'[l].org = o, link'[l].role = "operator"
        PROVE  Administrators(o) # {}
    BY <1>4, <2>2, Zenon DEF Staffed
  <2> QED
    BY <1>3, <2>1, <2>2, Zenon
<1> QED
  BY <1>1, <1>2, <1>4, Zenon DEF OrganizationsInv

\* mutateMember never takes the last administrator, and a deletion spends links.
LEMMA MutateKeeps ==
  ASSUME OrganizationsInv, NEW c, NEW o \in Orgs, NEW e \in Emails, NEW next,
         mutateMember(c, o, e, next), next = NoAccount \/ next.org = o,
         \A l \in Links : link'[l] = link[l] \/ link'[l].kind = "spent"
  PROVE  Offers' /\ (restored \/ Staffed)'
<1>1. Offers'
  BY Zenon DEF OrganizationsInv, Offers
<1>2. /\ account' = [account EXCEPT ![e] = next] /\ account[e].org = o /\ restored' = restored
      /\ account \in [Emails -> Account \cup {NoAccount}]
      /\ e \in Administrators(o) /\ next # account[e] => Administrators(o) \ {e} # {}
  BY Zenon DEF mutateMember, Protects, OrganizationsInv, OrganizationsTypeOK
<1>3. ASSUME NEW x \in Orgs, Administrators(x) # {} PROVE Administrators(x)' # {}
  <2>1. CASE \E a \in Administrators(x) : a # e
    BY <1>2, <2>1, Zenon DEF Administrators
  <2>2. CASE Administrators(x) = {e}
    <3>1. x = o
      BY <1>2, <2>2 DEF Administrators
    <3>2. next = account[e]
      BY <1>2, <2>2, <3>1, Zenon
    <3> QED
      BY <1>2, <2>2, <3>2, Zenon DEF Administrators
  <2> QED
    BY <1>3, <2>1, <2>2, Zenon
<1>4. ASSUME Staffed, NEW x \in Orgs,
             \/ \E a \in Emails : account'[a].org = x
             \/ \E l \in Links : link'[l].kind = "invitation" /\ link'[l].org = x /\ link'[l].role = "operator"
      PROVE  Administrators(x) # {}
  <2>1. ASSUME NEW a \in Emails, account'[a].org = x PROVE \E b \in Emails : account[b].org = x
    <3>1. CASE a = e
      BY <1>2, <2>1, <3>1, OrganizationAssumption DEF NoAccount
    <3>2. CASE a # e
      BY <1>2, <2>1, <3>2, Zenon
    <3> QED
      BY <3>1, <3>2, Zenon
  <2>2. ASSUME NEW l \in Links, link'[l].kind = "invitation", link'[l].org = x, link'[l].role = "operator"
        PROVE  link[l].kind = "invitation" /\ link[l].org = x /\ link[l].role = "operator"
    BY <2>2, Zenon
  <2> QED
    BY <1>4, <2>1, <2>2, Zenon DEF Staffed
<1>5. Staffed => Staffed'
  BY <1>3, <1>4, Zenon DEF Staffed
<1> QED
  BY <1>1, <1>2, <1>5, Zenon DEF OrganizationsInv

\* complete brings an administrator, or somebody who was invited beside one.
LEMMA EnrolKeeps ==
  ASSUME OrganizationsInv, NEW l \in Links, NEW o \in Orgs, NEW role, NEW spent \in SUBSET Links,
         \A k \in spent : link[k] # Unissued, link[l] \in Issued, Enrol(l, o, role, spent),
         role = "admin" \/ (\E k \in Links : link[k].kind = "invitation" /\ link[k].org = o /\ link[k].role = "operator")
  PROVE  Offers' /\ (restored \/ Staffed)' /\ DeletedLinksStayDead'
<1> DEFINE e == link[l].email
<1>1. /\ e \in Emails /\ account[e] = NoAccount /\ restored' = restored /\ buried' = buried
      /\ account' = [account EXCEPT ![e] = [org |-> o, role |-> role, status |-> "active"]]
      /\ account \in [Emails -> Account \cup {NoAccount}] /\ buried \subseteq Links
  BY Zenon DEF Enrol, Issued, OrganizationsInv, OrganizationsTypeOK
<1>2. \A k \in Links : link'[k] = link[k] \/ link'[k].kind = "spent"
  BY SpentType, Zenon DEF Enrol, OrganizationsInv
<1>3. Offers'
  BY <1>2, Zenon DEF OrganizationsInv, Offers
<1>4. DeletedLinksStayDead'
  BY <1>1, <1>2, Zenon DEF OrganizationsInv, DeletedLinksStayDead
<1> HIDE DEF e
<1>5. ASSUME NEW x \in Orgs, Administrators(x) # {} PROVE Administrators(x)' # {}
  <2>1. PICK a \in Emails : account[a] = [org |-> x, role |-> "admin", status |-> "active"]
    BY <1>5, Zenon DEF Administrators
  <2>2. a # e
    BY <1>1, <2>1, OrganizationAssumption DEF NoAccount
  <2> QED
    BY <1>1, <2>1, <2>2, Zenon DEF Administrators
<1>6. ASSUME Staffed PROVE Administrators(o)' # {}
  <2>1. CASE role = "admin"
    BY <1>1, <2>1, Zenon DEF Administrators
  <2>2. CASE \E k \in Links : link[k].kind = "invitation" /\ link[k].org = o /\ link[k].role = "operator"
    BY <1>5, <1>6, <2>2, Zenon DEF Staffed
  <2> QED
    BY <2>1, <2>2, Zenon
<1>7. ASSUME Staffed PROVE Staffed'
  <2> SUFFICES ASSUME NEW x \in Orgs, x # o,
                      \/ \E a \in Emails : account'[a].org = x
                      \/ \E k \in Links : link'[k].kind = "invitation" /\ link'[k].org = x /\ link'[k].role = "operator"
               PROVE  Administrators(x) # {}
    BY <1>5, <1>6, <1>7, Zenon DEF Staffed
  <2>1. ASSUME NEW a \in Emails, account'[a].org = x PROVE account[a].org = x
    BY <1>1, <2>1, Zenon
  <2>2. ASSUME NEW k \in Links, link'[k].kind = "invitation", link'[k].org = x, link'[k].role = "operator"
        PROVE  link[k].kind = "invitation" /\ link[k].org = x /\ link[k].role = "operator"
    BY <1>2, <2>2, Zenon
  <2> QED
    BY <1>7, <2>1, <2>2, Zenon DEF Staffed
<1> QED
  BY <1>1, <1>3, <1>4, <1>7, Zenon DEF OrganizationsInv

\* Every step keeps the invariant.
LEMMA OrganizationsInvStep ==
  ASSUME OrganizationsInv, OrganizationsNext PROVE OrganizationsInv'
<1> DEFINE Kept == Offers' /\ (restored \/ Staffed)' /\ DeletedLinksStayDead'
<1> USE DEF OrganizationsInv
<1>1. OrganizationsTypeOK'
  BY OrganizationsTypeStep, Zenon
<1>2. ASSUME UNCHANGED <<account, link, restored, buried>> PROVE Kept
  BY <1>2, LinksKeep, Zenon
<1>3. ASSUME NEW e \in Emails, login(e) \/ CreateSession(e) \/ CheckSession(e) \/ AuthenticateRequest(e) \/ Refuse(e) \/ requestSignup(e) \/ googleCallback(e) \/ LinkIdentity(e) \/ UpdateProfile(e) PROVE Kept
  BY <1>3, <1>2, Zenon DEF login, CreateSession, CheckSession, AuthenticateRequest, Refuse, requestSignup, googleCallback, LinkIdentity, UpdateProfile
<1>4. ASSUME NEW e \in Emails, UpdateUser(e) PROVE Kept
  <2>1. CASE account' = account
    BY <1>4, <2>1, LinksKeep, Zenon DEF UpdateUser, OrganizationsTypeOK
  <2>2. CASE account' # account
    BY <1>4, <2>2, Zenon DEF UpdateUser, Offers, DeletedLinksStayDead
  <2> QED
    BY <2>1, <2>2, Zenon
<1>5. ASSUME NEW o \in Orgs, administrationOrganizations(o) \/ administrationOrganization(o) PROVE Kept
  BY <1>5, <1>2, Zenon DEF administrationOrganizations, administrationOrganization
<1>6. ASSUME NEW c \in Emails \cup {Root}, NEW o \in Orgs, NEW e \in Emails, NEW role \in {"admin", "operator"}, NEW l \in Links, invite(c, o, e, role, l) PROVE Kept
  <2>1. PICK sent \in BOOLEAN :
          link' = [k \in Links |->
            IF k = l THEN [kind |-> IF sent THEN "invitation" ELSE "spent", email |-> e, org |-> o, role |-> role, by |-> c]
            ELSE IF Pending(k, e, o) THEN Spent(k) ELSE link[k]]
    BY <1>6, ZenonT(30) DEF invite
  <2>2. link[l] = Unissued /\ (role = "operator" => Administrators(o) # {}) /\ UNCHANGED <<account, restored, buried>>
    BY <1>6, Zenon DEF invite, New
  <2>3. \A k \in Links : Pending(k, e, o) => Spent(k).kind = "spent"
    BY SpentType DEF Pending, Unissued
  <2>4. \A k \in Links \ {l} : link'[k] = link[k] \/ link'[k].kind = "spent"
    BY <2>1, <2>3, Zenon
  <2>5. link'[l].org = o /\ link'[l].role = role
    BY <2>1, Zenon
  <2> QED
    BY <2>2, <2>4, <2>5, LinksKeep, Zenon
<1>7. ASSUME NEW c \in Emails \cup {Root}, NEW o \in Orgs, NEW e \in Emails, NEW role \in {"admin", "operator"}, NEW status \in {"active", "disabled"}, updateMember(c, o, e, role, status) PROVE Kept
  <2>1. /\ mutateMember(c, o, e, [org |-> o, role |-> role, status |-> status])
        /\ link' = link /\ buried' = buried
    BY <1>7, Zenon DEF updateMember
  <2>2. Offers' /\ (restored \/ Staffed)'
    BY <2>1, MutateKeeps, Zenon
  <2> QED
    BY <2>1, <2>2, Zenon DEF DeletedLinksStayDead
<1>8. ASSUME NEW c \in Emails \cup {Root}, NEW o \in Orgs, NEW e \in Emails, deleteMember(c, o, e) PROVE Kept
  <2>1. /\ mutateMember(c, o, e, NoAccount)
        /\ link' = [l \in Links |-> IF Buries(l, e) THEN Spent(l) ELSE link[l]]
        /\ buried' = buried \cup {l \in Links : link[l] # Unissued /\ link[l].email = e}
    BY <1>8, Zenon DEF deleteMember
  <2>2. \A l \in Links : Buries(l, e) => Spent(l).kind = "spent"
    BY SpentType, Zenon DEF Buries
  <2>3. \A l \in Links : link'[l] = link[l] \/ link'[l].kind = "spent"
    BY <2>1, <2>2, Zenon
  <2>4. Offers' /\ (restored \/ Staffed)'
    BY <2>1, <2>3, MutateKeeps, Zenon
  <2>5. DeletedLinksStayDead'
    BY <2>1, <2>2, <2>3, Zenon DEF DeletedLinksStayDead, Buries, OrganizationsTypeOK
  <2> QED
    BY <2>4, <2>5, Zenon
<1>9. ASSUME NEW l \in Links, (\E c \in Emails \cup {Root} : revokeInvitation(c, l)) \/ LinkExpires(l) \/ googleSession(l) PROVE Kept
  <2>1. /\ UNCHANGED <<account, restored, buried>> /\ link' = [link EXCEPT ![l].kind = "spent"]
        /\ link[l] # Unissued
    BY <1>9 DEF revokeInvitation, LinkExpires, googleSession, Unissued
  <2>2. link' = [link EXCEPT ![l] = Spent(l)] /\ link \in [Links -> Issued \cup {Unissued}]
    BY <2>1, Zenon DEF Spent, OrganizationsTypeOK
  <2>3. \A k \in Links : link'[k] = link[k] \/ link'[k].kind = "spent"
    BY <2>1, <2>2, SpentType, Zenon
  <2> QED
    BY <2>1, <2>3, LinksKeep, Zenon
<1>10. ASSUME NEW l \in Links, NEW e \in Emails, SendSignup(e, l) \/ IssueGoogle(e, l) PROVE Kept
  <2>1. /\ UNCHANGED <<account, restored, buried>> /\ link[l] = Unissued
        /\ \A k \in Links \ {l} : link'[k] = link[k]
        /\ link'[l].kind \in {"signup", "google", "session"}
    BY <1>10 DEF SendSignup, IssueGoogle, New, OrganizationsTypeOK
  <2> QED
    BY <2>1, LinksKeep, Zenon
<1>11. ASSUME NEW l \in Links, completeInvitation(l) PROVE Kept
  <2>1. /\ link[l] \in Issued /\ link[l].kind = "invitation"
        /\ link[l].org \in Orgs /\ link[l].role \in {"admin", "operator"}
        /\ Enrol(l, link[l].org, link[l].role, {l})
    BY <1>11, KindIsIssued, Zenon DEF completeInvitation, Offers
  <2>2. {l} \in SUBSET Links /\ \A k \in {l} : link[k] # Unissued
    BY <2>1 DEF Unissued
  <2> QED
    BY <2>1, <2>2, EnrolKeeps, Zenon
<1>12. ASSUME NEW l \in Links, NEW o \in Orgs, completeSignup(l, o) PROVE Kept
  <2>1. link[l] \in Issued /\ link[l].kind # "none" /\ Enrol(l, o, "admin", {l})
    BY <1>12, KindIsIssued, Zenon DEF completeSignup
  <2>2. {l} \in SUBSET Links /\ \A k \in {l} : link[k] # Unissued
    BY <2>1 DEF Unissued
  <2> QED
    BY <2>1, <2>2, EnrolKeeps, Zenon
<1>13. ASSUME NEW l \in Links, NEW k \in Links, completeGoogle(l, k) PROVE Kept
  <2>1. /\ link[l] \in Issued /\ link[l].kind = "google" /\ link[l].org \in Orgs
        /\ link[k].kind = "invitation" /\ link[k].org = link[l].org /\ link[k].role \in {"admin", "operator"}
        /\ Enrol(l, link[l].org, link[k].role, {l, k})
    BY <1>13, KindIsIssued, ZenonT(30) DEF completeGoogle, Pending, Offers, Issued
  <2>2. {l, k} \in SUBSET Links /\ \A j \in {l, k} : link[j] # Unissued
    BY <2>1 DEF Unissued
  <2> QED
    BY <2>1, <2>2, EnrolKeeps, Zenon
<1>14. ASSUME NEW e \in Emails, NEW i \in Links \cup {None}, NEW linking \in BOOLEAN, startGoogle(e, i, linking) PROVE Kept
  BY <1>14, <1>2, Zenon DEF startGoogle
<1> HIDE DEF Kept
<1>15. Kept
  BY <1>3, <1>4, <1>5, <1>6, <1>7, <1>8, <1>9, <1>10, <1>11, <1>12, <1>13, <1>14, ZenonT(60) DEF OrganizationsNext
<1> QED
  BY <1>1, <1>15, Zenon DEF Kept

\* The invariant holds of every behaviour.
THEOREM OrganizationsInvariance == OrganizationsSpec => []OrganizationsInv
<1>1. ASSUME OrganizationsInit PROVE OrganizationsInv
  <2>1. PICK o \in Orgs : account = [e \in Emails |-> IF e \in growth.members
                                        THEN [org |-> o, role |-> "admin", status |-> "active"] ELSE NoAccount]
    BY <1>1, Zenon DEF OrganizationsInit
  <2>2. OrganizationsTypeOK
    <3>1. account \in [Emails -> Account \cup {NoAccount}]
      BY <2>1, Zenon DEF Account
    <3>2. growth.members \subseteq Emails
      BY <1>1, OrganizationAssumption, Zenon DEF OrganizationsInit
    <3>3. scope \in [Orgs -> {"none", "active", "disabled"}]
      BY <1>1, Zenon DEF OrganizationsInit
    <3>4. principal \in Principals /\ oauth \in [Emails -> Oauth]
      BY <1>1, Zenon DEF OrganizationsInit, NoCaller, NoOauth, Principals, Oauth
    <3> QED
      BY <1>1, <3>1, <3>2, <3>3, <3>4, Zenon DEF OrganizationsInit, OrganizationsTypeOK, Principals, Oauth
  <2>3. Offers
    BY <1>1, ZenonT(30) DEF OrganizationsInit, Offers, Unissued
  <2>4. Staffed
    BY <1>1, <2>1, OrganizationAssumption, Zenon DEF OrganizationsInit, Staffed, Administrators, NoAccount, Unissued
  <2>5. DeletedLinksStayDead
    BY <1>1, Zenon DEF OrganizationsInit, DeletedLinksStayDead
  <2> QED
    BY <2>2, <2>3, <2>4, <2>5, Zenon DEF OrganizationsInv
<1>2. ASSUME OrganizationsInv, [OrganizationsNext]_orgVars PROVE OrganizationsInv'
  <2>1. CASE UNCHANGED orgVars
    <3>1. OrganizationsTypeOK'
      BY <1>2, <2>1, Zenon DEF orgVars, OrganizationsInv, OrganizationsTypeOK
    <3>2. Offers' /\ (restored \/ Staffed)' /\ DeletedLinksStayDead'
      BY <1>2, <2>1, LinksKeep, Zenon DEF orgVars
    <3> QED
      BY <3>1, <3>2, Zenon DEF OrganizationsInv
  <2> QED
    BY <1>2, <2>1, OrganizationsInvStep, Zenon
<1> QED
  BY <1>1, <1>2, PTL DEF OrganizationsSpec

\* Accounts keep an administrator beside them, unless a profile was written over a change of
\* the account, and no link to a deleted account is usable again (mutateMember, invite, complete).
THEOREM MembersHaveAdministrators == OrganizationsSpec => []OrganizationSafety
<1>1. ASSUME OrganizationsInv PROVE OrganizationSafety
  <2>1. ASSUME Staffed, NEW e \in Emails, account[e] # NoAccount PROVE Administrators(account[e].org) # {}
    BY <1>1, <2>1, ZenonT(30) DEF OrganizationsInv, OrganizationsTypeOK, Account, Staffed
  <2> QED
    BY <1>1, <2>1, Zenon DEF OrganizationsInv, OrganizationSafety, AdministratorStays
<1> QED
  BY <1>1, OrganizationsInvariance, PTL

\* Whoever joins an organization has a pending invitation to it at that moment (complete).
THEOREM JoiningIsInvited == OrganizationsSpec => JoinIsInvited
<1> DEFINE Joins(e) == account[e] = NoAccount /\ account'[e] # NoAccount
           Right(e) == scope[account'[e].org] # "none" =>
                         /\ scope[account'[e].org] = "active"
                         /\ \E l \in Links : Pending(l, e, account'[e].org) /\ link[l].role = account'[e].role
<1>1. ASSUME OrganizationsInv, OrganizationsNext, NEW x \in Emails, Joins(x) PROVE Right(x)
  <2>1. account' # account
    BY <1>1, Zenon
  <2>2. ASSUME NEW e \in Emails, UpdateUser(e) PROVE FALSE
    BY <1>1, <2>2, Zenon DEF UpdateUser, OrganizationsInv, OrganizationsTypeOK
  <2>3. ASSUME NEW c, NEW o \in Orgs, NEW e \in Emails, NEW next, mutateMember(c, o, e, next) PROVE FALSE
    BY <1>1, <2>3, OrganizationAssumption DEF mutateMember, NoAccount, OrganizationsInv, OrganizationsTypeOK
  <2>4. ASSUME NEW l \in Links, NEW o, NEW role, NEW spent, link[l] \in Issued, Enrol(l, o, role, spent)
        PROVE  link[l].email = x /\ account'[x].org = o /\ account'[x].role = role
    BY <1>1, <2>4, Zenon DEF Enrol, Issued, OrganizationsInv, OrganizationsTypeOK
  <2>5. ASSUME NEW l \in Links, completeInvitation(l) PROVE Right(x)
    <3>1. link[l] \in Issued /\ link[l].kind = "invitation" /\ scope[link[l].org] = "active"
          /\ Enrol(l, link[l].org, link[l].role, {l})
      BY <1>1, <2>5, KindIsIssued, Zenon DEF completeInvitation, OrganizationsInv
    <3> QED
      BY <2>4, <3>1, Zenon DEF Pending
  <2>6. ASSUME NEW l \in Links, NEW k \in Links, completeGoogle(l, k) PROVE Right(x)
    <3>1. link[l] \in Issued /\ Pending(k, link[l].email, link[l].org) /\ scope[link[l].org] = "active"
          /\ Enrol(l, link[l].org, link[k].role, {l, k})
      BY <1>1, <2>6, KindIsIssued, Zenon DEF completeGoogle, OrganizationsInv
    <3> QED
      BY <2>4, <3>1
  <2>7. ASSUME NEW l \in Links, NEW o \in Orgs, completeSignup(l, o) PROVE Right(x)
    <3>1. link[l] \in Issued /\ scope[o] = "none" /\ Enrol(l, o, "admin", {l})
      BY <1>1, <2>7, KindIsIssued, Zenon DEF completeSignup, OrganizationsInv
    <3> QED
      BY <2>4, <3>1, Zenon
  <2>8. OrganizationsNext =>
          \/ account' = account
          \/ \E e \in Emails : UpdateUser(e)
          \/ \E c, next : \E o \in Orgs, e \in Emails : mutateMember(c, o, e, next)
          \/ \E l \in Links : completeInvitation(l)
          \/ \E l \in Links, k \in Links : completeGoogle(l, k)
          \/ \E l \in Links, o \in Orgs : completeSignup(l, o)
    <3>1. ASSUME NEW e \in Emails, NEW c, NEW o \in Orgs, NEW role, NEW status, updateMember(c, o, e, role, status)
          PROVE  \E next : mutateMember(c, o, e, next)
      BY <3>1, Zenon DEF updateMember
    <3>2. ASSUME NEW e \in Emails, NEW c, NEW o \in Orgs, deleteMember(c, o, e)
          PROVE  \E next : mutateMember(c, o, e, next)
      BY <3>2, Zenon DEF deleteMember
    <3>3. ASSUME NEW e \in Emails,
                 \/ login(e) \/ CreateSession(e) \/ CheckSession(e) \/ AuthenticateRequest(e) \/ Refuse(e)
                 \/ requestSignup(e) \/ googleCallback(e) \/ LinkIdentity(e) \/ UpdateProfile(e)
          PROVE  account' = account
      BY <3>3, Zenon DEF login, CreateSession, CheckSession, AuthenticateRequest, Refuse, requestSignup,
                  googleCallback, LinkIdentity, UpdateProfile
    <3>4. ASSUME NEW o \in Orgs, administrationOrganizations(o) \/ administrationOrganization(o) PROVE account' = account
      BY <3>4, Zenon DEF administrationOrganizations, administrationOrganization
    <3>5. ASSUME NEW l \in Links, NEW c, NEW o, NEW role, NEW e,
                 \/ invite(c, o, e, role, l) \/ revokeInvitation(c, l) \/ LinkExpires(l) \/ googleSession(l)
                 \/ SendSignup(e, l) \/ IssueGoogle(e, l)
          PROVE  account' = account
      BY <3>5, Zenon DEF invite, revokeInvitation, LinkExpires, googleSession, SendSignup, IssueGoogle
    <3>6. ASSUME NEW e, NEW i, NEW linking, startGoogle(e, i, linking) PROVE account' = account
      BY <3>6, Zenon DEF startGoogle
    <3> QED
      BY <3>1, <3>2, <3>3, <3>4, <3>5, <3>6, Zenon DEF OrganizationsNext
  <2> HIDE DEF Right, Joins
  <2> QED
    BY <1>1, <2>1, <2>2, <2>3, <2>5, <2>6, <2>7, <2>8, Zenon
<1>2. ASSUME OrganizationsInv, [OrganizationsNext]_orgVars
      PROVE  [\A e \in Emails : account[e] = NoAccount /\ account'[e] # NoAccount /\ scope[account'[e].org] # "none" =>
                /\ scope[account'[e].org] = "active"
                /\ \E l \in Links : Pending(l, e, account'[e].org) /\ link[l].role = account'[e].role]_orgVars
  BY <1>1, <1>2, Zenon
<1> QED
  BY <1>2, OrganizationsInvariance, PTL DEF OrganizationsSpec, JoinIsInvited

-----------------------------------------------------------------------------
(* The handover of an agent *)

Punctual == marks \cap {"repeated", "raced"} = {}
Clean    == marks \cap {"resaved", "raced", "repeated"} = {}
Asked    == {"task", "again"}

RoutineRecords == [cmd : Commands \cup {"none"}, at : 0..3]
PassageRecords == [stops : Nat, drops : Nat, again : Nat, fails : Nat, wants : {"commit", "rollback"}]
ProcessRecords == [to : {"source", "target"}, shows : {"token", "source", "target"}, on : BOOLEAN,
                   is : {"new", "ending", "up"}, unsaved : BOOLEAN]
HandoverTypes ==
  /\ passage \in PassageRecords /\ process \in ProcessRecords /\ routine \in [Routines -> RoutineRecords]
  /\ secret \in {"none", "prepared", "target-confirmed", "committed"}
  /\ bootstrap \in {"source", "target"} /\ saved \in {"none", "source", "target"}
  /\ rolling \in BOOLEAN /\ expired \in BOOLEAN /\ token \in {"fresh", "used"}
  /\ told \subseteq Commands /\ heard \subseteq Commands
  /\ marks \subseteq {"committed", "resaved", "repeated", "unrolled", "returned", "raced", "lost"}

\* What was sent, in the order of the coordinator, and what is on record because of it.
SentInOrder ==
  /\ \A r \in Asked : routine[r].cmd # "none" => routine[r].cmd \in told
  /\ heard \subseteq told
  /\ "commit" \in told => "confirm" \in heard /\ passage.wants = "commit"
  /\ "cleanup" \in told => "commit" \in heard
  /\ "rollback" \in told => passage.wants = "rollback"
  /\ "committed" \in marks => "commit" \in told
  /\ secret = "committed" => "committed" \in marks

\* Who may be at work: a goroutine lives no longer than its process, so what it serves is
\* told by where the process is connected.
RoutinesFit ==
  /\ routine["watch"].cmd \in {"none", "rollback"}
  /\ routine["watch"].cmd = "rollback" => expired
  /\ \A r \in Asked : routine[r].cmd = "rollback" => process.to = "target"
  /\ \A r \in Routines : routine[r].cmd = "prepare" => process.to = "source"

\* The way to the target, which nothing leaves before the deadline.
Forward ==
  /\ Punctual => \A r \in Routines : routine[r].cmd = "prepare" /\ routine[r].at > 0 => ~expired /\ secret # "none"
  /\ passage.wants = "commit" /\ ~expired /\ process.to = "target" => bootstrap = "target"
  /\ passage.wants = "commit" /\ ~expired /\ "confirm" \in told => process.to = "target"
  /\ Punctual => routine["again"].cmd # "confirm"
  /\ Punctual /\ "confirm" \in heard => \A r \in Routines : routine[r].cmd # "confirm"
Over ==
  /\ Punctual /\ "committed" \in marks =>
       bootstrap = "target" /\ secret \in {"none", "committed"} /\ routine["watch"].cmd # "rollback"
  /\ Punctual => \A r \in Routines : routine[r].cmd = "cleanup" /\ routine[r].at > 0 => "committed" \in marks

\* The way back.
Back ==
  Clean => \A r \in Routines : routine[r].cmd = "rollback" =>
    (routine[r].at > 0 => bootstrap = "source") /\ (routine[r].at > 1 => saved = "source")

HandoverInv ==
  HandoverTypes /\ SentInOrder /\ RoutinesFit /\ Forward /\ Over /\ Back /\ SecretCoversTheChange

USE DEF Commands, Routines

LEMMA HandoverInvSuffices == HandoverInv => HandoverSafety
  BY Zenon DEF HandoverInv, HandoverTypes, HandoverSafety, HandoverTypeOK, ProcessRecords, RoutineRecords

LEMMA HandoverStarts == HandoverInit => HandoverInv
<1> SUFFICES ASSUME HandoverInit PROVE HandoverInv
  OBVIOUS
<1>1. HandoverTypes
  <2>1. passage \in PassageRecords
    BY PassageAssumption, Zenon DEF HandoverInit, PassageRecords
  <2>2. process \in ProcessRecords
    BY Zenon DEF HandoverInit, ProcessRecords
  <2>3. Unused \in RoutineRecords
    BY DEF Unused, RoutineRecords
  <2> QED  BY <2>1, <2>2, <2>3, Zenon DEF HandoverInit, HandoverTypes
<1>2. \A r \in Routines : routine[r].cmd = "none"
  BY Zenon DEF HandoverInit, Unused
<1>3. SentInOrder /\ RoutinesFit /\ Forward /\ Over /\ Back /\ SecretCoversTheChange
  BY <1>2, Zenon DEF HandoverInit, SentInOrder, RoutinesFit, Forward, Over, Back, SecretCoversTheChange, Asked
<1> QED  BY <1>1, <1>3, Zenon DEF HandoverInv

\* A process that starts: its goroutines are gone, and it goes where the Secret says.
LEMMA StartKeeps ==
  ASSUME HandoverInv, Started, UNCHANGED <<secret, bootstrap, saved, expired, token, told, heard>>,
         passage' \in PassageRecords, passage'.wants = passage.wants, rolling' \in BOOLEAN
  PROVE  HandoverInv'
<1>1. /\ \A r \in Routines : routine'[r] = Unused
      /\ process' \in ProcessRecords /\ process'.to = bootstrap
      /\ marks \subseteq marks' /\ marks' \subseteq marks \cup {"lost"}
  BY Zenon DEF Started, HandoverInv, HandoverTypes, ProcessRecords
<1>2. routine' \in [Routines -> RoutineRecords]
  BY DEF Started, Unused, RoutineRecords
<1>3. \A r \in Routines : routine'[r].cmd = "none"
  BY <1>1 DEF Unused
<1>4. (Punctual' <=> Punctual) /\ (Clean' <=> Clean) /\ ("committed" \in marks' <=> "committed" \in marks)
  BY <1>1, Zenon DEF Punctual, Clean
<1>5. HandoverTypes'
  BY <1>1, <1>2, Zenon DEF HandoverInv, HandoverTypes
<1>6. SentInOrder'
  BY <1>3, <1>4, Zenon DEF HandoverInv, SentInOrder, Asked
<1>7. RoutinesFit' /\ Back'
  BY <1>3, Zenon DEF HandoverInv, RoutinesFit, Back, Asked
<1>8. Forward'
  BY <1>1, <1>3, <1>4, Zenon DEF HandoverInv, HandoverTypes, Forward
<1>9. Over'
  BY <1>3, <1>4, Zenon DEF HandoverInv, Over
<1>10. SecretCoversTheChange'
  BY <1>4, Zenon DEF HandoverInv, SecretCoversTheChange, Clean
<1> QED  BY <1>5, <1>6, <1>7, <1>8, <1>9, <1>10, Zenon DEF HandoverInv

LEMMA ProcessesKeep ==
  ASSUME HandoverInv, Roll \/ StopProcess \/ EndUp
  PROVE  HandoverInv'
<1>1. CASE Roll
  BY <1>1, StartKeeps, Zenon DEF Roll, HandoverInv, HandoverTypes
<1>2. CASE StopProcess
  <2>1. passage' \in PassageRecords /\ passage'.wants = passage.wants
    BY <1>2 DEF StopProcess, HandoverInv, HandoverTypes, PassageRecords
  <2> QED  BY <1>2, <2>1, StartKeeps, Zenon DEF StopProcess, HandoverInv, HandoverTypes
<1>3. CASE EndUp
  BY <1>3, StartKeeps, Zenon DEF EndUp, HandoverInv, HandoverTypes
<1> QED  BY <1>1, <1>2, <1>3, Zenon

\* The watcher begins a rollback only after the deadline and before a commit.
LEMMA WatcherKeeps ==
  ASSUME HandoverInv, Lapsed, routine' = [routine EXCEPT !["watch"] = [cmd |-> "rollback", at |-> 0]],
         process' \in ProcessRecords, process'.to = process.to,
         UNCHANGED <<passage, secret, bootstrap, saved, rolling, token, expired, told, heard, marks>>
  PROVE  HandoverInv'
<1>1. /\ routine'["watch"].cmd = "rollback" /\ routine'["watch"].at = 0
      /\ \A r \in Asked : routine'[r] = routine[r]
      /\ routine' \in [Routines -> RoutineRecords]
  BY DEF HandoverInv, HandoverTypes, RoutineRecords, Asked
<1>2. (Punctual' <=> Punctual) /\ (Clean' <=> Clean)
  BY Zenon DEF Punctual, Clean
<1>3. Routines = Asked \cup {"watch"}
  BY Zenon DEF Asked
<1>5. HandoverTypes'
  BY <1>1, Zenon DEF HandoverInv, HandoverTypes
<1>6. SentInOrder'
  BY <1>1 DEF HandoverInv, SentInOrder
<1>7. RoutinesFit'
  BY <1>1, <1>3, Zenon DEF HandoverInv, RoutinesFit, Lapsed
<1>8. Forward'
  BY <1>1, <1>2, <1>3, Zenon DEF HandoverInv, Forward
<1>9. Over'
  BY <1>1, <1>2, <1>3, Zenon DEF HandoverInv, Over, Lapsed, HandoverTypes
<1>10. Back'
  BY <1>1, <1>2, <1>3 DEF HandoverInv, Back
<1>11. SecretCoversTheChange'
  BY Zenon DEF HandoverInv, SecretCoversTheChange
<1> QED  BY <1>5, <1>6, <1>7, <1>8, <1>9, <1>10, <1>11, Zenon DEF HandoverInv

\* A step of the process alone.
LEMMA ConnectionsKeep ==
  ASSUME HandoverInv, process' \in ProcessRecords, process'.to = process.to,
         passage' \in PassageRecords, passage'.wants = passage.wants, token' \in {"fresh", "used"},
         UNCHANGED <<secret, bootstrap, saved, rolling, routine, expired, told, heard, marks>>
  PROVE  HandoverInv'
<1>1. HandoverTypes'
  BY Zenon DEF HandoverInv, HandoverTypes
<1>2. SentInOrder' /\ RoutinesFit' /\ Forward'
  BY Zenon DEF HandoverInv, SentInOrder, RoutinesFit, Forward, Punctual
<1>3. Over' /\ Back' /\ SecretCoversTheChange'
  BY Zenon DEF HandoverInv, Over, Back, SecretCoversTheChange, Punctual, Clean
<1> QED  BY <1>1, <1>2, <1>3, Zenon DEF HandoverInv

LEMMA ProcessWorks ==
  ASSUME HandoverInv, StartUp \/ watchHandoverDeadline \/ Connect \/ DropLink
  PROVE  HandoverInv'
<1> USE DEF HandoverInv, HandoverTypes
<1>1. CASE StartUp
  <2>1. process' \in ProcessRecords /\ process'.to = process.to
    BY <1>1, Zenon DEF StartUp, ProcessRecords
  <2>2. CASE Lapsed
    BY <1>1, <2>1, <2>2, WatcherKeeps, Zenon DEF StartUp
  <2>3. CASE ~Lapsed
    BY <1>1, <2>1, <2>3, ConnectionsKeep, Zenon DEF StartUp
  <2> QED  BY <2>2, <2>3, Zenon
<1>2. CASE watchHandoverDeadline
  BY <1>2, WatcherKeeps, Zenon DEF watchHandoverDeadline
<1>3. CASE Connect
  <2>1. process' \in ProcessRecords /\ process'.to = process.to
    BY <1>3, Zenon DEF Connect, ProcessRecords
  <2> QED  BY <1>3, <2>1, ConnectionsKeep, Zenon DEF Connect
<1>4. CASE DropLink
  <2>1. process' \in ProcessRecords /\ process'.to = process.to
    BY <1>4, Zenon DEF DropLink, ProcessRecords
  <2>2. passage' \in PassageRecords /\ passage'.wants = passage.wants
    BY <1>4 DEF DropLink, PassageRecords
  <2> QED  BY <1>4, <2>1, <2>2, ConnectionsKeep, Zenon DEF DropLink
<1> QED  BY <1>1, <1>2, <1>3, <1>4, Zenon

\* A credential that is written while a command works on it, or after the endpoint has
\* moved, is marked; any other belongs to the endpoint.
LEMMA PersistKeeps ==
  ASSUME HandoverInv, Persist
  PROVE  HandoverInv'
<1>1. process' \in ProcessRecords /\ process'.to = process.to /\ saved' = process.to /\ saved' \in {"source", "target"}
  BY Zenon DEF Persist, HandoverInv, HandoverTypes, ProcessRecords
<1>2. /\ Punctual' <=> Punctual
      /\ "committed" \in marks' <=> "committed" \in marks
      /\ marks' \subseteq marks \cup {"resaved"} /\ marks \subseteq marks'
      /\ UNCHANGED <<passage, secret, bootstrap, rolling, token, routine, expired, told, heard>>
  BY Zenon DEF Persist, Punctual
<1>3. Clean' => Clean /\ bootstrap = process.to /\ \A r \in Routines : routine[r].cmd \notin {"prepare", "rollback"}
  BY Zenon DEF Persist, Clean
<1>4. HandoverTypes'
  BY <1>1, <1>2, Zenon DEF HandoverInv, HandoverTypes
<1>5. SentInOrder' /\ RoutinesFit' /\ Forward' /\ Over'
  BY <1>1, <1>2, Zenon DEF HandoverInv, SentInOrder, RoutinesFit, Forward, Over
<1>6. Back'
  BY <1>2, <1>3, Zenon DEF Back
<1>7. SecretCoversTheChange'
  BY <1>1, <1>2, <1>3, Zenon DEF SecretCoversTheChange, Clean
<1> QED  BY <1>4, <1>5, <1>6, <1>7, Zenon DEF HandoverInv

\* A goroutine that ends without a write.
LEMMA EndingKeeps ==
  ASSUME HandoverInv, NEW r \in Routines, routine' = [routine EXCEPT ![r] = Unused],
         passage' \in PassageRecords, passage'.wants = passage.wants,
         heard' = heard, marks' \in {marks, marks \cup {"unrolled"}},
         UNCHANGED <<secret, bootstrap, saved, process, rolling, token, expired, told>>
  PROVE  HandoverInv'
<1>1. /\ \A x \in Routines : routine'[x] = routine[x] \/ routine'[x].cmd = "none"
      /\ routine' \in [Routines -> RoutineRecords]
  BY DEF HandoverInv, HandoverTypes, RoutineRecords, Unused
<1>2. /\ (Punctual' <=> Punctual) /\ (Clean' <=> Clean)
      /\ "committed" \in marks' <=> "committed" \in marks
  BY Zenon DEF Punctual, Clean
<1>5. HandoverTypes'
  BY <1>1, Zenon DEF HandoverInv, HandoverTypes
<1>6. SentInOrder'
  BY <1>1, <1>2, Zenon DEF HandoverInv, SentInOrder, Asked
<1>7. RoutinesFit'
  BY <1>1, Zenon DEF HandoverInv, RoutinesFit, Asked
<1>8. Forward' /\ Over' /\ Back'
  BY <1>1, <1>2 DEF HandoverInv, Forward, Over, Back
<1>11. SecretCoversTheChange'
  BY <1>2, Zenon DEF HandoverInv, SecretCoversTheChange, Clean
<1> QED  BY <1>5, <1>6, <1>7, <1>8, <1>11, Zenon DEF HandoverInv

LEMMA FailuresKeep ==
  ASSUME HandoverInv, NEW r \in Routines, ApiFails(r)
  PROVE  HandoverInv'
<1>1. passage' \in PassageRecords /\ passage'.wants = passage.wants
  BY DEF ApiFails, HandoverInv, HandoverTypes, PassageRecords
<1> QED  BY <1>1, EndingKeeps, Zenon DEF ApiFails, Fail

\* A command that begins.
LEMMA CommandsKeep ==
  ASSUME HandoverInv, NEW cmd \in Commands,
         dispatchControlPlaneHandover(cmd) \/ RedispatchCommand(cmd)
  PROVE  HandoverInv'
<1>1. PICK r \in Asked : /\ routine' = [routine EXCEPT ![r] = [cmd |-> cmd, at |-> 0]]
                         /\ r = "task" => dispatchControlPlaneHandover(cmd)
                         /\ r = "again" => RedispatchCommand(cmd)
  BY Zenon DEF dispatchControlPlaneHandover, RedispatchCommand, Asked
<1>2. /\ \A x \in Routines \ {r} : routine'[x] = routine[x]
      /\ routine'[r].cmd = cmd /\ routine'[r].at = 0
      /\ routine' \in [Routines -> RoutineRecords]
  BY <1>1 DEF HandoverInv, HandoverTypes, RoutineRecords, Asked
<1>3. /\ passage' \in PassageRecords /\ passage'.wants = passage.wants
      /\ UNCHANGED <<secret, bootstrap, saved, process, rolling, token, expired, heard>>
  BY DEF dispatchControlPlaneHandover, RedispatchCommand, HandoverInv, HandoverTypes, PassageRecords
<1>4. /\ told' = told \cup {cmd}
      /\ marks' \in {marks, marks \cup {"repeated"}}
      /\ Punctual' => Punctual /\ (cmd = "confirm" => r = "task" /\ "confirm" \notin told)
      /\ Clean' => Clean
      /\ "committed" \in marks' <=> "committed" \in marks
  BY <1>1, Zenon DEF dispatchControlPlaneHandover, RedispatchCommand, Punctual, Clean, Asked
<1>5. \/ cmd \in told /\ process.to = (IF cmd = "prepare" THEN "source" ELSE "target")
      \/ MaySend(cmd)
  BY <1>1, Zenon DEF dispatchControlPlaneHandover, RedispatchCommand, Asked
<1>6. /\ cmd = "prepare" => process.to = "source"
      /\ cmd = "confirm" => process.to = "target"
      /\ cmd = "rollback" => process.to = "target" /\ passage.wants = "rollback"
      /\ cmd = "commit" => "confirm" \in heard /\ passage.wants = "commit"
      /\ cmd = "cleanup" => "commit" \in heard
  BY <1>5, Zenon DEF MaySend, HandoverInv, SentInOrder
<1>7. HandoverTypes'
  BY <1>2, <1>3, <1>4 DEF HandoverInv, HandoverTypes, dispatchControlPlaneHandover, RedispatchCommand
<1>8. SentInOrder'
  BY <1>2, <1>3, <1>4, <1>6, Zenon DEF HandoverInv, SentInOrder, Asked
<1>9. RoutinesFit'
  BY <1>2, <1>3, <1>6, Zenon DEF HandoverInv, RoutinesFit, Asked
<1>10. Forward'
  <2>1. Punctual' /\ "confirm" \in heard' => \A x \in Routines : routine'[x].cmd # "confirm"
    BY <1>2, <1>3, <1>4, Zenon DEF HandoverInv, Forward, SentInOrder
  <2>2. Punctual' => \A x \in Routines : routine'[x].cmd = "prepare" /\ routine'[x].at > 0 => ~expired' /\ secret' # "none"
    BY <1>2, <1>3, <1>4 DEF HandoverInv, Forward
  <2>3. Punctual' => routine'["again"].cmd # "confirm"
    BY <1>2, <1>4, Zenon DEF HandoverInv, Forward, Asked
  <2> QED  BY <1>3, <1>4, <1>6, <2>1, <2>2, <2>3, Zenon DEF HandoverInv, Forward
<1>11. Over'
  BY <1>2, <1>3, <1>4 DEF HandoverInv, Over, Asked
<1>12. Back'
  BY <1>2, <1>3, <1>4 DEF HandoverInv, Back
<1>13. SecretCoversTheChange'
  BY <1>3, <1>4, Zenon DEF HandoverInv, SecretCoversTheChange, Clean
<1> QED  BY <1>7, <1>8, <1>9, <1>10, <1>11, <1>12, <1>13, Zenon DEF HandoverInv

LEMMA DeadlineKeeps ==
  ASSUME HandoverInv, Expire
  PROVE  HandoverInv'
<1>1. /\ expired' = TRUE /\ marks' \in {marks, marks \cup {"raced"}}
      /\ UNCHANGED <<passage, secret, bootstrap, saved, process, rolling, token, routine, told, heard>>
      /\ Punctual' => Punctual /\ \A r \in Routines : routine[r].cmd # "prepare"
      /\ Clean' => Clean
      /\ "committed" \in marks' <=> "committed" \in marks
  BY Zenon DEF Expire, Preparing, Punctual, Clean
<1>5. HandoverTypes'
  BY <1>1, Zenon DEF HandoverInv, HandoverTypes
<1>6. SentInOrder' /\ RoutinesFit'
  BY <1>1, Zenon DEF HandoverInv, SentInOrder, RoutinesFit
<1>7. Forward'
  BY <1>1, Zenon DEF HandoverInv, Forward
<1>8. Over' /\ Back'
  BY <1>1, Zenon DEF HandoverInv, Over, Back
<1>9. SecretCoversTheChange'
  BY <1>1, Zenon DEF HandoverInv, SecretCoversTheChange, Clean
<1> QED  BY <1>5, <1>6, <1>7, <1>8, <1>9, Zenon DEF HandoverInv

-----------------------------------------------------------------------------
\* What a step of a command does to the goroutines and to what was reported.
Moves(r) ==
  /\ routine' \in [Routines -> RoutineRecords] /\ \A x \in Routines \ {r} : routine'[x] = routine[x]
  /\ routine[r].cmd # "none"
  /\ \/ routine'[r].cmd = "none"
     \/ routine'[r].cmd = routine[r].cmd /\ routine'[r].at = routine[r].at + 1 /\ heard' = heard
  /\ heard \subseteq heard' /\ heard' \subseteq heard \cup {routine[r].cmd}
  /\ r = "watch" => heard' = heard

LEMMA GotoMoves ==
  ASSUME HandoverTypes, NEW r \in Routines, NEW n \in 1..3, Goto(r, n), routine[r].at = n - 1, routine[r].cmd # "none",
         heard' = heard
  PROVE  Moves(r) /\ routine'[r].cmd = routine[r].cmd /\ routine'[r].at = n
<1>1. routine[r] \in RoutineRecords
  BY Zenon DEF HandoverTypes
<1>2. [routine[r] EXCEPT !.at = n] \in RoutineRecords /\ [routine[r] EXCEPT !.at = n].cmd = routine[r].cmd
      /\ [routine[r] EXCEPT !.at = n].at = n
  BY <1>1 DEF RoutineRecords
<1>3. routine' = [routine EXCEPT ![r] = [routine[r] EXCEPT !.at = n]]
  BY Zenon DEF Goto
<1> QED  BY <1>2, <1>3 DEF HandoverTypes, Moves

LEMMA EndMoves ==
  ASSUME HandoverTypes, NEW r \in Routines, Done(r) \/ Fail(r), routine[r].cmd # "none"
  PROVE  Moves(r) /\ routine'[r].cmd = "none"
<1>1. routine' = [routine EXCEPT ![r] = Unused]
  BY Zenon DEF Done, Fail
<1>2. Unused \in RoutineRecords /\ Unused.cmd = "none"
  BY DEF Unused, RoutineRecords
<1>3. heard \subseteq heard' /\ heard' \subseteq heard \cup {routine[r].cmd} /\ (r = "watch" => heard' = heard)
  BY Zenon DEF Done, Fail
<1> QED  BY <1>1, <1>2, <1>3, Zenon DEF HandoverTypes, Moves

\* What holds after such a step whatever it writes.
MarksGrow ==
  /\ marks \subseteq marks'
  /\ marks' \subseteq {"committed", "resaved", "repeated", "unrolled", "returned", "raced", "lost"}
  /\ (Punctual' => Punctual) /\ (Clean' => Clean) /\ (Clean' => Punctual')
LEMMA MarkedGrows ==
  ASSUME HandoverInv, Marked
  PROVE  /\ MarksGrow
         /\ "committed" \in marks' <=> ("committed" \in marks \/ (secret' = "committed" /\ secret # "committed"))
         /\ secret' = "committed" /\ secret # "committed" /\ Punctual' => ~expired
  BY Zenon DEF HandoverInv, HandoverTypes, Marked, MarksGrow, Punctual, Clean

\* The frame of a command's step.
Framed(r) ==
  /\ Moves(r) /\ MarksGrow /\ UNCHANGED <<passage, process, token, expired, told>>
  /\ secret' \in {"none", "prepared", "target-confirmed", "committed"}
  /\ bootstrap' \in {"source", "target"} /\ saved' \in {"none", "source", "target"} /\ rolling' \in BOOLEAN

LEMMA FrameKeeps ==
  ASSUME HandoverInv, NEW r \in Routines, Framed(r)
  PROVE  /\ HandoverTypes' /\ RoutinesFit'
         /\ \A x \in Asked : routine'[x].cmd # "none" => routine'[x].cmd \in told'
         /\ heard' \subseteq told'
         /\ "commit" \in told' => "confirm" \in heard' /\ passage'.wants = "commit"
         /\ "cleanup" \in told' => "commit" \in heard'
         /\ "rollback" \in told' => passage'.wants = "rollback"
         /\ passage'.wants = "commit" /\ ~expired' /\ "confirm" \in told' => process'.to = "target"
         /\ Punctual' => routine'["again"].cmd # "confirm"
<1> USE DEF Framed, Moves, HandoverInv
<1>1. routine[r].cmd \in Commands /\ (r # "watch" => r \in Asked)
  BY Zenon DEF HandoverTypes, RoutineRecords, Asked
<1>2. r \in Asked => routine[r].cmd \in told
  BY Zenon DEF SentInOrder
<1>3. heard' \subseteq told' /\ heard' \subseteq Commands
  BY <1>1, <1>2, Zenon DEF SentInOrder, HandoverTypes
<1>4. HandoverTypes'
  BY <1>3, Zenon DEF HandoverTypes, MarksGrow
<1>5. RoutinesFit'
  BY <1>1, Zenon DEF RoutinesFit, Asked
<1>6. \A x \in Asked : routine'[x].cmd # "none" => routine'[x].cmd \in told'
  BY Zenon DEF SentInOrder, Asked
<1>7. /\ "commit" \in told' => "confirm" \in heard' /\ passage'.wants = "commit"
      /\ "cleanup" \in told' => "commit" \in heard'
      /\ "rollback" \in told' => passage'.wants = "rollback"
  BY Zenon DEF SentInOrder
<1>8. passage'.wants = "commit" /\ ~expired' /\ "confirm" \in told' => process'.to = "target"
  BY Zenon DEF Forward
<1>9. Punctual' => routine'["again"].cmd # "confirm"
  BY Zenon DEF Forward, MarksGrow
<1> QED  BY <1>3, <1>4, <1>5, <1>6, <1>7, <1>8, <1>9, Zenon

\* What is left to show of a step of a command.
LEMMA FramedSuffices ==
  ASSUME HandoverInv, NEW r \in Routines, Framed(r),
         "committed" \in marks' => "commit" \in told', secret' = "committed" => "committed" \in marks',
         Punctual' => \A x \in Routines : routine'[x].cmd = "prepare" /\ routine'[x].at > 0 => ~expired' /\ secret' # "none",
         passage'.wants = "commit" /\ ~expired' /\ process'.to = "target" => bootstrap' = "target",
         Punctual' /\ "confirm" \in heard' => \A x \in Routines : routine'[x].cmd # "confirm",
         Over', Back', SecretCoversTheChange'
  PROVE  HandoverInv'
<1>1. SentInOrder'
  BY FrameKeeps, Zenon DEF SentInOrder
<1>2. Forward'
  BY FrameKeeps, Zenon DEF Forward
<1> QED  BY <1>1, <1>2, FrameKeeps, Zenon DEF HandoverInv

\* Prepare: the process is the source's, so that nothing but the watcher could roll back or
\* clean up beside it, and the watcher only after the deadline.
LEMMA PrepareKeeps ==
  ASSUME HandoverInv, NEW r \in Routines, Work(r), Prepare(r)
  PROVE  HandoverInv'
<1> USE DEF HandoverInv
<1>1. /\ Marked /\ UNCHANGED <<passage, process, token, expired, told>>
      /\ routine[r].cmd = "prepare"
  BY Zenon DEF Work, Prepare, Run
<1>2. /\ secret' \in {secret, "prepared"} /\ bootstrap' \in {bootstrap, "target"} /\ saved' \in {saved, "none"}
      /\ rolling' \in BOOLEAN
  BY Zenon DEF Prepare, HandoverTypes
<1>3. Moves(r)
  BY <1>1, GotoMoves, EndMoves DEF Prepare, Run
<1>4. Framed(r)
  BY <1>1, <1>2, <1>3, MarkedGrows, Zenon DEF Framed, HandoverTypes
<1>5. process.to = "source" /\ r # "watch"
  BY <1>1, Zenon DEF RoutinesFit
<1>6. /\ "committed" \in marks' <=> "committed" \in marks
      /\ secret' = "committed" => secret = "committed"
      /\ (Punctual' => Punctual) /\ (Clean' => Clean) /\ (Clean' => Punctual')
  BY <1>1, <1>2, MarkedGrows, Zenon DEF MarksGrow
<1>7. Punctual' /\ (secret' # secret \/ bootstrap' # bootstrap \/ saved' # saved) => ~expired
  BY <1>1, <1>6 DEF Prepare, Run, Forward
<1>8. Punctual' /\ "committed" \in marks => expired
  BY <1>5, <1>6, Zenon DEF SentInOrder, Forward
<1>9. Punctual' => \A x \in Routines : routine'[x].cmd = "prepare" /\ routine'[x].at > 0 => ~expired' /\ secret' # "none"
  <2>1. ASSUME Punctual', routine'[r].cmd = "prepare", routine'[r].at > 0 PROVE ~expired' /\ secret' # "none"
    <3>1. CASE Run(r, "prepare", 0)
      BY <1>1, <2>1, <3>1, EndMoves, SMTT(30) DEF Prepare, Run
    <3>2. CASE ~Run(r, "prepare", 0)
      BY <1>1, <1>6, <2>1, <3>2 DEF Prepare, Run, Forward
    <3> QED  BY <3>1, <3>2, Zenon
  <2>2. ASSUME Punctual', NEW x \in Routines \ {r}, routine'[x].cmd = "prepare", routine'[x].at > 0
        PROVE  ~expired' /\ secret' # "none"
    BY <1>1, <1>2, <1>3, <1>6, <2>2, Zenon DEF Moves, Forward
  <2> QED  BY <2>1, <2>2, Zenon
<1>10. passage'.wants = "commit" /\ ~expired' /\ process'.to = "target" => bootstrap' = "target"
  BY <1>1, <1>5, Zenon
<1>11. Punctual' /\ "confirm" \in heard' => \A x \in Routines : routine'[x].cmd # "confirm"
  BY <1>1, <1>3, <1>6, Zenon DEF Moves, Forward
<1>12. Over'
  BY <1>1, <1>3, <1>6, <1>7, <1>8, Zenon DEF Moves, Over
<1>13. Back'
  <2>1. ASSUME Clean', NEW x \in Routines, routine'[x].cmd = "rollback" PROVE UNCHANGED <<bootstrap, saved>>
    BY <1>1, <1>3, <1>5, <1>6, <1>7, <2>1, Zenon DEF Moves, RoutinesFit, Asked
  <2> QED  BY <1>1, <1>3, <1>6, <2>1, Zenon DEF Moves, Back
<1>14. SecretCoversTheChange'
  <2>1. Clean' /\ secret' = "none" => UNCHANGED <<secret, bootstrap, saved>>
    BY <1>1, <1>6, <1>9 DEF Prepare, Run, Forward
  <2> QED  BY <1>6, <2>1, Zenon DEF SecretCoversTheChange, Clean
<1> QED  BY <1>1, <1>4, <1>6, <1>9, <1>10, <1>11, <1>12, <1>13, <1>14, FramedSuffices, Zenon DEF SentInOrder

\* Confirm runs once, before anybody commits.
LEMMA ConfirmKeeps ==
  ASSUME HandoverInv, NEW r \in Routines, Work(r), Confirm(r)
  PROVE  HandoverInv'
<1> USE DEF HandoverInv
<1>1. /\ Marked /\ UNCHANGED <<passage, process, token, expired, told, bootstrap, saved, rolling>>
      /\ routine[r].cmd = "confirm" /\ secret' \in {secret, "target-confirmed"}
  BY Zenon DEF Work, Confirm, Run, Done
<1>2. CASE Run(r, "confirm", 0)
  <2>1. Moves(r) /\ heard' = heard /\ secret' = secret
    <3>1. heard' = heard /\ secret' = secret
      BY <1>2 DEF Confirm, Run
    <3>2. CASE secret = "none"
      BY <1>1, <1>2, <3>1, <3>2, EndMoves, Zenon DEF Confirm, Run, Fail
    <3>3. CASE secret # "none"
      BY <1>1, <1>2, <3>1, <3>3, GotoMoves DEF Confirm, Run
    <3> QED  BY <3>1, <3>2, <3>3, Zenon
  <2>2. Framed(r)
    BY <1>1, <2>1, MarkedGrows, Zenon DEF Framed, HandoverTypes
  <2>3. /\ "committed" \in marks' <=> "committed" \in marks
        /\ (Punctual' => Punctual) /\ (Clean' => Clean)
    BY <1>1, <2>1, MarkedGrows, Zenon DEF MarksGrow
  <2>4. \A x \in Routines : routine'[x].cmd # "none" /\ routine'[x].cmd # "confirm" => routine'[x] = routine[x]
    BY <1>1, <2>1, Zenon DEF Moves
  <2>5. \A x \in Routines : routine'[x].cmd = "confirm" => routine[x].cmd = "confirm"
    BY <1>1, <2>1, Zenon DEF Moves
  <2>6. Over' /\ Back'
    <3>1. routine'["watch"].cmd = "rollback" => routine["watch"].cmd = "rollback"
      BY <2>4, Zenon
    <3> QED  BY <1>1, <2>1, <2>3, <2>4, <3>1, Zenon DEF Over, Back
  <2>7. SecretCoversTheChange'
    BY <1>1, <2>1, <2>3, Zenon DEF SecretCoversTheChange, Clean
  <2>8. Punctual' => \A x \in Routines : routine'[x].cmd = "prepare" /\ routine'[x].at > 0 => ~expired' /\ secret' # "none"
    BY <1>1, <2>1, <2>3, <2>4, Zenon DEF Forward
  <2>9. Punctual' /\ "confirm" \in heard' => \A x \in Routines : routine'[x].cmd # "confirm"
    BY <2>1, <2>3, <2>5, Zenon DEF Forward
  <2> QED  BY <1>1, <2>1, <2>2, <2>3, <2>6, <2>7, <2>8, <2>9, FramedSuffices, Zenon DEF SentInOrder, Forward
<1>3. CASE Run(r, "confirm", 1)
  <2>1. Moves(r) /\ routine'[r].cmd = "none" /\ secret' = "target-confirmed"
    BY <1>1, <1>3, EndMoves DEF Confirm, Run
  <2>2. Framed(r)
    BY <1>1, <2>1, MarkedGrows, Zenon DEF Framed, HandoverTypes
  <2>3. /\ "committed" \in marks' <=> "committed" \in marks
        /\ (Punctual' => Punctual) /\ (Clean' => Clean)
    BY <1>1, <2>1, MarkedGrows, Zenon DEF MarksGrow
  <2>4. \A x \in Routines : routine'[x].cmd # "none" => routine'[x] = routine[x]
    BY <2>1, Zenon DEF Moves
  <2>5. Punctual => "confirm" \notin heard /\ "committed" \notin marks
    BY <1>1, Zenon DEF Forward, SentInOrder
  <2>6. Over' /\ Back'
    BY <1>1, <2>3, <2>4, <2>5, Zenon DEF Over, Back
  <2>7. SecretCoversTheChange'
    BY <2>1, Zenon DEF SecretCoversTheChange
  <2>8. Punctual' => \A x \in Routines : routine'[x].cmd = "prepare" /\ routine'[x].at > 0 => ~expired' /\ secret' # "none"
    BY <1>1, <2>1, <2>3, <2>4, Zenon DEF Forward
  <2>9. r \in Asked
    BY <1>1, Zenon DEF RoutinesFit, Asked
  <2>10. ASSUME Punctual', NEW x \in Routines PROVE routine'[x].cmd # "confirm"
    BY <1>1, <2>1, <2>3, <2>4, <2>9, <2>10, Zenon DEF Forward, RoutinesFit, Asked
  <2> QED  BY <1>1, <2>1, <2>2, <2>3, <2>6, <2>7, <2>8, <2>10, FramedSuffices, Zenon DEF SentInOrder, Forward
<1> QED  BY <1>2, <1>3, Zenon DEF Confirm

\* A commit before the deadline finds the agent at the target, and no watcher at work.
LEMMA CommitKeeps ==
  ASSUME HandoverInv, NEW r \in Routines, Work(r), Commit(r)
  PROVE  HandoverInv'
<1> USE DEF HandoverInv
<1>1. /\ Marked /\ UNCHANGED <<passage, process, token, expired, told, bootstrap, saved, rolling>>
      /\ routine[r].cmd = "commit" /\ secret' \in {secret, "committed"}
  BY Zenon DEF Work, Commit, Run
<1>2. Moves(r)
  <2>1. CASE Run(r, "commit", 0)
    <3>1. (Goto(r, 1) /\ heard' = heard) \/ Done(r) \/ Fail(r)
      BY <2>1, Zenon DEF Commit, Run
    <3> QED  BY <1>1, <2>1, <3>1, GotoMoves, EndMoves DEF Run
  <2>2. CASE Run(r, "commit", 1)
    BY <1>1, <2>2, EndMoves DEF Commit, Run
  <2> QED  BY <2>1, <2>2, Zenon DEF Commit
<1>3. Framed(r)
  BY <1>1, <1>2, MarkedGrows, Zenon DEF Framed, HandoverTypes
<1>4. r \in Asked /\ "commit" \in told /\ "confirm" \in told /\ passage.wants = "commit"
  BY <1>1, Zenon DEF RoutinesFit, SentInOrder, Asked
<1>5. /\ "committed" \in marks' <=> ("committed" \in marks \/ (secret' = "committed" /\ secret # "committed"))
      /\ (Punctual' => Punctual) /\ (Clean' => Clean)
      /\ secret' = "committed" /\ secret # "committed" /\ Punctual' => ~expired
  BY <1>1, MarkedGrows, Zenon DEF MarksGrow
<1>6. Punctual' /\ secret' # secret => bootstrap = "target" /\ routine["watch"].cmd # "rollback"
  BY <1>1, <1>4, <1>5, Zenon DEF Forward, RoutinesFit
<1>7. \A x \in Routines : routine'[x].cmd \notin {"none", "commit"} => routine'[x] = routine[x]
  BY <1>1, <1>2, Zenon DEF Moves
<1>8. Over'
  <2>1. routine'["watch"].cmd = "rollback" => routine["watch"].cmd = "rollback"
    BY <1>7, Zenon
  <2>2. secret' = secret => ("committed" \in marks' <=> "committed" \in marks)
    BY <1>5, Zenon
  <2> QED  BY <1>1, <1>5, <1>6, <1>7, <2>1, <2>2, Zenon DEF Over
<1>9. Back'
  BY <1>1, <1>5, <1>7, Zenon DEF Back
<1>10. SecretCoversTheChange'
  BY <1>1, <1>5, Zenon DEF SecretCoversTheChange, Clean
<1>11. Punctual' => \A x \in Routines : routine'[x].cmd = "prepare" /\ routine'[x].at > 0 => ~expired' /\ secret' # "none"
  BY <1>1, <1>5, <1>7, Zenon DEF Forward
<1>12. Punctual' /\ "confirm" \in heard' => \A x \in Routines : routine'[x].cmd # "confirm"
  BY <1>1, <1>2, <1>5, <1>7, Zenon DEF Forward, Moves
<1>13. ("committed" \in marks' => "commit" \in told') /\ (secret' = "committed" => "committed" \in marks')
  BY <1>1, <1>4, <1>5, Zenon DEF SentInOrder
<1> QED  BY <1>1, <1>3, <1>8, <1>9, <1>10, <1>11, <1>12, <1>13, FramedSuffices, Zenon DEF Forward

\* A rollback is asked for by a coordinator that does not commit, or begun by the watcher
\* after the deadline: neither finds a prepare at work nor a commit on record.
LEMMA RollbackKeeps ==
  ASSUME HandoverInv, NEW r \in Routines, Work(r), Rollback(r)
  PROVE  HandoverInv'
<1> USE DEF HandoverInv
<1>1. /\ Marked /\ UNCHANGED <<passage, process, token, expired, told>>
      /\ routine[r].cmd = "rollback" /\ routine[r].at \in 0..3
      /\ secret' \in {secret, "none"} /\ bootstrap' \in {bootstrap, "source"} /\ saved' \in {saved, "source"}
      /\ rolling' \in BOOLEAN
  <2>1. Marked /\ UNCHANGED <<passage, process, token, expired, told>>
    BY Zenon DEF Work
  <2>2. routine[r].cmd = "rollback" /\ routine[r].at \in 0..3
    BY DEF Rollback, Run
  <2>3. secret' \in {secret, "none"} /\ bootstrap' \in {bootstrap, "source"} /\ saved' \in {saved, "source"}
    BY Zenon DEF Rollback
  <2>4. rolling' \in {rolling, TRUE} /\ rolling \in BOOLEAN
    BY Zenon DEF Rollback, HandoverTypes
  <2> QED  BY <2>1, <2>2, <2>3, <2>4, Zenon
<1>2. Moves(r)
  <2>1. CASE Run(r, "rollback", 0)
    BY <1>1, <2>1, GotoMoves, EndMoves, SMTT(30) DEF Rollback, Run
  <2>2. CASE Run(r, "rollback", 1)
    BY <1>1, <2>2, GotoMoves, SMTT(30) DEF Rollback, Run
  <2>3. CASE Run(r, "rollback", 2)
    BY <1>1, <2>3, GotoMoves, SMTT(30) DEF Rollback, Run
  <2>4. CASE Run(r, "rollback", 3)
    BY <1>1, <2>4, EndMoves DEF Rollback, Run
  <2> QED  BY <2>1, <2>2, <2>3, <2>4, Zenon DEF Rollback
<1>3. Framed(r)
  BY <1>1, <1>2, MarkedGrows, Zenon DEF Framed, HandoverTypes
<1>4. \/ r = "watch" /\ expired
      \/ process.to = "target" /\ passage.wants = "rollback" /\ "commit" \notin told
  BY <1>1, Zenon DEF RoutinesFit, SentInOrder, Asked
<1>5. /\ "committed" \in marks' <=> "committed" \in marks
      /\ (Punctual' => Punctual) /\ (Clean' => Clean) /\ (Clean' => Punctual')
  BY <1>1, MarkedGrows, Zenon DEF MarksGrow
<1>6. Punctual => "committed" \notin marks
  BY <1>1, <1>4, Zenon DEF SentInOrder, Over
<1>7. \A x \in Routines : routine'[x].cmd \notin {"none", "rollback"} => routine'[x] = routine[x]
  BY <1>1, <1>2, Zenon DEF Moves
<1>8. Over'
  BY <1>5, <1>6, <1>7, Zenon DEF Over
<1>9. Punctual' => \A x \in Routines : ~(routine'[x].cmd = "prepare" /\ routine'[x].at > 0)
  BY <1>4, <1>5, <1>7, Zenon DEF Forward, RoutinesFit
<1>10. Back'
  <2>1. ASSUME Clean', routine'[r].cmd = "rollback"
        PROVE  (routine'[r].at > 0 => bootstrap' = "source") /\ (routine'[r].at > 1 => saved' = "source")
    BY <1>1, <1>2, <1>5, <2>1, EndMoves DEF Back, Moves, Rollback, Run, HandoverTypes
  <2>2. ASSUME Clean', NEW x \in Routines \ {r}, routine'[x].cmd = "rollback"
        PROVE  (routine'[x].at > 0 => bootstrap' = "source") /\ (routine'[x].at > 1 => saved' = "source")
    BY <1>1, <1>2, <1>5, <2>2, Zenon DEF Back, Moves
  <2> QED  BY <2>1, <2>2, Zenon DEF Back
<1>11. SecretCoversTheChange'
  <2>1. ASSUME Clean', secret' = "none", ~UNCHANGED <<secret, bootstrap, saved>> PROVE saved' = bootstrap'
    BY <1>1, <1>5, <2>1 DEF Back, Rollback, Run
  <2> QED  BY <1>5, <2>1, ZenonT(60) DEF SecretCoversTheChange, Clean
<1>12. Punctual' /\ "confirm" \in heard' => \A x \in Routines : routine'[x].cmd # "confirm"
  BY <1>1, <1>2, <1>5, <1>7, Zenon DEF Forward, Moves
<1>13. ("committed" \in marks' => "commit" \in told') /\ (secret' = "committed" => "committed" \in marks')
  BY <1>1, <1>5, Zenon DEF SentInOrder
<1>14. passage'.wants = "commit" /\ ~expired' /\ process'.to = "target" => bootstrap' = "target"
  BY <1>1, <1>4, Zenon
<1> QED  BY <1>3, <1>8, <1>9, <1>10, <1>11, <1>12, <1>13, <1>14, FramedSuffices, Zenon

\* A cleanup removes the Secret of a handover that is committed.
LEMMA CleanupKeeps ==
  ASSUME HandoverInv, NEW r \in Routines, Work(r), Cleanup(r)
  PROVE  HandoverInv'
<1> USE DEF HandoverInv
<1>1. /\ Marked /\ UNCHANGED <<passage, process, token, expired, told, bootstrap, saved, rolling>>
      /\ routine[r].cmd = "cleanup" /\ secret' \in {secret, "none"}
  BY Zenon DEF Work, Cleanup, Run
<1>2. Moves(r) /\ (routine'[r].cmd = "cleanup" => secret = "committed")
  <2>1. CASE Run(r, "cleanup", 0)
    <3>1. (Goto(r, 1) /\ heard' = heard /\ secret = "committed") \/ Done(r) \/ Fail(r)
      BY <2>1, Zenon DEF Cleanup, Run
    <3> QED  BY <1>1, <2>1, <3>1, GotoMoves, EndMoves DEF Run
  <2>2. CASE Run(r, "cleanup", 1)
    BY <1>1, <2>2, EndMoves DEF Cleanup, Run
  <2> QED  BY <2>1, <2>2, ZenonT(60) DEF Cleanup
<1>3. Framed(r)
  BY <1>1, <1>2, MarkedGrows, Zenon DEF Framed, HandoverTypes
<1>4. r \in Asked /\ "confirm" \in told /\ passage.wants = "commit"
  BY <1>1, Zenon DEF RoutinesFit, SentInOrder, Asked
<1>5. /\ "committed" \in marks' <=> "committed" \in marks
      /\ (Punctual' => Punctual) /\ (Clean' => Clean) /\ (Clean' => Punctual')
  BY <1>1, MarkedGrows, Zenon DEF MarksGrow
<1>6. Punctual /\ secret' # secret => "committed" \in marks /\ bootstrap = "target"
  BY <1>1 DEF Cleanup, Run, Over
<1>7. \A x \in Routines : routine'[x].cmd \notin {"none", "cleanup"} => routine'[x] = routine[x]
  BY <1>1, <1>2, Zenon DEF Moves
<1>8. Over'
  <2>1. routine'["watch"].cmd = "rollback" => routine["watch"].cmd = "rollback"
    BY <1>7, Zenon
  <2>2. ASSUME Punctual', NEW x \in Routines, routine'[x].cmd = "cleanup", routine'[x].at > 0 PROVE "committed" \in marks
    BY <1>2, <1>5, <2>2, Zenon DEF Moves, Over, SentInOrder
  <2> QED  BY <1>1, <1>5, <2>1, <2>2, Zenon DEF Over
<1>9. Back'
  BY <1>1, <1>5, <1>7, Zenon DEF Back
<1>10. SecretCoversTheChange'
  BY <1>1, <1>5, <1>6, Zenon DEF SecretCoversTheChange, Clean
<1>11. Punctual' => \A x \in Routines : ~(routine'[x].cmd = "prepare" /\ routine'[x].at > 0)
  BY <1>4, <1>5, <1>7, Zenon DEF Forward, RoutinesFit
<1>12. Punctual' /\ "confirm" \in heard' => \A x \in Routines : routine'[x].cmd # "confirm"
  BY <1>1, <1>2, <1>5, <1>7, Zenon DEF Forward, Moves
<1>13. ("committed" \in marks' => "commit" \in told') /\ (secret' = "committed" => "committed" \in marks')
  BY <1>1, <1>5, Zenon DEF SentInOrder
<1> QED  BY <1>1, <1>3, <1>8, <1>9, <1>10, <1>11, <1>12, <1>13, FramedSuffices, Zenon DEF Forward

LEMMA HandoverStep == HandoverInv /\ [HandoverNext]_handVars => HandoverInv'
<1> SUFFICES ASSUME HandoverInv, [HandoverNext]_handVars PROVE HandoverInv'
  OBVIOUS
<1>1. CASE UNCHANGED handVars
  BY <1>1, ConnectionsKeep, Zenon DEF handVars, HandoverInv, HandoverTypes
<1>2. CASE Roll \/ StopProcess \/ EndUp
  BY <1>2, ProcessesKeep, Zenon
<1>3. CASE StartUp \/ watchHandoverDeadline \/ Connect \/ DropLink
  BY <1>3, ProcessWorks, Zenon
<1>4. CASE Persist
  BY <1>4, PersistKeeps, Zenon
<1>5. ASSUME NEW r \in Routines, Work(r) PROVE HandoverInv'
  BY <1>5, PrepareKeeps, ConfirmKeeps, CommitKeeps, RollbackKeeps, CleanupKeeps, Zenon DEF Work
<1>6. ASSUME NEW r \in Routines, ApiFails(r) PROVE HandoverInv'
  BY <1>6, FailuresKeep, Zenon
<1>7. ASSUME NEW cmd \in Commands, dispatchControlPlaneHandover(cmd) \/ RedispatchCommand(cmd) PROVE HandoverInv'
  BY <1>7, CommandsKeep, Zenon
<1>8. CASE Expire
  BY <1>8, DeadlineKeeps, Zenon
<1> QED  BY <1>1, <1>2, <1>3, <1>4, <1>5, <1>6, <1>7, <1>8, Zenon DEF HandoverNext

\* While a handover has not ended there is a Secret to return with: without one the endpoint
\* and the credential belong together, whichever write of a prepare or a rollback was the
\* last, however often the process stops and calls fail.
THEOREM HandoversCanReturn == HandoverSpec => []HandoverSafety
  BY HandoverStarts, HandoverStep, HandoverInvSuffices, PTL DEF HandoverSpec

\* A handover that was committed before its deadline, with a confirm that was delivered
\* once, is never undone: no step moves the endpoint back.
THEOREM CommitsStand == HandoverSpec => CommittedIsNotUndone
<1>1. HandoverInv /\ HandoverInv' /\ [HandoverNext]_handVars =>
        ["committed" \in marks /\ marks \cap {"repeated", "raced"} = {} =>
           (bootstrap = "target" => bootstrap' = "target")]_handVars
  <2> SUFFICES ASSUME HandoverInv, HandoverNext, "committed" \in marks, Punctual, bootstrap = "target"
               PROVE  bootstrap' = "target"
    BY Zenon DEF Punctual, handVars
  <2>1. routine["watch"].cmd # "rollback" /\ passage.wants = "commit"
    BY Zenon DEF HandoverInv, Over, SentInOrder
  <2>2. ASSUME NEW r \in Routines, Work(r) PROVE bootstrap' = "target"
    <3>1. ~Rollback(r)
      BY <2>1, <2>2, Zenon DEF HandoverInv, SentInOrder, RoutinesFit, Asked, Rollback, Run
    <3> QED  BY <2>2, <3>1, Zenon DEF Work, Prepare, Confirm, Commit, Cleanup
  <2>3. ASSUME NEW r \in Routines, ApiFails(r) PROVE bootstrap' = "target"
    BY <2>3, Zenon DEF ApiFails
  <2>4. ASSUME NEW cmd \in Commands, dispatchControlPlaneHandover(cmd) \/ RedispatchCommand(cmd)
        PROVE  bootstrap' = "target"
    BY <2>4, Zenon DEF dispatchControlPlaneHandover, RedispatchCommand
  <2>5. CASE Roll \/ StopProcess \/ StartUp \/ EndUp \/ watchHandoverDeadline \/ Connect \/ DropLink \/ Persist
    BY <2>5, Zenon DEF Roll, StopProcess, StartUp, EndUp, watchHandoverDeadline, Connect, DropLink, Persist
  <2>6. CASE Expire
    BY <2>6, Zenon DEF Expire
  <2> QED  BY <2>2, <2>3, <2>4, <2>5, <2>6, Zenon DEF HandoverNext
<1> QED  BY <1>1, HandoverStarts, HandoverStep, PTL DEF HandoverSpec, CommittedIsNotUndone

=============================================================================
