------------------------------ MODULE AgentProofs ------------------------------
(***************************************************************************)
(* What the agent promises of its own removal, of the cache settings it    *)
(* applies and of the cleanups it makes: for every request and any number  *)
(* of failing calls, retries, connections and upgrades.                    *)
(*                                                                         *)
(* And what the platform promises of its installation: the kubeconfig      *)
(* stays as long as it is used, for every number of executors and contexts *)
(* and for every lease.  The invariant is that a session in memory has the *)
(* lease of its task, and that a janitor who means to remove it began      *)
(* before there was one.                                                   *)
(***************************************************************************)
EXTENDS AgentUninstall, CacheSettings, ProtectionCleanup, DirectRegistration, TLAPS

-----------------------------------------------------------------------------
(* The uninstaller *)

\* The successor of an element that occurs once in a sequence.
LEMMA Successor ==
  ASSUME NEW s, NEW p, NEW k \in 1..Len(s), NEW j, s[k] = p, j = k + 1, \A i \in 1..Len(s) : s[i] = p => i = k
  PROVE  s[(CHOOSE i \in 1..Len(s) : s[i] = p) + 1] = s[j]
<1>1. (CHOOSE i \in 1..Len(s) : s[i] = p) = k
  OBVIOUS
<1> QED  BY <1>1, Zenon

\* Which phase follows which, in the order of Uninstall.
LEMMA PhaseOrder ==
  /\ NextPhase("resources") = "finalizers" /\ NextPhase("finalizers") = "workloads"
  /\ NextPhase("workloads") = "velero rbac" /\ NextPhase("velero rbac") = "look"
  /\ NextPhase("crds") = "decide"
<1>1. Len(Phases) = 10
  BY Zenon DEF Phases
<1>2. /\ Phases[1] = "resources" /\ Phases[2] = "finalizers" /\ Phases[3] = "workloads"
      /\ Phases[4] = "velero rbac" /\ Phases[5] = "look" /\ Phases[6] = "crds" /\ Phases[7] = "decide"
      /\ Phases[8] = "catalog" /\ Phases[9] = "self" /\ Phases[10] = "rbac"
  BY Zenon DEF Phases
<1>3. \A i \in 1..10 : i \in {1, 2, 3, 4, 5, 6, 7, 8, 9, 10}
  BY SMT
<1>4. /\ {1, 2, 3, 4, 6} \subseteq 1..Len(Phases)
      /\ 2 = 1 + 1 /\ 3 = 2 + 1 /\ 4 = 3 + 1 /\ 5 = 4 + 1 /\ 7 = 6 + 1
  BY <1>1, SMT
<1>5. /\ \A i \in 1..Len(Phases) : Phases[i] = "resources" => i = 1
      /\ \A i \in 1..Len(Phases) : Phases[i] = "finalizers" => i = 2
      /\ \A i \in 1..Len(Phases) : Phases[i] = "workloads" => i = 3
      /\ \A i \in 1..Len(Phases) : Phases[i] = "velero rbac" => i = 4
      /\ \A i \in 1..Len(Phases) : Phases[i] = "crds" => i = 6
  BY <1>1, <1>2, <1>3, Zenon
<1>6. NextPhase("resources") = Phases[2]
  BY <1>2, <1>4, <1>5, Successor, ZenonT(60) DEF NextPhase
<1>7. NextPhase("finalizers") = Phases[3]
  BY <1>2, <1>4, <1>5, Successor, ZenonT(60) DEF NextPhase
<1>8. NextPhase("workloads") = Phases[4]
  BY <1>2, <1>4, <1>5, Successor, ZenonT(60) DEF NextPhase
<1>9. NextPhase("velero rbac") = Phases[5]
  BY <1>2, <1>4, <1>5, Successor, ZenonT(60) DEF NextPhase
<1>10. NextPhase("crds") = Phases[7]
  BY <1>2, <1>4, <1>5, Successor, ZenonT(60) DEF NextPhase
<1> QED  BY <1>2, <1>6, <1>7, <1>8, <1>9, <1>10, Zenon

\* The phases of Uninstall.
PhaseNames == {"resources", "finalizers", "workloads", "velero rbac", "look", "crds", "decide",
               "catalog", "self", "rbac"}

LEMMA PhasesAreNamed == PhaseNames \subseteq Range(Phases)
<1>0. DOMAIN Phases = 1..10
  BY DEF Phases
<1>1. \A i \in 1..10 : Phases[i] \in Range(Phases)
  BY <1>0, Zenon DEF Range
<1>2. {1, 2, 3, 4, 5, 6, 7, 8, 9, 10} \subseteq 1..10
  BY SMT
<1>3. /\ Phases[1] = "resources" /\ Phases[2] = "finalizers" /\ Phases[3] = "workloads"
      /\ Phases[4] = "velero rbac" /\ Phases[5] = "look" /\ Phases[6] = "crds" /\ Phases[7] = "decide"
      /\ Phases[8] = "catalog" /\ Phases[9] = "self" /\ Phases[10] = "rbac"
  BY Zenon DEF Phases
<1> QED  BY <1>1, <1>2, <1>3, Zenon DEF PhaseNames

\* What the phases behind the uninstaller have achieved unless one of them failed.  The look
\* at other installations is remembered in sharing, and they never go away, so that what is
\* not left of Velero once is not left after any retry.
UninstallInv ==
  /\ removal \in [deleteVelero : BOOLEAN, deleteNamespace : BOOLEAN, faults : Nat, retries : Nat,
                  stuck : BOOLEAN, other : Others, arrives : BOOLEAN, openshift : BOOLEAN]
  /\ at \in PhaseNames \cup {"failed", "completed"} /\ errs \in BOOLEAN
  /\ left \subseteq Parts /\ foreign \in Others /\ sharing \in BOOLEAN /\ late \in BOOLEAN
  /\ FailedCanRetry
  /\ sharing => foreign # "none"
  /\ at = "crds" /\ foreign # "none" => late
  /\ at \in {"look", "crds", "decide"} /\ ~errs /\ removal.deleteVelero => "veleroRBAC" \notin left
  /\ at = "decide" /\ ~errs /\ removal.deleteVelero => sharing \/ "crds" \notin left
  /\ at \in {"catalog", "self", "rbac"} /\ removal.deleteVelero =>
       "veleroRBAC" \notin left /\ (sharing \/ "crds" \notin left)
  /\ at \in {"self", "rbac"} => "catalog" \notin left

LEMMA UninstallStep == UninstallInv /\ [UninstallNext]_uninVars => UninstallInv'
<1> SUFFICES ASSUME UninstallInv, [UninstallNext]_uninVars
             PROVE  UninstallInv'
  OBVIOUS
<1>a. ASSUME Faulty
      PROVE  /\ removal' \in [deleteVelero : BOOLEAN, deleteNamespace : BOOLEAN, faults : Nat, retries : Nat,
                              stuck : BOOLEAN, other : Others, arrives : BOOLEAN, openshift : BOOLEAN]
             /\ removal'.deleteVelero = removal.deleteVelero
             /\ removal'.deleteNamespace = removal.deleteNamespace
  BY <1>a DEF Faulty, UninstallInv
<1>1. CASE deleteVeleroNamespacedResources
  BY <1>1, <1>a, PhaseOrder, Zenon DEF deleteVeleroNamespacedResources, Phase, Enter, UninstallInv, FailedCanRetry, VeleroLeft, PhaseNames
<1>2. CASE removeStaleFinalizers
  BY <1>2, <1>a, PhaseOrder, Zenon DEF removeStaleFinalizers, Phase, Enter, UninstallInv, FailedCanRetry, VeleroLeft, PhaseNames
<1>3. CASE deleteNamespacedAgentResources
  BY <1>3, <1>a, PhaseOrder, Zenon DEF deleteNamespacedAgentResources, Phase, Enter, UninstallInv, FailedCanRetry, VeleroLeft, PhaseNames
<1>4. CASE deleteExternalRBAC
  BY <1>4, <1>a, PhaseOrder, Zenon DEF deleteExternalRBAC, Phase, Enter, UninstallInv, FailedCanRetry, VeleroLeft, PhaseNames
<1>5. CASE LookForOthers
  BY <1>5, <1>a, Zenon DEF LookForOthers, hasVeleroResourcesOutsideNamespace, Enter, UninstallInv, FailedCanRetry, VeleroLeft, PhaseNames
<1>6. CASE deleteVeleroCRDs
  BY <1>6, <1>a, PhaseOrder, Zenon DEF deleteVeleroCRDs, Phase, Enter, UninstallInv, FailedCanRetry, VeleroLeft, PhaseNames
<1>7. CASE Decide
  BY <1>7, Zenon DEF Decide, Enter, UninstallInv, FailedCanRetry, VeleroLeft, PhaseNames
<1>8. CASE deleteCatalogSource
  BY <1>8, <1>a, Zenon DEF deleteCatalogSource, Enter, UninstallInv, FailedCanRetry, VeleroLeft, PhaseNames
<1>9. CASE deleteNamespaceLast
  BY <1>9, <1>a, Zenon DEF deleteNamespaceLast, Enter, UninstallInv, FailedCanRetry, VeleroLeft, PhaseNames
<1>10. CASE deleteAgentClusterRBACWithOwnerCascade
  BY <1>10, <1>a, Zenon DEF deleteAgentClusterRBACWithOwnerCascade, Enter, UninstallInv, FailedCanRetry, VeleroLeft, PhaseNames
<1>11. CASE Retry
  <2>1. /\ removal' \in [deleteVelero : BOOLEAN, deleteNamespace : BOOLEAN, faults : Nat, retries : Nat,
                         stuck : BOOLEAN, other : Others, arrives : BOOLEAN, openshift : BOOLEAN]
        /\ removal'.deleteVelero = removal.deleteVelero
        /\ removal'.deleteNamespace = removal.deleteNamespace
    BY <1>11 DEF Retry, UninstallInv
  <2> QED  BY <1>11, <2>1, Zenon DEF Retry, Enter, UninstallInv, FailedCanRetry, VeleroLeft, PhaseNames
<1>12. CASE Arrive
  BY <1>12, Zenon DEF Arrive, UninstallInv, FailedCanRetry, VeleroLeft, PhaseNames, Others
<1>13. CASE UNCHANGED uninVars
  BY <1>13 DEF uninVars, UninstallInv, FailedCanRetry, VeleroLeft
<1> QED
  BY <1>1, <1>2, <1>3, <1>4, <1>5, <1>6, <1>7, <1>8, <1>9, <1>10, <1>11, <1>12, <1>13
 , Zenon DEF UninstallNext, Uninstall

\* Whatever fails and however often the uninstallation is repeated, the agent and its
\* authorization are there as long as something of Velero is left to remove.
THEOREM UninstallIsRepeatable == UninstallSpec => []UninstallSafety
<1>1. UninstallInit => UninstallInv
  BY UninstallAssumption, Zenon DEF UninstallInit, UninstallInv, FailedCanRetry, VeleroLeft, PhaseNames, Others, Parts
<1>2. UninstallInv => UninstallSafety
  BY PhasesAreNamed, Zenon DEF UninstallInv, UninstallSafety, UninstallTypeOK
<1> QED  BY <1>1, <1>2, UninstallStep, PTL DEF UninstallSpec

\* CRDs that another installation of Velero uses are deleted by no step.
THEOREM SharedCRDsSurvive == UninstallSpec => SharedCRDsStay
<1>1. UninstallInit => UninstallInv
  BY UninstallAssumption, Zenon DEF UninstallInit, UninstallInv, FailedCanRetry, VeleroLeft, PhaseNames, Others, Parts
<1>2. ASSUME UninstallInv, [UninstallNext]_uninVars
      PROVE  [foreign # "none" /\ "crds" \in left /\ ~late => "crds" \in left']_uninVars
  <2> SUFFICES ASSUME foreign # "none", "crds" \in left, ~late, UninstallNext
               PROVE  "crds" \in left'
    BY <1>2, Zenon
  <2>1. at # "crds"
    BY <1>2, Zenon DEF UninstallInv
  <2>2. ASSUME NEW p, NEW skipped, NEW gone, Phase(p, skipped, gone), "crds" \notin gone
        PROVE  "crds" \in left'
    BY <2>2, Zenon DEF Phase
  <2>3. CASE deleteVeleroNamespacedResources \/ removeStaleFinalizers
    BY <2>2, <2>3, Zenon DEF deleteVeleroNamespacedResources, removeStaleFinalizers
  <2>4. CASE deleteNamespacedAgentResources \/ deleteExternalRBAC
    BY <2>2, <2>4, Zenon DEF deleteNamespacedAgentResources, deleteExternalRBAC
  <2>5. CASE deleteVeleroCRDs
    BY <2>1, <2>5, Zenon DEF deleteVeleroCRDs, Phase
  <2>6. CASE LookForOthers \/ Decide \/ Retry \/ Arrive
    BY <2>6, Zenon DEF LookForOthers, Decide, Retry, Arrive
  <2>7. CASE deleteCatalogSource \/ deleteNamespaceLast \/ deleteAgentClusterRBACWithOwnerCascade
    BY <2>7, Zenon DEF deleteCatalogSource, deleteNamespaceLast, deleteAgentClusterRBACWithOwnerCascade
  <2> QED  BY <2>3, <2>4, <2>5, <2>6, <2>7, Zenon DEF UninstallNext, Uninstall
<1> QED  BY <1>1, <1>2, UninstallStep, PTL DEF UninstallSpec, SharedCRDsStay

-----------------------------------------------------------------------------
(* The cache settings *)

UpkeepTypeOK ==
  upkeep \in [puts : Nat, cleans : Nat, connects : Nat, upgrades : Nat, faults : Nat,
              fit : SUBSET Images, nodes : SUBSET Nodes]

\* The goroutine of the task applies what is saved, and what it has written stands unless
\* the goroutine of a connection has written another setting since.  Jobs run only between
\* the creation of the first and the sweep.
CacheInv ==
  /\ UpkeepTypeOK /\ CacheTypeOK
  /\ cacheWriter \in [Writers -> [at : CacheSteps, size : Sizes, seen : Nat, clean : BOOLEAN]]
  /\ cacheTask.size = saved
  /\ cacheWriter["task"].at # "idle" => cacheTask.status = "active"
  /\ cacheWriter["task"].at \in {"get", "update", "wait"} =>
       cacheWriter["task"].size = saved /\ ~cacheWriter["task"].clean
  /\ cacheWriter["task"].at \in {"clean", "create", "watch"} => cacheWriter["task"].clean
  /\ \/ cacheWriter["task"].at \in {"wait", "completed"}
     \/ cacheWriter["task"].at = "idle" /\ cacheTask.status = "succeeded"
     => overtaken \/ cacheWriter["task"].clean \/ daemon.size = saved
  /\ NoJobIsLeft

WriterTypeOK == cacheWriter \in [Writers -> [at : CacheSteps, size : Sizes, seen : Nat, clean : BOOLEAN]]

\* A step of one goroutine changes only where it is.
LEMMA WriterMoves ==
  ASSUME WriterTypeOK, NEW w \in Writers, NEW a \in CacheSteps, WriterAt(w, a)
  PROVE  /\ WriterTypeOK' /\ cacheWriter'[w].at = a
         /\ \A v \in Writers : v # w => cacheWriter'[v].at = cacheWriter[v].at
         /\ \A v \in Writers : cacheWriter'[v].size = cacheWriter[v].size /\ cacheWriter'[v].clean = cacheWriter[v].clean
  BY Zenon DEF WriterAt, WriterTypeOK

LEMMA CacheStepKeeps == CacheInv /\ [CacheNext]_cacheVars => CacheInv'
<1> SUFFICES ASSUME CacheInv, [CacheNext]_cacheVars
             PROVE  CacheInv'
  OBVIOUS
<1> USE DEF Writers, CacheSteps
<1>t. WriterTypeOK /\ UpkeepTypeOK
  BY Zenon DEF CacheInv, WriterTypeOK
<1>a. ASSUME Breaks PROVE UpkeepTypeOK'
  BY <1>a, <1>t DEF Breaks, UpkeepTypeOK
<1>k. ASSUME Keeps PROVE UpkeepTypeOK'
  BY <1>k, <1>t, Zenon DEF Keeps, UpkeepTypeOK
<1>s. ASSUME Sweep
      PROVE  /\ jobs' \in [Nodes -> {"none", "running", "succeeded", "failed", "deleted"}]
             /\ \A n \in Nodes : jobs'[n] # "running"
  BY <1>s, Zenon DEF Sweep
<1>1. ASSUME NEW clean \in BOOLEAN, clusterCacheSettings(clean)
      PROVE  CacheInv'
  <2>1. UpkeepTypeOK'
    BY <1>1, <1>t DEF clusterCacheSettings, UpkeepTypeOK
  <2>2. PICK size \in Sizes :
          /\ saved' = size /\ cacheTask' = [size |-> size, status |-> "active"]
          /\ cacheWriter' = [cacheWriter EXCEPT !["task"] = [at |-> IF clean THEN "clean" ELSE "get", size |-> size,
                                                             seen |-> 0, clean |-> clean]]
    BY <1>1, Zenon DEF clusterCacheSettings, CacheInv, CacheTypeOK
  <2>3. /\ WriterTypeOK' /\ cacheWriter'["task"].at = (IF clean THEN "clean" ELSE "get")
        /\ cacheWriter'["task"].size = size /\ cacheWriter'["task"].clean = clean
    BY <1>1, <1>t, <2>2, Zenon DEF WriterTypeOK
  <2>4. /\ jobs' \in [Nodes -> {"none", "running", "succeeded", "failed", "deleted"}]
        /\ \A n \in Nodes : jobs'[n] # "running"
    BY <1>1, Zenon DEF clusterCacheSettings
  <2> QED  BY <1>1, <2>1, <2>2, <2>3, <2>4, Zenon DEF clusterCacheSettings, CacheInv, CacheTypeOK, WriterTypeOK, NoJobIsLeft
<1>2. CASE AcceptConnection
  <2>1. UpkeepTypeOK'
    BY <1>2, <1>t DEF AcceptConnection, UpkeepTypeOK
  <2>2. WriterTypeOK' /\ cacheWriter'["task"] = cacheWriter["task"]
    BY <1>2, <1>t, Zenon DEF AcceptConnection, WriterTypeOK, Resting, CacheInv, CacheTypeOK, Sizes
  <2> QED  BY <1>2, <2>1, <2>2, Zenon DEF AcceptConnection, CacheInv, CacheTypeOK, WriterTypeOK, NoJobIsLeft
<1>3. CASE ReceiveResult
  <2>1. WriterAt("task", "idle")
    BY <1>3, Zenon DEF ReceiveResult, WriterAt
  <2>2. /\ WriterTypeOK' /\ cacheWriter'["task"].at = "idle"
        /\ cacheWriter'["task"].clean = cacheWriter["task"].clean
    BY <1>t, <2>1, WriterMoves, Zenon
  <2>3. /\ cacheTask' \in [size : Sizes, status : {"none", "active", "failed", "succeeded"}]
        /\ cacheTask'.size = cacheTask.size
        /\ cacheTask'.status = "succeeded" => cacheWriter["task"].at = "completed"
    BY <1>3, Zenon DEF ReceiveResult, CacheInv, CacheTypeOK
  <2> QED  BY <1>3, <1>t, <2>2, <2>3, Zenon DEF ReceiveResult, CacheInv, CacheTypeOK, UpkeepTypeOK, WriterTypeOK, NoJobIsLeft
<1>4. ASSUME NEW w \in Writers, GetDaemon(w)
      PROVE  CacheInv'
  <2>1. UpkeepTypeOK'
    BY <1>4, <1>a, <1>k, Zenon DEF GetDaemon
  <2>2. PICK a \in {"failed", "idle", "wait", "update"} :
          /\ WriterTypeOK' /\ cacheWriter'[w].at = a
          /\ a = "idle" => w = "connect"
          /\ a = "wait" => daemon.size = cacheWriter[w].size
          /\ \A v \in Writers : v # w => cacheWriter'[v].at = cacheWriter[v].at
          /\ \A v \in Writers : cacheWriter'[v].size = cacheWriter[v].size /\ cacheWriter'[v].clean = cacheWriter[v].clean
    <3>1. ASSUME Ends(w, "failed")
          PROVE  WriterAt(w, IF w = "task" THEN "failed" ELSE "idle")
      BY <3>1, Zenon DEF Ends
    <3>2. CASE Ends(w, "failed")
      BY <3>1, <3>2, <1>t, WriterMoves, Zenon
    <3>3. CASE daemon.size = cacheWriter[w].size /\ WriterAt(w, "wait")
      BY <3>3, <1>t, WriterMoves, Zenon
    <3>4. CASE cacheWriter' = [cacheWriter EXCEPT ![w].at = "update", ![w].seen = daemon.version]
      BY <3>4, <1>t DEF WriterTypeOK, CacheInv, CacheTypeOK
    <3> QED  BY <1>4, <3>2, <3>3, <3>4, Zenon DEF GetDaemon
  <2> QED  BY <1>4, <2>1, <2>2 DEF GetDaemon, CacheInv, CacheTypeOK, WriterTypeOK, NoJobIsLeft
<1>5. ASSUME NEW w \in Writers, UpdateDaemon(w)
      PROVE  CacheInv'
  <2>1. UpkeepTypeOK'
    BY <1>5, <1>a, <1>k, Zenon DEF UpdateDaemon
  <2>2. CASE /\ WriterAt(w, "wait") /\ daemon' = [daemon EXCEPT !.size = cacheWriter[w].size, !.version = @ + 1]
             /\ overtaken' = (overtaken \/ saved # cacheWriter[w].size)
    <3>1. /\ WriterTypeOK' /\ cacheWriter'[w].at = "wait"
          /\ \A v \in Writers : v # w => cacheWriter'[v].at = cacheWriter[v].at
          /\ \A v \in Writers : cacheWriter'[v].size = cacheWriter[v].size /\ cacheWriter'[v].clean = cacheWriter[v].clean
      BY <2>2, <1>t, WriterMoves, Zenon
    <3>2. /\ daemon' \in [image : Images, noted : Images, size : Sizes, version : Nat]
          /\ daemon'.size = cacheWriter[w].size
      <4>1. daemon \in [image : Images, noted : Images, size : Sizes, version : Nat] /\ cacheWriter[w].size \in Sizes
        BY <1>t, Zenon DEF CacheInv, CacheTypeOK, WriterTypeOK
      <4>2. daemon.version + 1 \in Nat
        BY <4>1
      <4>3. daemon' = [daemon EXCEPT !.size = cacheWriter[w].size, !.version = daemon.version + 1]
        BY <2>2, Zenon
      <4> QED  BY <4>1, <4>2, <4>3, Zenon
    <3>3. overtaken' \in BOOLEAN /\ (~overtaken' => ~overtaken /\ cacheWriter[w].size = saved)
      BY <2>2, Zenon DEF CacheInv, CacheTypeOK
    <3> QED  BY <1>5, <2>1, <3>1, <3>2, <3>3, Zenon DEF UpdateDaemon, CacheInv, CacheTypeOK, WriterTypeOK, NoJobIsLeft
  <2>3. CASE WriterAt(w, "get") /\ UNCHANGED <<daemon, overtaken>>
    <3>1. /\ WriterTypeOK' /\ cacheWriter'[w].at = "get"
          /\ \A v \in Writers : v # w => cacheWriter'[v].at = cacheWriter[v].at
          /\ \A v \in Writers : cacheWriter'[v].size = cacheWriter[v].size /\ cacheWriter'[v].clean = cacheWriter[v].clean
      BY <2>3, <1>t, WriterMoves, Zenon
    <3> QED  BY <1>5, <2>1, <2>3, <3>1, Zenon DEF UpdateDaemon, CacheInv, CacheTypeOK, WriterTypeOK, NoJobIsLeft
  <2>4. CASE Ends(w, "failed") /\ UNCHANGED <<daemon, overtaken>>
    <3>1. WriterAt(w, IF w = "task" THEN "failed" ELSE "idle")
      BY <2>4, Zenon DEF Ends
    <3>2. /\ WriterTypeOK' /\ cacheWriter'[w].at = (IF w = "task" THEN "failed" ELSE "idle")
          /\ \A v \in Writers : v # w => cacheWriter'[v].at = cacheWriter[v].at
          /\ \A v \in Writers : cacheWriter'[v].size = cacheWriter[v].size /\ cacheWriter'[v].clean = cacheWriter[v].clean
      BY <3>1, <1>t, WriterMoves, Zenon
    <3> QED  BY <1>5, <2>1, <2>4, <3>2, Zenon DEF UpdateDaemon, CacheInv, CacheTypeOK, WriterTypeOK, NoJobIsLeft
  <2> QED  BY <1>5, <2>2, <2>3, <2>4, Zenon DEF UpdateDaemon
<1>6. ASSUME NEW w \in Writers, WaitRollout(w)
      PROVE  CacheInv'
  <2>1. UpkeepTypeOK'
    BY <1>6, <1>a, <1>k, Zenon DEF WaitRollout
  <2>2. PICK a \in {"failed", "completed", "idle"} : WriterAt(w, a) /\ (a = "idle" => w = "connect")
    BY <1>6, Zenon DEF WaitRollout, Ends
  <2>3. /\ WriterTypeOK' /\ cacheWriter'[w].at = a
        /\ \A v \in Writers : v # w => cacheWriter'[v].at = cacheWriter[v].at
        /\ \A v \in Writers : cacheWriter'[v].size = cacheWriter[v].size /\ cacheWriter'[v].clean = cacheWriter[v].clean
    BY <2>2, <1>t, WriterMoves, Zenon
  <2> QED  BY <1>6, <2>1, <2>2, <2>3, Zenon DEF WaitRollout, CacheInv, CacheTypeOK, WriterTypeOK, NoJobIsLeft
<1>7. CASE UpgradeVelero
  <2>1. UpkeepTypeOK'
    BY <1>7, <1>t, Zenon DEF UpgradeVelero, UpkeepTypeOK
  <2>2. daemon' \in [image : Images, noted : Images, size : Sizes, version : Nat] /\ daemon'.size = daemon.size
    <3>1. daemon \in [image : Images, noted : Images, size : Sizes, version : Nat] /\ "new" \in Images
      BY Zenon DEF CacheInv, CacheTypeOK, Images
    <3>2. daemon.version + 1 \in Nat
      BY <3>1
    <3>3. daemon' = [daemon EXCEPT !.image = "new", !.noted = "new", !.version = daemon.version + 1]
      BY <1>7, Zenon DEF UpgradeVelero
    <3> HIDE DEF CacheInv
    <3> QED  BY <3>1, <3>2, <3>3, Zenon
  <2> QED  BY <1>7, <2>1, <2>2, Zenon DEF UpgradeVelero, CacheInv, CacheTypeOK, NoJobIsLeft
<1>8. CASE CheckClean
  <2>1. UpkeepTypeOK'
    BY <1>8, <1>k, Zenon DEF CheckClean
  <2>2. PICK a \in {"create", "failed"} : WriterAt("task", a)
    BY <1>8, Zenon DEF CheckClean
  <2>3. /\ WriterTypeOK' /\ cacheWriter'["task"].at = a /\ cacheWriter'["task"].clean = cacheWriter["task"].clean
    BY <2>2, <1>t, WriterMoves, Zenon
  <2> QED  BY <1>8, <2>1, <2>3, Zenon DEF CheckClean, CacheInv, CacheTypeOK, WriterTypeOK, NoJobIsLeft
<1>9. ASSUME NEW n \in Nodes, CreateJob(n)
      PROVE  CacheInv'
  <2>1. UpkeepTypeOK'
    BY <1>9, <1>a, <1>k, Zenon DEF CreateJob
  <2>2. CASE jobs' = [jobs EXCEPT ![n] = "running"] /\ (UNCHANGED cacheWriter \/ WriterAt("task", "watch"))
    <3>1. /\ WriterTypeOK' /\ cacheWriter'["task"].at \in {"create", "watch"}
          /\ cacheWriter'["task"].clean = cacheWriter["task"].clean
      <4>1. CASE UNCHANGED cacheWriter
        BY <1>9, <4>1, <1>t, Zenon DEF WriterTypeOK, CreateJob
      <4>2. CASE WriterAt("task", "watch")
        BY <4>2, <1>t, WriterMoves, Zenon
      <4> QED  BY <2>2, <4>1, <4>2, Zenon
    <3>2. jobs' \in [Nodes -> {"none", "running", "succeeded", "failed", "deleted"}]
      BY <2>2, Zenon DEF CacheInv, CacheTypeOK
    <3> QED  BY <1>9, <2>1, <3>1, <3>2, Zenon DEF CreateJob, CacheInv, CacheTypeOK, WriterTypeOK, NoJobIsLeft
  <2>3. CASE Sweep /\ WriterAt("task", "failed")
    <3>1. WriterTypeOK' /\ cacheWriter'["task"].at = "failed"
      BY <2>3, <1>t, WriterMoves, Zenon
    <3> QED  BY <1>9, <1>s, <2>1, <2>3, <3>1, Zenon DEF CreateJob, CacheInv, CacheTypeOK, WriterTypeOK, NoJobIsLeft
  <2> QED  BY <1>9, <2>2, <2>3, Zenon DEF CreateJob
<1>10. ASSUME NEW n \in Nodes, RunJob(n)
       PROVE  CacheInv'
  <2>1. UpkeepTypeOK'
    BY <1>10, <1>a, <1>k, Zenon DEF RunJob
  <2>2. /\ jobs' \in [Nodes -> {"none", "running", "succeeded", "failed", "deleted"}]
        /\ \A k \in Nodes : jobs'[k] = "running" => jobs[k] = "running"
    BY <1>10, Zenon DEF RunJob, CacheInv, CacheTypeOK
  <2> QED  BY <1>10, <2>1, <2>2, Zenon DEF RunJob, CacheInv, CacheTypeOK, NoJobIsLeft
<1>11. CASE WatchJobs
  <2>1. UpkeepTypeOK'
    BY <1>11, <1>a, <1>k, Zenon DEF WatchJobs
  <2>2. PICK a \in {"completed", "failed"} : WriterAt("task", a)
    BY <1>11, Zenon DEF WatchJobs
  <2>3. /\ WriterTypeOK' /\ cacheWriter'["task"].at = a /\ cacheWriter'["task"].clean = cacheWriter["task"].clean
    BY <2>2, <1>t, WriterMoves, Zenon
  <2>4. /\ jobs' \in [Nodes -> {"none", "running", "succeeded", "failed", "deleted"}]
        /\ \A n \in Nodes : jobs'[n] # "running"
    BY <1>11, <1>s, Zenon DEF WatchJobs
  <2> QED  BY <1>11, <2>1, <2>3, <2>4, Zenon DEF WatchJobs, CacheInv, CacheTypeOK, WriterTypeOK, NoJobIsLeft
<1>12. CASE UNCHANGED cacheVars
  BY <1>12, Zenon DEF cacheVars, CacheInv, UpkeepTypeOK, CacheTypeOK, NoJobIsLeft
<1> QED
  BY <1>1, <1>2, <1>3, <1>4, <1>5, <1>6, <1>7, <1>8, <1>9, <1>10, <1>11, <1>12
 , Zenon DEF CacheNext, CacheStep

LEMMA CacheBegins == CacheInit => CacheInv
<1> SUFFICES ASSUME CacheInit PROVE CacheInv
  OBVIOUS
<1>1. UpkeepTypeOK
  BY UpkeepAssumption, Zenon DEF CacheInit, UpkeepTypeOK
<1>2. CacheTypeOK
  <2>1. /\ saved \in Sizes /\ cacheTask \in [size : Sizes, status : {"none", "active", "failed", "succeeded"}]
    BY DEF CacheInit, Sizes
  <2>2. daemon \in [image : Images, noted : Images, size : Sizes, version : Nat]
    BY DEF CacheInit, Sizes, Images
  <2>3. /\ \A w \in Writers : cacheWriter[w].at \in CacheSteps
        /\ jobs \in [Nodes -> {"none", "running", "succeeded", "failed", "deleted"}]
    BY Zenon DEF CacheInit, Resting, CacheSteps
  <2>4. overtaken \in BOOLEAN
    BY Zenon DEF CacheInit
  <2> QED  BY <2>1, <2>2, <2>3, <2>4, Zenon DEF CacheTypeOK
<1>3. WriterTypeOK
  BY DEF CacheInit, WriterTypeOK, Resting, CacheSteps, Sizes
<1> QED  BY <1>1, <1>2, <1>3, Zenon DEF CacheInit, CacheInv, WriterTypeOK, Resting, Writers, NoJobIsLeft

\* However tasks, connections, upgrades and failures overlap, a setting whose task succeeded
\* is in the DaemonSet unless an older one was written after it, and no cleaning leaves a Job.
THEOREM CacheIsSafe == CacheSpec => []CacheSafety
<1>1. CacheInv => CacheSafety
  BY Zenon DEF CacheInv, CacheSafety, SettingsArrive, Writers
<1> QED  BY <1>1, CacheBegins, CacheStepKeeps, PTL DEF CacheSpec

\* No cache setting takes back the image that an upgrade of Velero installed.
THEOREM UpgradesStay == CacheSpec => UpgradeIsKept
<1>1. ASSUME CacheInv, [CacheNext]_cacheVars
      PROVE  [daemon.image = "new" => daemon'.image = "new"]_cacheVars
  <2> SUFFICES ASSUME CacheNext, daemon.image = "new"
               PROVE  daemon'.image = "new"
    BY <1>1, Zenon
  <2>1. daemon \in [image : Images, noted : Images, size : Sizes, version : Nat]
    BY <1>1, Zenon DEF CacheInv, CacheTypeOK
  <2>2. ASSUME NEW w \in Writers, UpdateDaemon(w)
        PROVE  daemon'.image = "new"
    BY <2>1, <2>2, Zenon DEF UpdateDaemon
  <2>3. CASE UpgradeVelero
    BY <2>1, <2>3, Zenon DEF UpgradeVelero
  <2>4. CASE (\E clean \in BOOLEAN : clusterCacheSettings(clean)) \/ AcceptConnection \/ ReceiveResult
    BY <2>4, Zenon DEF clusterCacheSettings, AcceptConnection, ReceiveResult
  <2>5. CASE (\E w \in Writers : GetDaemon(w) \/ WaitRollout(w)) \/ CheckClean \/ WatchJobs
    BY <2>5, Zenon DEF GetDaemon, WaitRollout, CheckClean, WatchJobs
  <2>6. CASE \E n \in Nodes : CreateJob(n) \/ RunJob(n)
    BY <2>6, Zenon DEF CreateJob, RunJob
  <2> QED  BY <2>2, <2>3, <2>4, <2>5, <2>6, Zenon DEF CacheNext, CacheStep
<1> QED  BY <1>1, CacheBegins, CacheStepKeeps, PTL DEF CacheSpec, UpgradeIsKept

-----------------------------------------------------------------------------
(* The cleanup of a plan *)

\* The steps of the three kinds of cleanup.
SourceSteps == {"point1", "wait1", "point2", "wait2", "schedule", "prefix", "repository",
                "backupObjects", "restoreObjects", "kopia", "report"}
TargetSteps == {"names", "prefix", "repository", "report"}
DrillSteps  == {"restores", "spaces", "report"}
StepNames(m) == IF m = "source" THEN SourceSteps ELSE IF m = "target" THEN TargetSteps ELSE DrillSteps

LEMMA SourceOrder ==
  /\ CleaningSteps("source")[1] = "point1" /\ SourceSteps \subseteq Range(CleaningSteps("source"))
  /\ After("source", "point1") = "wait1" /\ After("source", "wait1") = "point2"
  /\ After("source", "point2") = "wait2" /\ After("source", "wait2") = "schedule"
  /\ After("source", "schedule") = "prefix" /\ After("source", "prefix") = "repository"
  /\ After("source", "repository") = "backupObjects" /\ After("source", "backupObjects") = "restoreObjects"
  /\ After("source", "restoreObjects") = "kopia" /\ After("source", "kopia") = "report"
<1> DEFINE s == CleaningSteps("source")
<1>1. s = <<"point1", "wait1", "point2", "wait2", "schedule", "prefix", "repository",
            "backupObjects", "restoreObjects", "kopia", "report">>
  BY Zenon DEF CleaningSteps
<1>2. Len(s) = 11 /\ DOMAIN s = 1..11
  BY <1>1
<1>3. /\ s[1] = "point1" /\ s[2] = "wait1" /\ s[3] = "point2" /\ s[4] = "wait2" /\ s[5] = "schedule"
      /\ s[6] = "prefix" /\ s[7] = "repository" /\ s[8] = "backupObjects" /\ s[9] = "restoreObjects"
      /\ s[10] = "kopia" /\ s[11] = "report"
  BY <1>1
<1> HIDE DEF s
<1>4. \A i \in 1..11 : i \in {1, 2, 3, 4, 5, 6, 7, 8, 9, 10, 11}
  BY SMT
<1>5. /\ {1, 2, 3, 4, 5, 6, 7, 8, 9, 10, 11} \subseteq 1..11
      /\ 2 = 1 + 1 /\ 3 = 2 + 1 /\ 4 = 3 + 1 /\ 5 = 4 + 1 /\ 6 = 5 + 1 /\ 7 = 6 + 1 /\ 8 = 7 + 1
      /\ 9 = 8 + 1 /\ 10 = 9 + 1 /\ 11 = 10 + 1
  BY SMT
<1>6. \A i, k \in 1..Len(s) : s[i] = s[k] => i = k
  BY <1>2, <1>3, <1>4
<1>7. \A k \in 1..11 : After("source", s[k]) = s[k + 1]
  BY <1>2, <1>6, Successor, Zenon DEF After, s
<1>8. After("source", "point1") = s[2] /\ After("source", "wait1") = s[3] /\ After("source", "point2") = s[4]
  BY <1>3, <1>7, SMT
<1>9. After("source", "wait2") = s[5] /\ After("source", "schedule") = s[6] /\ After("source", "prefix") = s[7]
  BY <1>3, <1>7, SMT
<1>10. After("source", "repository") = s[8] /\ After("source", "backupObjects") = s[9]
  BY <1>3, <1>7, SMT
<1>11. After("source", "restoreObjects") = s[10] /\ After("source", "kopia") = s[11]
  BY <1>3, <1>7, SMT
<1>12. \A i \in 1..11 : s[i] \in Range(s)
  BY <1>2, Zenon DEF Range
<1>13. SourceSteps \subseteq Range(s)
  BY <1>3, <1>5, <1>12, ZenonT(60) DEF SourceSteps
<1> QED  BY <1>3, <1>8, <1>9, <1>10, <1>11, <1>13, Zenon DEF s

LEMMA TargetOrder ==
  /\ CleaningSteps("target")[1] = "names" /\ TargetSteps \subseteq Range(CleaningSteps("target"))
  /\ After("target", "names") = "prefix" /\ After("target", "prefix") = "repository"
  /\ After("target", "repository") = "report"
<1> DEFINE s == CleaningSteps("target")
<1>1. s = <<"names", "prefix", "repository", "report">>
  BY Zenon DEF CleaningSteps
<1>2. Len(s) = 4 /\ DOMAIN s = 1..4
  BY <1>1
<1>3. s[1] = "names" /\ s[2] = "prefix" /\ s[3] = "repository" /\ s[4] = "report"
  BY <1>1
<1> HIDE DEF s
<1>4. \A i \in 1..4 : i \in {1, 2, 3, 4}
  BY SMT
<1>5. {1, 2, 3, 4} \subseteq 1..4 /\ 2 = 1 + 1 /\ 3 = 2 + 1 /\ 4 = 3 + 1
  BY SMT
<1>6. \A i, k \in 1..Len(s) : s[i] = s[k] => i = k
  BY <1>2, <1>3, <1>4
<1>7. \A k \in 1..4 : After("target", s[k]) = s[k + 1]
  BY <1>2, <1>6, Successor, Zenon DEF After, s
<1>8. After("target", "names") = s[2] /\ After("target", "prefix") = s[3] /\ After("target", "repository") = s[4]
  BY <1>3, <1>7, SMT
<1>9. \A i \in 1..4 : s[i] \in Range(s)
  BY <1>2, Zenon DEF Range
<1>10. TargetSteps \subseteq Range(s)
  BY <1>3, <1>5, <1>9, Zenon DEF TargetSteps
<1> QED  BY <1>3, <1>8, <1>10, Zenon DEF s

LEMMA DrillOrder ==
  /\ CleaningSteps("drill")[1] = "restores" /\ DrillSteps \subseteq Range(CleaningSteps("drill"))
  /\ After("drill", "restores") = "spaces" /\ After("drill", "spaces") = "report"
<1> DEFINE s == CleaningSteps("drill")
<1>1. s = <<"restores", "spaces", "report">>
  BY Zenon DEF CleaningSteps
<1>2. Len(s) = 3 /\ DOMAIN s = 1..3
  BY <1>1
<1>3. s[1] = "restores" /\ s[2] = "spaces" /\ s[3] = "report"
  BY <1>1
<1> HIDE DEF s
<1>4. \A i \in 1..3 : i \in {1, 2, 3}
  BY SMT
<1>5. {1, 2, 3} \subseteq 1..3 /\ 2 = 1 + 1 /\ 3 = 2 + 1
  BY SMT
<1>6. \A i, k \in 1..Len(s) : s[i] = s[k] => i = k
  BY <1>2, <1>3, <1>4
<1>7. \A k \in 1..3 : After("drill", s[k]) = s[k + 1]
  BY <1>2, <1>6, Successor, Zenon DEF After, s
<1>8. After("drill", "restores") = s[2] /\ After("drill", "spaces") = s[3]
  BY <1>3, <1>7, SMT
<1>9. \A i \in 1..3 : s[i] \in Range(s)
  BY <1>2, Zenon DEF Range
<1>10. DrillSteps \subseteq Range(s)
  BY <1>3, <1>5, <1>9, Zenon DEF DrillSteps
<1> QED  BY <1>3, <1>8, <1>10, Zenon DEF s

CleaningBounds == [modes : SUBSET Modes, faults : Nat, gives : Nat, twice : BOOLEAN, spaces : Seq(Spaces)]
StoresOK ==
  /\ held \in [Clusters -> SUBSET (Artifacts \cup {"repository", "schedule"})]
  /\ objects \subseteq PlanBackups \cup {"restore", "kopia"} /\ asked \subseteq PlanBackups /\ spaces \subseteq Spaces
TurnsOK ==
  /\ task \in [Modes -> [Turns -> Open \cup SourceSteps \cup TargetSteps \cup DrillSteps]]
  /\ \A m \in Modes, g \in Turns : task[m][g] \in Open \cup StepNames(m)

\* What a task of the source that has come to a step has removed from the cluster, which
\* holds H, and from the store, which holds O.
Achieved(step, H, O) ==
  /\ step \in {"prefix", "repository", "backupObjects", "restoreObjects", "kopia", "report"} => "schedule" \notin H
  /\ step \in {"backupObjects", "restoreObjects", "kopia", "report"} => "repository" \notin H
  /\ step \in {"restoreObjects", "kopia", "report"} => O \cap PlanBackups = {}
  /\ step \in {"kopia", "report"} => "restore" \notin O
  /\ step = "report" => "kopia" \notin O
SomeCompleted == \E h \in Turns : task["source"][h] = "completed"

\* Nothing that a step removes for good comes back: Velero's sync restores Backups only, and
\* only while their objects are there.
CleaningInv ==
  /\ cleaning \in CleaningBounds /\ StoresOK /\ TurnsOK
  /\ believed \in [Modes -> {"running", "failed", "completed"}] /\ renewed \in BOOLEAN
  /\ \A g \in Turns : Achieved(task["source"][g], held["source"], objects)
  /\ believed["source"] = "completed" /\ "source" \in cleaning.modes =>
       objects = {} /\ held["source"] \cap {"schedule", "repository"} = {} /\ SomeCompleted
  /\ renewed => SomeCompleted
  /\ DrillStaysInside

\* A task moves alone.
LEMMA TurnMoves ==
  ASSUME TurnsOK, NEW m \in Modes, NEW g \in Turns, NEW step \in Open \cup StepNames(m), CleansOn(m, g, step)
  PROVE  /\ TurnsOK' /\ task'[m][g] = step
         /\ \A n \in Modes, h \in Turns : n # m \/ h # g => task'[n][h] = task[n][h]
<1>1. step \in Open \cup SourceSteps \cup TargetSteps \cup DrillSteps
  BY Zenon DEF StepNames
<1>2. task' \in [Modes -> [Turns -> Open \cup SourceSteps \cup TargetSteps \cup DrillSteps]]
  BY <1>1, Zenon DEF TurnsOK, CleansOn
<1>3. /\ task'[m][g] = step
      /\ \A n \in Modes, h \in Turns : n # m \/ h # g => task'[n][h] = task[n][h]
  BY Zenon DEF TurnsOK, CleansOn
<1> QED  BY <1>2, <1>3, Zenon DEF TurnsOK

\* What has been achieved stays so while the cluster and the store lose things.
LEMMA AchievedStays ==
  ASSUME NEW step, NEW H, NEW O, NEW H2, NEW O2, O2 \subseteq O, H2 \cap {"schedule", "repository"} \subseteq H,
         Achieved(step, H, O)
  PROVE  Achieved(step, H2, O2)
  BY Zenon DEF Achieved

\* A step of a task keeps the invariant when it only removes things, and has achieved what
\* the place it comes to says.
LEMMA RemovalKeeps ==
  ASSUME CleaningInv, NEW m \in Modes, NEW g \in Turns, NEW step \in Open \cup StepNames(m),
         task[m][g] # "completed", CleansOn(m, g, step),
         cleaning' \in CleaningBounds, cleaning'.modes = cleaning.modes, StoresOK',
         objects' \subseteq objects, held'["source"] \subseteq held["source"],
         believed' = believed, renewed' \in BOOLEAN, renewed' => renewed, DrillStaysInside',
         m = "source" => Achieved(step, held'["source"], objects')
  PROVE  CleaningInv'
<1>1. /\ TurnsOK' /\ task'[m][g] = step
      /\ \A n \in Modes, h \in Turns : n # m \/ h # g => task'[n][h] = task[n][h]
  BY TurnMoves, ZenonT(60) DEF CleaningInv
<1>2. "source" \in Modes
  BY Zenon DEF Modes, Clusters
<1>3. \A h \in Turns : Achieved(task'["source"][h], held'["source"], objects')
  <2> TAKE h \in Turns
  <2>1. CASE m = "source" /\ h = g
    BY <1>1, <2>1, Zenon
  <2>2. CASE m # "source" \/ h # g
    <3>1. task'["source"][h] = task["source"][h]
      BY <1>1, <1>2, <2>2, Zenon
    <3>2. Achieved(task["source"][h], held["source"], objects)
      BY Zenon DEF CleaningInv
    <3> QED  BY <3>1, <3>2, AchievedStays, Zenon
  <2> QED  BY <2>1, <2>2, Zenon
<1>4. SomeCompleted => SomeCompleted'
  BY <1>1, <1>2, Zenon DEF SomeCompleted
<1> QED  BY <1>1, <1>3, <1>4, Zenon DEF CleaningInv

\* A call that fails uses up one of the faults; nothing else of the bounds changes.
LEMMA BoundsKeep ==
  ASSUME cleaning \in CleaningBounds, Fine \/ CallFails
  PROVE  cleaning' \in CleaningBounds /\ cleaning'.modes = cleaning.modes
  BY DEF CleaningBounds, Fine, CallFails

\* The deletions that one call of the agent makes in the cluster of its mode.
LEMMA ArtifactsShrink ==
  ASSUME StoresOK, NEW m \in Clusters, NEW g, NEW names, DeleteVeleroBackupArtifacts(m, g, names)
  PROVE  /\ held' \in [Clusters -> SUBSET (Artifacts \cup {"repository", "schedule"})]
         /\ held'["source"] \subseteq held["source"]
         /\ (Fine /\ Done(m, g)) \/ Fail(m, g)
<1>1. \A n \in 0..3 : Removed(m, names, n) \subseteq held[m]
  BY Zenon DEF Removed
<1>2. 3 \in 0..3
  OBVIOUS
<1>3. PICK H \in SUBSET held[m] : held' = [held EXCEPT ![m] = H]
  BY <1>1, <1>2, Zenon DEF DeleteVeleroBackupArtifacts
<1>4. /\ held' \in [Clusters -> SUBSET (Artifacts \cup {"repository", "schedule"})]
      /\ held'["source"] \subseteq held["source"]
  BY <1>3, Zenon DEF StoresOK, Clusters
<1> QED  BY <1>4, Zenon DEF DeleteVeleroBackupArtifacts

LEMMA CleaningStep == CleaningInv /\ [CleaningNext]_cleanVars => CleaningInv'
<1> SUFFICES ASSUME CleaningInv, [CleaningNext]_cleanVars
             PROVE  CleaningInv'
  OBVIOUS
<1>m. "source" \in Modes /\ "target" \in Modes /\ "drill" \in Modes /\ "source" \in Clusters /\ "target" \in Clusters
  BY Zenon DEF Modes, Clusters
<1>i. /\ cleaning \in CleaningBounds /\ StoresOK /\ TurnsOK /\ renewed \in BOOLEAN /\ DrillStaysInside
      /\ \A g \in Turns : Achieved(task["source"][g], held["source"], objects)
  BY Zenon DEF CleaningInv
<1>e. \A m \in Modes : {"failed", "silent", "gone", "completed"} \subseteq Open \cup StepNames(m)
  BY Zenon DEF Open
<1>n. \A step \in {"failed", "silent"} : Achieved(step, held'["source"], objects')
  BY Zenon DEF Achieved
<1>1. ASSUME NEW g \in Turns, NEW k \in 1..2, DeletePoint(g, k)
      PROVE  CleaningInv'
  <2>1. task["source"][g] \in {"point1", "point2"}
    BY <1>1, Zenon DEF DeletePoint, At
  <2>2. PICK step \in {"wait1", "wait2", "failed"} : CleansOn("source", g, step)
    BY <1>1, <2>1, SourceOrder, Zenon DEF DeletePoint, Done, Fail
  <2>3. step \in Open \cup StepNames("source") /\ Achieved(step, held'["source"], objects')
    BY Zenon DEF Open, StepNames, SourceSteps, Achieved
  <2>4. BackupPoints[k] \in PlanBackups
    <3>1. k = 1 \/ k = 2
      OBVIOUS
    <3> QED  BY <3>1 DEF BackupPoints, PlanBackups
  <2>5. cleaning' \in CleaningBounds /\ cleaning'.modes = cleaning.modes
    BY <1>1, <1>i, BoundsKeep, Zenon DEF DeletePoint, Fail
  <2>6. StoresOK'
    BY <1>1, <1>i, <2>4, Zenon DEF DeletePoint, StoresOK
  <2> HIDE DEF CleaningInv
  <2> QED  BY <1>1, <1>m, <1>i, <2>1, <2>2, <2>3, <2>5, <2>6, RemovalKeeps, Zenon DEF DeletePoint, DrillStaysInside
<1>2. ASSUME NEW g \in Turns, NEW k \in 1..2, WaitPoint(g, k)
      PROVE  CleaningInv'
  <2>1. task["source"][g] \in {"wait1", "wait2"}
    BY <1>2, Zenon DEF WaitPoint, At
  <2>2. PICK step \in {"point2", "schedule", "failed", "silent"} : CleansOn("source", g, step)
    BY <1>2, <2>1, SourceOrder, Zenon DEF WaitPoint, Done, Fail
  <2>3. step \in Open \cup StepNames("source") /\ Achieved(step, held'["source"], objects')
    BY Zenon DEF Open, StepNames, SourceSteps, Achieved
  <2>4. cleaning' \in CleaningBounds /\ cleaning'.modes = cleaning.modes
    BY <1>2, <1>i, BoundsKeep, Zenon DEF WaitPoint, Fail
  <2>5. StoresOK'
    BY <1>2, <1>i, Zenon DEF WaitPoint, StoresOK
  <2> QED  BY <1>2, <1>m, <1>i, <2>1, <2>2, <2>3, <2>4, <2>5, RemovalKeeps, Zenon DEF WaitPoint, DrillStaysInside
<1>3. ASSUME NEW g \in Turns, DeleteSchedule(g)
      PROVE  CleaningInv'
  <2>1. task["source"][g] = "schedule"
    BY <1>3, Zenon DEF DeleteSchedule, At
  <2>2. PICK step \in {"prefix", "failed", "silent"} :
          CleansOn("source", g, step) /\ (step = "prefix" => held' = [held EXCEPT !["source"] = @ \ {"schedule"}])
    BY <1>3, <2>1, SourceOrder, Zenon DEF DeleteSchedule, Done, Fail
  <2>3. /\ held' \in [Clusters -> SUBSET (Artifacts \cup {"repository", "schedule"})]
        /\ held'["source"] \subseteq held["source"]
    BY <1>3, <1>i, <1>m, Zenon DEF DeleteSchedule, StoresOK
  <2>4. step = "prefix" => "schedule" \notin held'["source"]
    BY <2>2, <1>i, <1>m, Zenon DEF StoresOK
  <2>5. step \in Open \cup StepNames("source") /\ Achieved(step, held'["source"], objects')
    BY <2>4, Zenon DEF Open, StepNames, SourceSteps, Achieved
  <2>6. cleaning' \in CleaningBounds /\ cleaning'.modes = cleaning.modes
    BY <1>3, <1>i, BoundsKeep, Zenon DEF DeleteSchedule, Fail
  <2>7. StoresOK'
    BY <1>3, <1>i, <2>3, Zenon DEF DeleteSchedule, StoresOK
  <2> QED  BY <1>3, <1>m, <1>i, <2>1, <2>2, <2>3, <2>5, <2>6, <2>7, RemovalKeeps, Zenon DEF DeleteSchedule, DrillStaysInside
<1>4. ASSUME NEW g \in Turns, DeleteByName(g)
      PROVE  CleaningInv'
  <2>1. task["target"][g] = "names"
    BY <1>4, Zenon DEF DeleteByName, At
  <2>2. /\ held' \in [Clusters -> SUBSET (Artifacts \cup {"repository", "schedule"})]
        /\ held'["source"] \subseteq held["source"]
        /\ (Fine /\ Done("target", g)) \/ Fail("target", g)
    BY <1>4, <1>i, <1>m, ArtifactsShrink, Zenon DEF DeleteByName
  <2>3. PICK step \in {"prefix", "failed"} : CleansOn("target", g, step)
    BY <2>1, <2>2, TargetOrder, Zenon DEF Done, Fail
  <2>4. step \in Open \cup StepNames("target")
    BY Zenon DEF Open, StepNames, TargetSteps
  <2>5. cleaning' \in CleaningBounds /\ cleaning'.modes = cleaning.modes
    BY <2>2, <1>i, BoundsKeep, Zenon DEF Fail
  <2>6. StoresOK'
    BY <1>4, <1>i, <2>2, Zenon DEF DeleteByName, StoresOK
  <2> QED  BY <1>4, <1>m, <1>i, <2>1, <2>2, <2>3, <2>4, <2>5, <2>6, RemovalKeeps, Zenon DEF DeleteByName, DrillStaysInside
<1>5. ASSUME NEW m \in Clusters, NEW g \in Turns, DeleteByPrefix(m, g)
      PROVE  CleaningInv'
  <2>1. task[m][g] = "prefix" /\ m \in Modes
    BY <1>5, Zenon DEF DeleteByPrefix, At, Modes
  <2>2. /\ held' \in [Clusters -> SUBSET (Artifacts \cup {"repository", "schedule"})]
        /\ held'["source"] \subseteq held["source"]
        /\ (Fine /\ Done(m, g)) \/ Fail(m, g)
    <3>1. CASE held[m] \cap PlanBackups = {}
      BY <1>5, <1>i, <3>1, Zenon DEF DeleteByPrefix, StoresOK
    <3>2. CASE held[m] \cap PlanBackups # {}
      BY <1>5, <1>i, <3>2, ArtifactsShrink, Zenon DEF DeleteByPrefix
    <3> QED  BY <3>1, <3>2, Zenon
  <2>3. PICK step \in {"repository", "failed"} : CleansOn(m, g, step)
    BY <2>1, <2>2, SourceOrder, TargetOrder, Zenon DEF Done, Fail, Clusters
  <2>4. step \in Open \cup StepNames(m)
    BY <2>1, Zenon DEF Open, StepNames, SourceSteps, TargetSteps, Clusters
  <2>5. m = "source" => Achieved(step, held'["source"], objects')
    <3>1. m = "source" => "schedule" \notin held["source"]
      BY <1>i, <2>1, Zenon DEF Achieved
    <3> QED  BY <2>2, <3>1, Zenon DEF Achieved
  <2>6. cleaning' \in CleaningBounds /\ cleaning'.modes = cleaning.modes
    BY <2>2, <1>i, BoundsKeep, Zenon DEF Fail
  <2>7. StoresOK'
    BY <1>5, <1>i, <2>2, Zenon DEF DeleteByPrefix, StoresOK
  <2> QED  BY <1>5, <1>i, <2>1, <2>2, <2>3, <2>4, <2>5, <2>6, <2>7, RemovalKeeps, Zenon DEF DeleteByPrefix, DrillStaysInside
<1>6. ASSUME NEW m \in Clusters, NEW g \in Turns, DeleteBackupRepositories(m, g)
      PROVE  CleaningInv'
  <2>1. task[m][g] = "repository" /\ m \in Modes
    BY <1>6, Zenon DEF DeleteBackupRepositories, At, Modes
  <2>2. PICK step \in {"backupObjects", "report", "failed"} :
          /\ CleansOn(m, g, step) /\ step \in Open \cup StepNames(m)
          /\ m = "source" => step # "report"
          /\ step # "failed" => held' = [held EXCEPT ![m] = @ \ {"repository"}]
    BY <1>6, <2>1, SourceOrder, TargetOrder
   , Zenon DEF DeleteBackupRepositories, Done, Fail, Clusters, Open, StepNames, SourceSteps, TargetSteps
  <2>3. /\ held' \in [Clusters -> SUBSET (Artifacts \cup {"repository", "schedule"})]
        /\ held'["source"] \subseteq held["source"]
    BY <1>6, <1>i, <1>m, Zenon DEF DeleteBackupRepositories, StoresOK
  <2>4. m = "source" => Achieved(step, held'["source"], objects')
    <3>1. m = "source" => "schedule" \notin held["source"]
      BY <1>i, <2>1, Zenon DEF Achieved
    <3>2. m = "source" /\ step # "failed" => "repository" \notin held'["source"]
      BY <2>2, <1>i, <1>m, Zenon DEF StoresOK
    <3> QED  BY <2>2, <2>3, <3>1, <3>2, Zenon DEF Achieved
  <2>5. cleaning' \in CleaningBounds /\ cleaning'.modes = cleaning.modes
    BY <1>6, <1>i, BoundsKeep, Zenon DEF DeleteBackupRepositories, Fail
  <2>6. StoresOK'
    BY <1>6, <1>i, <2>3, Zenon DEF DeleteBackupRepositories, StoresOK
  <2> QED  BY <1>6, <1>i, <2>1, <2>2, <2>3, <2>4, <2>5, <2>6, RemovalKeeps, Zenon DEF DeleteBackupRepositories, DrillStaysInside
<1>7. ASSUME NEW g \in Turns, NEW here \in {"backupObjects", "restoreObjects", "kopia"}, NEW which,
             Purge(g, here, which), renewed' \in BOOLEAN, renewed' => renewed,
             which = IF here = "backupObjects" THEN PlanBackups ELSE IF here = "kopia" THEN {"kopia"} ELSE {"restore"}
      PROVE  CleaningInv'
  <2>1. task["source"][g] = here
    BY <1>7, Zenon DEF Purge, At
  <2>2. PICK step \in {"restoreObjects", "kopia", "report", "failed"} :
          /\ CleansOn("source", g, step)
          /\ step # "failed" => step = After("source", here) /\ objects' = objects \ which
    BY <1>7, <2>1, SourceOrder, Zenon DEF Purge, Done, Fail
  <2>3. objects' \subseteq objects
    BY <1>7, Zenon DEF Purge
  <2>4. Achieved(step, held'["source"], objects')
    <3>1. Achieved(here, held["source"], objects) /\ held' = held
      BY <1>7, <1>i, <2>1, Zenon DEF Purge
    <3>2. CASE here = "backupObjects" /\ step # "failed"
      BY <1>7, <2>2, <2>3, <3>1, <3>2, SourceOrder, Zenon DEF Achieved
    <3>3. CASE here = "restoreObjects" /\ step # "failed"
      BY <1>7, <2>2, <2>3, <3>1, <3>3, SourceOrder, Zenon DEF Achieved
    <3>4. CASE here = "kopia" /\ step # "failed"
      BY <1>7, <2>2, <2>3, <3>1, <3>4, SourceOrder, Zenon DEF Achieved
    <3> QED  BY <1>7, <1>n, <3>2, <3>3, <3>4, Zenon
  <2>5. step \in Open \cup StepNames("source")
    BY Zenon DEF Open, StepNames, SourceSteps
  <2>6. cleaning' \in CleaningBounds /\ cleaning'.modes = cleaning.modes
    BY <1>7, <1>i, BoundsKeep, Zenon DEF Purge, Fail
  <2>7. StoresOK' /\ held' = held
    BY <1>7, <1>i, <2>3, Zenon DEF Purge, StoresOK
  <2> QED  BY <1>7, <1>m, <1>i, <2>1, <2>2, <2>3, <2>4, <2>5, <2>6, <2>7, RemovalKeeps, Zenon DEF Purge, DrillStaysInside
<1>8. ASSUME NEW g \in Turns, DeleteDrillRestores(g)
      PROVE  CleaningInv'
  <2>1. task["drill"][g] = "restores"
    BY <1>8, Zenon DEF DeleteDrillRestores, At
  <2>2. PICK step \in {"spaces", "failed"} : CleansOn("drill", g, step)
    BY <1>8, <2>1, DrillOrder, Zenon DEF DeleteDrillRestores, Done, Fail
  <2>3. /\ held' \in [Clusters -> SUBSET (Artifacts \cup {"repository", "schedule"})]
        /\ held'["source"] \subseteq held["source"]
    BY <1>8, <1>i, <1>m, Zenon DEF DeleteDrillRestores, StoresOK
  <2>4. step \in Open \cup StepNames("drill")
    BY Zenon DEF Open, StepNames, DrillSteps
  <2>5. cleaning' \in CleaningBounds /\ cleaning'.modes = cleaning.modes
    BY <1>8, <1>i, BoundsKeep, Zenon DEF DeleteDrillRestores, Fail
  <2>6. StoresOK'
    BY <1>8, <1>i, <2>3, Zenon DEF DeleteDrillRestores, StoresOK
  <2> QED  BY <1>8, <1>m, <1>i, <2>1, <2>2, <2>3, <2>4, <2>5, <2>6, RemovalKeeps, Zenon DEF DeleteDrillRestores, DrillStaysInside
<1>9. ASSUME NEW g \in Turns, DeleteDrillNamespaces(g)
      PROVE  CleaningInv'
  <2> DEFINE told == cleaning.spaces
             bad == {i \in 1..Len(told) : Unsafe(told[i])}
             reach(n) == {told[i] : i \in 1..n}
  <2>1. task["drill"][g] = "spaces" /\ told \in Seq(Spaces)
    BY <1>9, <1>i, Zenon DEF DeleteDrillNamespaces, At, CleaningBounds
  <2>2. PICK step \in {"report", "failed"} : CleansOn("drill", g, step)
    BY <1>9, <2>1, DrillOrder, Zenon DEF DeleteDrillNamespaces, Done, Fail
  <2>3. PICK n \in 0..Len(told) : (\A i \in 1..n : i \notin bad) /\ spaces' = spaces \ reach(n)
    <3>1. Len(told) \in Nat /\ DOMAIN told = 1..Len(told)
      BY <2>1
    <3>2. CASE bad = {} /\ spaces' = spaces \ Range(told)
      <4>1. Range(told) = reach(Len(told))
        BY <3>1, Zenon DEF Range
      <4>2. Len(told) \in 0..Len(told) /\ \A i \in 1..Len(told) : i \notin bad
        BY <3>1, <3>2
      <4>3. spaces' = spaces \ reach(Len(told))
        BY <3>2, <4>1, Zenon
      <4> HIDE DEF bad, reach, told
      <4> QED  BY <4>2, <4>3, Zenon
    <3>3. CASE \E i \in bad : (\A j \in 1..(i - 1) : j \notin bad) /\ spaces' = spaces \ reach(i - 1)
      <4>1. PICK i \in bad : (\A j \in 1..(i - 1) : j \notin bad) /\ spaces' = spaces \ reach(i - 1)
        BY <3>3, Zenon
      <4>2. i - 1 \in 0..Len(told)
        BY <3>1, <4>1
      <4> QED  BY <4>1, <4>2, Zenon
    <3>4. CASE \E n \in 0..(Len(told) - 1) : (\A i \in 1..n : i \notin bad) /\ spaces' = spaces \ reach(n)
      <4>1. PICK n \in 0..(Len(told) - 1) : (\A i \in 1..n : i \notin bad) /\ spaces' = spaces \ reach(n)
        BY <3>4, Zenon
      <4>2. n \in 0..Len(told)
        BY <3>1, <4>1
      <4> HIDE DEF bad, reach, told
      <4> QED  BY <4>1, <4>2, Zenon
    <3> QED  BY <1>9, <3>2, <3>3, <3>4, Zenon DEF DeleteDrillNamespaces
  <2>4. ~Unsafe("app-drill") /\ Unsafe("app") /\ Unsafe("agent")
    BY Zenon DEF Unsafe
  <2>5. {"app", "agent"} \cap reach(n) = {}
    <3>1. \A i \in 1..n : i \in 1..Len(told)
      BY <2>1
    <3>2. \A i \in 1..n : ~Unsafe(told[i])
      BY <2>3, <3>1, Zenon
    <3> QED  BY <2>4, <3>2, Zenon
  <2>6. DrillStaysInside' /\ spaces' \subseteq spaces
    BY <1>i, <2>3, <2>5, Zenon DEF DrillStaysInside
  <2>7. step \in Open \cup StepNames("drill")
    BY Zenon DEF Open, StepNames, DrillSteps
  <2>8. cleaning' \in CleaningBounds /\ cleaning'.modes = cleaning.modes
    BY <1>9, <1>i, BoundsKeep, Zenon DEF DeleteDrillNamespaces, Fail
  <2>9. StoresOK' /\ held' = held
    BY <1>9, <1>i, <2>6, Zenon DEF DeleteDrillNamespaces, StoresOK
  <2> QED  BY <1>9, <1>m, <1>i, <2>1, <2>2, <2>6, <2>7, <2>8, <2>9, RemovalKeeps, Zenon DEF DeleteDrillNamespaces
<1>10. ASSUME NEW m \in Modes, NEW g \in Turns, ReportCleanup(m, g)
       PROVE  CleaningInv'
  <2>1. PICK step \in {"gone", "completed"} :
          /\ CleansOn(m, g, step) /\ step \in Open \cup StepNames(m)
          /\ believed' = [believed EXCEPT ![m] = IF step = "gone" THEN "failed" ELSE "completed"]
          /\ task[m][g] = IF step = "gone" THEN "failed" ELSE "report"
    BY <1>10, <1>e, Zenon DEF ReportCleanup, At
  <2>2. /\ TurnsOK' /\ task'[m][g] = step
        /\ \A n \in Modes, h \in Turns : n # m \/ h # g => task'[n][h] = task[n][h]
    BY <1>i, <2>1, TurnMoves, Zenon
  <2>3. \A h \in Turns : Achieved(task'["source"][h], held["source"], objects)
    BY <1>i, <1>m, <2>1, <2>2, Zenon DEF Achieved
  <2>4. SomeCompleted => SomeCompleted'
    BY <1>m, <2>1, <2>2, Zenon DEF SomeCompleted
  <2>5. believed' \in [Modes -> {"running", "failed", "completed"}]
    BY <2>1, Zenon DEF CleaningInv
  <2>6. CASE m = "source" /\ step = "completed"
    <3>1. Achieved("report", held["source"], objects)
      BY <1>i, <2>1, <2>6, Zenon
    <3>2. objects = {} /\ held["source"] \cap {"schedule", "repository"} = {}
      BY <1>i, <3>1, Zenon DEF Achieved, StoresOK
    <3>3. SomeCompleted'
      BY <2>2, <2>6, Zenon DEF SomeCompleted
    <3> QED  BY <1>10, <1>i, <2>2, <2>3, <2>5, <3>2, <3>3, Zenon DEF ReportCleanup, Fine, CleaningInv, StoresOK, DrillStaysInside
  <2>7. CASE m # "source" \/ step = "gone"
    <3>1. believed'["source"] = "completed" => believed["source"] = "completed"
      BY <1>m, <2>1, <2>7, Zenon DEF CleaningInv
    <3> QED  BY <1>10, <1>i, <2>2, <2>3, <2>4, <2>5, <3>1, Zenon DEF ReportCleanup, Fine, CleaningInv, StoresOK, DrillStaysInside
  <2> QED  BY <2>6, <2>7, Zenon
<1>11. ASSUME NEW b \in PlanBackups, VeleroDeletesBackup(b)
       PROVE  CleaningInv'
  <2>1. StoresOK' /\ held'["source"] \subseteq held["source"] /\ objects' \subseteq objects
    BY <1>11, <1>i, <1>m, Zenon DEF VeleroDeletesBackup, StoresOK
  <2>2. \A h \in Turns : Achieved(task["source"][h], held'["source"], objects')
    BY <1>i, <2>1, AchievedStays, Zenon
  <2> QED  BY <1>11, <2>1, <2>2, Zenon DEF VeleroDeletesBackup, CleaningInv, TurnsOK, SomeCompleted, DrillStaysInside
<1>12. ASSUME NEW b \in PlanBackups, NEW c \in Clusters, VeleroSyncs(c, b)
       PROVE  CleaningInv'
  <2>1. StoresOK'
    BY <1>12, <1>i, Zenon DEF VeleroSyncs, StoresOK, Artifacts
  <2>2. held'["source"] \cap {"schedule", "repository"} \subseteq held["source"]
    BY <1>12, <1>i, <1>m, Zenon DEF VeleroSyncs, StoresOK, PlanBackups
  <2>3. \A h \in Turns : Achieved(task["source"][h], held'["source"], objects)
    BY <1>i, <2>2, AchievedStays, Zenon
  <2> QED  BY <1>12, <2>1, <2>2, <2>3, Zenon DEF VeleroSyncs, CleaningInv, TurnsOK, SomeCompleted, DrillStaysInside
<1>13. ASSUME NEW m \in Modes, CleanAgain(m)
       PROVE  CleaningInv'
  <2>1. 2 \in Turns /\ CleaningSteps(m)[1] \in {"point1", "names", "restores"} \cap StepNames(m)
    BY SourceOrder, TargetOrder, DrillOrder DEF Turns, Modes, Clusters, StepNames, SourceSteps, TargetSteps, DrillSteps
  <2>2. CleansOn(m, 2, CleaningSteps(m)[1])
    BY <1>13, Zenon DEF CleanAgain, CleansOn
  <2>3. /\ TurnsOK' /\ task'[m][2] = CleaningSteps(m)[1]
        /\ \A n \in Modes, h \in Turns : n # m \/ h # 2 => task'[n][h] = task[n][h]
    BY <1>i, <2>1, <2>2, TurnMoves, ZenonT(60)
  <2>4. \A h \in Turns : Achieved(task'["source"][h], held["source"], objects)
    BY <1>i, <1>m, <2>1, <2>3, Zenon DEF Achieved
  <2>5. SomeCompleted => SomeCompleted'
    BY <1>13, <1>m, <2>3, Zenon DEF SomeCompleted, CleanAgain
  <2>6. cleaning' \in CleaningBounds /\ cleaning'.modes = cleaning.modes
    BY <1>13, <1>i DEF CleanAgain, Fine, CleaningBounds
  <2>7. /\ believed' \in [Modes -> {"running", "failed", "completed"}]
        /\ believed'["source"] = "completed" => believed["source"] = "completed"
    BY <1>13, <1>m, Zenon DEF CleanAgain, CleaningInv
  <2> QED  BY <1>13, <1>i, <2>3, <2>4, <2>5, <2>6, <2>7 DEF CleanAgain, CleaningInv, StoresOK, DrillStaysInside
<1>14. CASE Renew
  BY <1>14, <1>m, Zenon DEF Renew, CleaningInv, StoresOK, TurnsOK, SomeCompleted, DrillStaysInside
<1>15. CASE UNCHANGED cleanVars
  BY <1>15, Zenon DEF cleanVars, CleaningInv, StoresOK, TurnsOK, SomeCompleted, DrillStaysInside
<1>16. ASSUME NEW g \in Turns, executeProtectionCleanupTask(g)
       PROVE  CleaningInv'
  <2>1. CASE DeleteBackupObjectsByNamePrefix(g)
    BY <1>i, <1>7, <2>1, Zenon DEF DeleteBackupObjectsByNamePrefix
  <2>2. CASE DeleteRestoreObjects(g)
    BY <1>i, <1>7, <2>2, Zenon DEF DeleteRestoreObjects
  <2>3. CASE DeleteKopiaRepositories(g)
    BY <1>i, <1>7, <2>3, Zenon DEF DeleteKopiaRepositories
  <2> QED  BY <1>16, <1>1, <1>2, <1>3, <1>4, <1>5, <1>6, <1>8, <1>9, <1>10, <2>1, <2>2, <2>3
          , Zenon DEF executeProtectionCleanupTask
<1> QED  BY <1>11, <1>12, <1>13, <1>14, <1>15, <1>16, Zenon DEF CleaningNext

LEMMA CleaningBegins == CleaningInit => CleaningInv
<1> SUFFICES ASSUME CleaningInit PROVE CleaningInv
  OBVIOUS
<1>1. cleaning \in CleaningBounds
  BY CleaningAssumption, Zenon DEF CleaningInit, CleaningBounds
<1>2. StoresOK
  BY Zenon DEF CleaningInit, StoresOK, Artifacts, Clusters
<1>3. \A m \in Modes : CleaningSteps(m)[1] \in {"point1", "names", "restores"} \cap StepNames(m)
  BY SourceOrder, TargetOrder, DrillOrder, Zenon DEF Modes, Clusters, StepNames, SourceSteps, TargetSteps, DrillSteps
<1>4. \A m \in Modes : {"off"} \cup StepNames(m) \subseteq Open \cup SourceSteps \cup TargetSteps \cup DrillSteps
  BY Zenon DEF Open, StepNames
<1>5. TurnsOK
  BY <1>3, <1>4, Zenon DEF CleaningInit, TurnsOK, Open
<1>6. "source" \in Modes /\ \A g \in Turns : task["source"][g] \in {"off", "point1", "names", "restores"}
  BY <1>3, Zenon DEF CleaningInit, Modes, Clusters
<1>7. \A g \in Turns : Achieved(task["source"][g], held["source"], objects)
  BY <1>6, Zenon DEF Achieved
<1>8. /\ believed \in [Modes -> {"running", "failed", "completed"}]
      /\ believed["source"] = "completed" => "source" \notin cleaning.modes
  BY <1>6, Zenon DEF CleaningInit
<1>9. renewed \in BOOLEAN /\ ~renewed
  BY Zenon DEF CleaningInit
<1>10. DrillStaysInside
  BY Zenon DEF CleaningInit, DrillStaysInside, Spaces
<1> QED  BY <1>1, <1>2, <1>5, <1>7, <1>8, <1>9, <1>10, Zenon DEF CleaningInv

\* Whatever fails, is repeated or is delivered twice: a plan whose source reports a complete
\* cleanup has nothing left in the store, nor its schedule and repository in the cluster, and
\* no cleanup of drills removes the application's or the agent's namespace.
THEOREM CleanupIsSafe == CleaningSpec => []CleaningSafety
<1>1. CleaningInv => CleaningSafety
  <2> SUFFICES ASSUME CleaningInv PROVE CleaningSafety
    OBVIOUS
  <2>1. \A m \in Modes : StepNames(m) \subseteq Range(CleaningSteps(m))
    BY SourceOrder, TargetOrder, DrillOrder, Zenon DEF StepNames, Modes, Clusters
  <2>2. CleaningTypeOK
    BY <2>1, Zenon DEF CleaningInv, StoresOK, TurnsOK, CleaningTypeOK
  <2> QED  BY <2>2, Zenon DEF CleaningInv, CleaningSafety, CleanedIsGone
<1> QED  BY <1>1, CleaningBegins, CleaningStep, PTL DEF CleaningSpec

\* Only a run of the source's cleanup that goes on beside a completed one can delete the data
\* of a plan that was made afterwards.
THEOREM RenewedPlansKeepData == CleaningSpec => RenewedIsKept
<1>1. ASSUME CleaningInv, [CleaningNext]_cleanVars
      PROVE  [renewed => renewed' \/ \E g \in Turns : Working("source", g) /\ \E h \in Turns \ {g} : task["source"][h] = "completed"]_cleanVars
  <2> SUFFICES ASSUME CleaningNext, renewed, ~renewed'
               PROVE  \E g \in Turns : Working("source", g) /\ \E h \in Turns \ {g} : task["source"][h] = "completed"
    BY <1>1, Zenon
  <2>1. PICK g \in Turns : DeleteKopiaRepositories(g)
    <3>1. CASE \E g \in Turns : executeProtectionCleanupTask(g)
      BY <3>1, Zenon DEF executeProtectionCleanupTask, DeletePoint, WaitPoint, DeleteSchedule, DeleteByName, DeleteByPrefix,
         DeleteBackupRepositories, DeleteBackupObjectsByNamePrefix, DeleteRestoreObjects, DeleteDrillRestores,
         DeleteDrillNamespaces, ReportCleanup
    <3>2. CASE \E b \in PlanBackups : VeleroDeletesBackup(b) \/ \E c \in Clusters : VeleroSyncs(c, b)
      BY <3>2, Zenon DEF VeleroDeletesBackup, VeleroSyncs
    <3>3. CASE (\E m \in Modes : CleanAgain(m)) \/ Renew
      BY <3>3, Zenon DEF CleanAgain, Renew
    <3> QED  BY <3>1, <3>2, <3>3, Zenon DEF CleaningNext
  <2>2. task["source"][g] = "kopia"
    BY <2>1, Zenon DEF DeleteKopiaRepositories, Purge, At
  <2>3. PICK h \in Turns : task["source"][h] = "completed"
    BY <1>1, Zenon DEF CleaningInv, SomeCompleted
  <2> QED  BY <2>2, <2>3, Zenon DEF Working, Open
<1> QED  BY <1>1, CleaningBegins, CleaningStep, PTL DEF CleaningSpec, RenewedIsKept

-----------------------------------------------------------------------------
(* The registration of a cluster from a kubeconfig *)

Histories == [helm : BOOLEAN, type : {"native", "cce", "openshift"}, has : [Contexts -> SUBSET Gates],
              probes : Nat, starts : Nat, cancels : Nat, deletes : Nat, restarts : Nat, faults : Nat]

\* The lease of a task that has not ended runs, and its Job is known.
Leased == enrolTask.status \in Enrolling /\ now < enrolTask.expires /\ ~startLost

\* What is known of a session is in its directory, and until its lease is over.
SessionInv ==
  /\ files = {} => result = NoResult
  /\ "request" \in files => "kubeconfig" \in files
  /\ enrolTask.status = "none" /\ Known => "kubeconfig" \in files
  /\ enrolTask.status # "none" /\ upload.known => upload.expires = enrolTask.expires

\* The result that is read is that of the context asked for.
ProbeInv ==
  /\ ~stale => \A c \in upload.inspected : inspectCluster(c)
  /\ result.ok => inspectCluster(result.context)
  /\ ~stale /\ result # NoResult => IF probe = "idle" THEN ~upload.known ELSE result.context = probe

\* Nobody works on a task that was not created or not claimed.
TaskInv ==
  /\ enrolTask.status = "none" => cancel = "idle" /\ starting = "idle"
  /\ \A e \in Executors : executor[e].at \in Busy => enrolTask.status \notin {"none", "queued"}
  /\ \A e \in Executors : executor[e].at = "settle" => executor[e].end \in Ended

\* A Job that was not made runs nothing.
JobInv ==
  /\ starting = "job" => enrolment.helm /\ ~jobMade
  /\ enrolment.helm /\ ~jobMade => \A e \in Executors : executor[e].at = "idle"
  /\ jobMade => enrolTask.status # "none"

\* A janitor's pass that does not spare the session began before the task, whose upload is
\* known ever since; unless its Job was not made.
SweepInv ==
  sweep = "sweep" /\ Leased /\ ~upload.known => enrolment.helm /\ ~jobMade /\ starting # "job"

EnrolInv ==
  /\ enrolment \in Histories /\ EnrolTypeOK /\ SessionInv /\ ProbeInv /\ TaskInv /\ JobInv /\ SweepInv
  /\ InstallHasCredential /\ OneInstaller /\ OnlyInspected

Uploads == [known : BOOLEAN, expires : Times, inspected : SUBSET Contexts]
Results == [context : Contexts \cup {"none"}, ok : BOOLEAN]
TaskRecords == [status : Enrolling \cup Ended \cup {"none"}, context : Contexts \cup {"none"}, expires : Times]
ExecutorRecords == [at : Busy \cup {"idle"}, end : Ended \cup {"none"}]

\* The cluster does not change.
SameCluster ==
  /\ enrolment' \in Histories /\ enrolment'.helm = enrolment.helm
  /\ enrolment'.type = enrolment.type /\ enrolment'.has = enrolment.has

LEMMA SpendKeeps ==
  ASSUME enrolment \in Histories, NEW what \in {"probes", "starts", "cancels", "deletes", "restarts", "faults"}, Spends(what)
  PROVE  SameCluster
<1>1. CASE what = "probes"
  BY <1>1 DEF Spends, SameCluster, Histories
<1>2. CASE what = "starts"
  BY <1>2 DEF Spends, SameCluster, Histories
<1>3. CASE what = "cancels"
  BY <1>3 DEF Spends, SameCluster, Histories
<1>4. CASE what = "deletes"
  BY <1>4 DEF Spends, SameCluster, Histories
<1>5. CASE what = "restarts"
  BY <1>5 DEF Spends, SameCluster, Histories
<1>6. CASE what = "faults"
  BY <1>6 DEF Spends, SameCluster, Histories
<1> QED  BY <1>1, <1>2, <1>3, <1>4, <1>5, <1>6, Zenon

LEMMA InspectionStands ==
  ASSUME SameCluster
  PROVE  \A c : inspectCluster(c)' <=> inspectCluster(c)
  BY Zenon DEF SameCluster, inspectCluster, Demanded

LEMMA EnrolTypesAre ==
  /\ NoUpload \in Uploads /\ NoResult \in Results /\ ~NoUpload.known /\ NoUpload.inspected = {} /\ ~NoResult.ok
  /\ Rested \in ExecutorRecords /\ Rested.at = "idle"
<1>1. 0 \in Times
  BY EnrolmentAssumption DEF Times
<1> QED  BY <1>1, Zenon DEF NoUpload, NoResult, Rested, Uploads, Results, ExecutorRecords

LEMMA EnrolInvSuffices == EnrolInv => EnrolmentSafety
  BY Zenon DEF EnrolInv, EnrolmentSafety

LEMMA EnrolStarts == EnrolInit => EnrolInv
<1> SUFFICES ASSUME EnrolInit PROVE EnrolInv
  OBVIOUS
<1>1. enrolment \in Histories
  BY EnrolmentAssumption, Zenon DEF EnrolInit, Histories
<1>2. 0 \in Times /\ 0 \in 0..LastTime
  BY EnrolmentAssumption DEF Times
<1>3. EnrolTypeOK
  BY <1>2, EnrolTypesAre, Zenon DEF EnrolInit, EnrolTypeOK, Uploads, Results, ExecutorRecords, Enrolling
<1>4. \A e \in Executors : executor[e].at = "idle"
  BY EnrolTypesAre, Zenon DEF EnrolInit
<1>5. SessionInv /\ ProbeInv /\ TaskInv /\ JobInv /\ SweepInv /\ OnlyInspected
  BY <1>4, EnrolTypesAre, Zenon DEF EnrolInit, SessionInv, ProbeInv, TaskInv, JobInv, SweepInv, OnlyInspected, Known, Busy
<1>6. InstallHasCredential /\ OneInstaller
  BY <1>4, Zenon DEF InstallHasCredential, OneInstaller, Busy
<1> QED  BY <1>1, <1>3, <1>5, <1>6, Zenon DEF EnrolInv

-----------------------------------------------------------------------------
\* A step that inspects: the session's files, its lease and the task stay.
LEMMA InspectingKeeps ==
  ASSUME EnrolInv, SameCluster,
         UNCHANGED <<now, timers, files, enrolTask, starting, jobMade, executor, cancel, sweep, startLost>>,
         upload' \in Uploads, upload'.known = upload.known, upload'.expires = upload.expires,
         result' \in Results, probe' \in Contexts \cup {"idle"},
         probeJob' \in [at : {"none", "running", "kept"}, context : Contexts \cup {"none"}],
         stale' \in BOOLEAN, stale => stale', files = {} => result' = NoResult, ProbeInv'
  PROVE  EnrolInv'
<1>1. EnrolTypeOK'
  BY Zenon DEF EnrolInv, EnrolTypeOK, Uploads, Results
<1>2. SessionInv'
  BY Zenon DEF EnrolInv, SessionInv, Known
<1>3. TaskInv' /\ JobInv' /\ SweepInv'
  BY Zenon DEF EnrolInv, TaskInv, JobInv, SweepInv, SameCluster, Leased
<1>4. InstallHasCredential' /\ OneInstaller'
  BY Zenon DEF EnrolInv, InstallHasCredential, OneInstaller
<1>5. OnlyInspected'
  BY InspectionStands, Zenon DEF EnrolInv, OnlyInspected
<1> QED  BY <1>1, <1>2, <1>3, <1>4, <1>5, Zenon DEF EnrolInv, SameCluster

Inspects(c) == InspectByService(c) \/ createRegistrationInspectionJob(c)
Inspection == runInspectionJob \/ JobIsCollected \/ ReadInspection \/ InspectionTimesOut

LEMMA InspectionsKeep ==
  ASSUME EnrolInv, Inspection \/ \E c \in Contexts : Inspects(c)
  PROVE  EnrolInv'
<1> USE DEF EnrolInv
<1>0. /\ upload \in Uploads /\ result \in Results /\ probe \in Contexts \cup {"idle"} /\ stale \in BOOLEAN
      /\ probeJob \in [at : {"none", "running", "kept"}, context : Contexts \cup {"none"}]
      /\ "none" \notin Contexts /\ "idle" \notin Contexts
  BY EnrolmentAssumption, Zenon DEF EnrolTypeOK, Uploads, Results
<1>1. ASSUME NEW c \in Contexts, InspectByService(c) PROVE EnrolInv'
  <2>1. SameCluster
    BY <1>1, SpendKeeps, Zenon DEF InspectByService
  <2>2. /\ upload' \in Uploads /\ upload'.known = upload.known /\ upload'.expires = upload.expires
        /\ upload'.inspected = upload.inspected \cup {c}
    BY <1>0, <1>1, Zenon DEF InspectByService, Uploads
  <2>3. inspectCluster(c) /\ UNCHANGED <<result, probe, probeJob, stale>>
    BY <1>1, Zenon DEF InspectByService
  <2>4. ProbeInv'
    BY <2>1, <2>2, <2>3, InspectionStands, Zenon DEF ProbeInv
  <2> QED  BY <1>0, <1>1, <2>1, <2>2, <2>3, <2>4, InspectingKeeps DEF InspectByService, SessionInv
<1>2. ASSUME NEW c \in Contexts, createRegistrationInspectionJob(c) PROVE EnrolInv'
  <2>1. SameCluster
    BY <1>2, SpendKeeps, Zenon DEF createRegistrationInspectionJob
  <2>2. probeJob' \in [at : {"none", "running", "kept"}, context : Contexts \cup {"none"}] /\ probe' = c
    BY <1>2, Zenon DEF createRegistrationInspectionJob
  <2>3. UNCHANGED <<result, upload, stale>> /\ upload.known /\ probe = "idle"
    BY <1>2, Zenon DEF createRegistrationInspectionJob, Known
  <2>4. ProbeInv'
    BY <2>1, <2>2, <2>3, InspectionStands, Zenon DEF ProbeInv
  <2> QED  BY <1>0, <1>2, <2>1, <2>2, <2>3, <2>4, InspectingKeeps DEF createRegistrationInspectionJob, SessionInv
<1>3. CASE Inspection
  <2>1. SameCluster
    BY <1>3, Zenon DEF Inspection, runInspectionJob, JobIsCollected, ReadInspection, InspectionTimesOut, SameCluster
  <2>2. CASE runInspectionJob
    <3>1. probeJob' \in [at : {"none", "running", "kept"}, context : Contexts \cup {"none"}]
      BY <1>0, <2>2, Zenon DEF runInspectionJob
    <3>2. /\ result' \in Results /\ stale' \in BOOLEAN /\ (stale => stale') /\ UNCHANGED <<upload, probe>>
          /\ files = {} => result' = NoResult
      <4>1. inspectCluster(probeJob.context) \in BOOLEAN
        BY Zenon DEF inspectCluster
      <4>2. result' \in Results
        BY <1>0, <2>2, <4>1 DEF runInspectionJob, Results
      <4>3. stale' \in {stale, stale \/ probe # probeJob.context} /\ UNCHANGED <<upload, probe>>
        BY <2>2, Zenon DEF runInspectionJob
      <4>4. stale' \in BOOLEAN /\ (stale => stale')
        BY <1>0, <4>3, Zenon
      <4>5. files = {} => result' = NoResult
        BY <2>2, Zenon DEF runInspectionJob, SessionInv
      <4> QED  BY <4>2, <4>3, <4>4, <4>5, Zenon
    <3>3. ProbeInv'
      <4>1. CASE UNCHANGED <<result, stale>>
        BY <2>1, <3>2, <4>1, InspectionStands, Zenon DEF ProbeInv
      <4>2. CASE /\ result' = [context |-> probeJob.context, ok |-> inspectCluster(probeJob.context)]
                 /\ stale' = (stale \/ probe # probeJob.context)
        <5>1. result'.context = probeJob.context /\ (result'.ok <=> inspectCluster(probeJob.context))
          BY <4>2, Zenon
        <5>2. ~stale' => ~stale /\ probe = probeJob.context /\ result'.context = probe
          BY <4>2, <5>1, Zenon
        <5>3. ~stale' => probe # "idle"
          BY <1>0, <5>2, Zenon
        <5> QED  BY <2>1, <3>2, <5>1, <5>2, <5>3, InspectionStands, Zenon DEF ProbeInv
      <4> QED  BY <2>2, <4>1, <4>2, Zenon DEF runInspectionJob
    <3> QED  BY <1>0, <2>1, <2>2, <3>1, <3>2, <3>3, InspectingKeeps, Zenon DEF runInspectionJob
  <2>3. CASE JobIsCollected
    <3>1. probeJob' \in [at : {"none", "running", "kept"}, context : Contexts \cup {"none"}]
      BY <2>3, Zenon DEF JobIsCollected
    <3>2. UNCHANGED <<upload, result, probe, stale>>
      BY <2>3, Zenon DEF JobIsCollected
    <3>3. ProbeInv'
      BY <2>1, <3>2, InspectionStands, Zenon DEF ProbeInv
    <3> QED  BY <1>0, <2>1, <2>3, <3>1, <3>2, <3>3, InspectingKeeps DEF JobIsCollected, SessionInv
  <2>4. CASE ReadInspection
    <3>1. /\ upload' \in Uploads /\ upload'.known = upload.known /\ upload'.expires = upload.expires
          /\ upload'.inspected \subseteq upload.inspected \cup (IF result.ok THEN {probe} ELSE {})
      BY <1>0, <2>4, Zenon DEF ReadInspection, Uploads
    <3>2. /\ probe' = "idle" /\ result' = NoResult /\ probe \in Contexts /\ result # NoResult
          /\ UNCHANGED <<probeJob, stale>>
      BY <1>0, <2>4, Zenon DEF ReadInspection
    <3>3. ~stale /\ result.ok => inspectCluster(probe)
      BY <1>0, <3>2, Zenon DEF ProbeInv
    <3>4. ProbeInv'
      BY <2>1, <3>1, <3>2, <3>3, InspectionStands, EnrolTypesAre, Zenon DEF ProbeInv
    <3> QED  BY <1>0, <2>1, <2>4, <3>1, <3>2, <3>4, InspectingKeeps, EnrolTypesAre DEF ReadInspection
  <2>5. CASE InspectionTimesOut
    <3>1. probe' = "idle" /\ result = NoResult /\ UNCHANGED <<upload, result, probeJob, stale>>
      BY <2>5, Zenon DEF InspectionTimesOut
    <3>2. ProbeInv'
      BY <2>1, <3>1, InspectionStands, Zenon DEF ProbeInv
    <3> QED  BY <1>0, <2>1, <2>5, <3>1, <3>2, InspectingKeeps DEF InspectionTimesOut
  <2> QED  BY <1>3, <2>2, <2>3, <2>4, <2>5, Zenon DEF Inspection
<1> QED  BY <1>1, <1>2, <1>3, Zenon DEF Inspects
-----------------------------------------------------------------------------
LEMMA ResultsStand ==
  ASSUME EnrolInv, SameCluster, UNCHANGED stale, upload'.known => upload.known,
         upload'.inspected \subseteq upload.inspected, result' = result \/ result' = NoResult,
         probe' = probe \/ (probe' = "idle" /\ ~upload'.known)
  PROVE  ProbeInv'
  BY InspectionStands, EnrolTypesAre, Zenon DEF EnrolInv, ProbeInv

LEMMA UpdateKeeps ==
  ASSUME EnrolInv, NEW s \in Enrolling \cup Ended, UpdateTaskStatus(s), enrolTask.status # "none"
  PROVE  /\ enrolTask' \in TaskRecords /\ enrolTask'.context = enrolTask.context /\ enrolTask'.expires = enrolTask.expires
         /\ enrolTask'.status # "none"
         /\ enrolTask'.status = IF enrolTask.status \in Ended THEN enrolTask.status ELSE s
<1>1. enrolTask \in TaskRecords
  BY Zenon DEF EnrolInv, EnrolTypeOK, TaskRecords
<1>2. "none" \notin Enrolling \cup Ended
  BY Zenon DEF Enrolling, Ended
<1> QED  BY <1>1, <1>2, Zenon DEF UpdateTaskStatus, TaskRecords

\* A step of the executor e, which is then r.
LEMMA ExecutorKeeps ==
  ASSUME EnrolInv, SameCluster, Elsewhere, NEW e \in Executors, NEW r \in ExecutorRecords,
         executor' = [executor EXCEPT ![e] = r],
         enrolTask' \in TaskRecords, enrolTask'.context = enrolTask.context, enrolTask'.expires = enrolTask.expires,
         enrolTask.status # "none", enrolTask'.status \notin {"none", "queued"},
         enrolTask'.status \in Enrolling => enrolTask.status \in Enrolling,
         executor[e].at \in Busy \/ enrolTask.status = "queued",
         r.at = "settle" => r.end \in Ended,
         enrolment.helm /\ ~jobMade => r.at = "idle",
         \/ UNCHANGED <<files, result>>
         \/ RemoveAll /\ r.at \notin {"preflight", "install"},
         r.at \in {"preflight", "install"} /\ Leased' => "kubeconfig" \in files
  PROVE  EnrolInv'
<1> USE DEF EnrolInv
<1>1. EnrolTypeOK'
  <2>1. executor' \in [Executors -> ExecutorRecords]
    BY Zenon DEF EnrolTypeOK, ExecutorRecords
  <2>2. result' \in Results /\ files' \subseteq {"kubeconfig", "request"}
    BY EnrolTypesAre, Zenon DEF EnrolTypeOK, Results, RemoveAll
  <2> QED  BY <2>1, <2>2 DEF EnrolTypeOK, ExecutorRecords, Results, TaskRecords, Elsewhere
<1>2. SessionInv'
  BY Zenon DEF SessionInv, Elsewhere, RemoveAll, Known
<1>3. ProbeInv'
  BY ResultsStand, Zenon DEF Elsewhere, RemoveAll
<1>4. executor'[e] = r /\ \A f \in Executors : f # e => executor'[f] = executor[f]
  BY Zenon DEF EnrolTypeOK
<1>5. \A f \in Executors : f # e => executor[f].at \notin Busy
  BY Zenon DEF TaskInv, OneInstaller
<1>6. TaskInv'
  <2>1. \A f \in Executors : executor'[f].at \in Busy => enrolTask'.status \notin {"none", "queued"}
    OBVIOUS
  <2>2. \A f \in Executors : executor'[f].at = "settle" => executor'[f].end \in Ended
    BY <1>4, Zenon DEF TaskInv
  <2> QED  BY <2>1, <2>2, Zenon DEF TaskInv
<1>7. JobInv'
  BY <1>4, Zenon DEF JobInv, SameCluster, Elsewhere
<1>8. Leased' => Leased
  BY Zenon DEF Leased, Elsewhere
<1>9. SweepInv'
  BY <1>8, Zenon DEF SweepInv, SameCluster, Elsewhere
<1>10. InstallHasCredential'
  <2> SUFFICES ASSUME NEW f \in Executors, executor'[f].at \in {"preflight", "install"}, Leased'
               PROVE  "kubeconfig" \in files'
    BY Zenon DEF InstallHasCredential, Leased
  <2>1. f = e
    BY <1>4, <1>5, Zenon DEF Busy
  <2> QED  BY <1>4, <2>1, Zenon
<1>11. OneInstaller'
  BY <1>4, <1>5, Zenon DEF OneInstaller
<1>12. OnlyInspected'
  BY InspectionStands, Zenon DEF OnlyInspected, Elsewhere
<1> QED  BY <1>1, <1>2, <1>3, <1>6, <1>7, <1>9, <1>10, <1>11, <1>12, Zenon DEF SameCluster

\* A step of the API that does not make the task or its Job.
LEMMA ApiKeeps ==
  ASSUME EnrolInv, SameCluster, UNCHANGED <<executor, jobMade, startLost, probeJob, stale>>,
         now' \in 0..LastTime, now <= now', upload' = upload \/ upload' = NoUpload, timers' \subseteq Times,
         probe' = probe \/ (probe' = "idle" /\ upload' = NoUpload),
         enrolTask' \in TaskRecords, enrolTask'.context = enrolTask.context, enrolTask'.expires = enrolTask.expires,
         enrolTask'.status = "none" <=> enrolTask.status = "none",
         enrolTask'.status = enrolTask.status \/ enrolTask'.status # "queued",
         enrolTask'.status \in Enrolling => enrolTask.status \in Enrolling,
         starting' \in {starting, "idle"}, cancel' \in Enrolling \cup {"idle"},
         cancel' # "idle" => enrolTask.status # "none", sweep' \in {"idle", "spare", "sweep"},
         \/ UNCHANGED <<files, result>>
         \/ /\ RemoveAll /\ (enrolTask.status = "none" => ~Known')
            /\ \A e \in Executors : executor[e].at \in {"preflight", "install"} => ~Leased',
         UNCHANGED <<upload, sweep, starting>> \/ ~Leased' \/ sweep' # "sweep"
  PROVE  EnrolInv'
<1> USE DEF EnrolInv
<1>1. EnrolTypeOK'
  <2>1. result' \in Results /\ files' \subseteq {"kubeconfig", "request"}
    BY EnrolTypesAre, Zenon DEF EnrolTypeOK, Results, RemoveAll
  <2>2. upload' \in Uploads /\ probe' \in Contexts \cup {"idle"} /\ starting' \in {"idle", "job", "failing"}
    BY EnrolTypesAre, Zenon DEF EnrolTypeOK, Uploads
  <2> QED  BY <2>1, <2>2, Zenon DEF EnrolTypeOK, Uploads, Results, TaskRecords
<1>2. Known' => Known
  BY EnrolTypesAre DEF Known, EnrolTypeOK, Times
<1>3. SessionInv'
  BY <1>2, EnrolTypesAre, Zenon DEF SessionInv, RemoveAll
<1>4. ProbeInv'
  BY ResultsStand, EnrolTypesAre, Zenon DEF RemoveAll
<1>5. TaskInv'
  BY Zenon DEF TaskInv
<1>6. JobInv'
  BY Zenon DEF JobInv, SameCluster
<1>7. Leased' => Leased
  BY DEF Leased, EnrolTypeOK, Times
<1>8. SweepInv'
  BY <1>7, Zenon DEF SweepInv, SameCluster
<1>9. InstallHasCredential'
  BY <1>7, Zenon DEF InstallHasCredential, Leased
<1>10. OneInstaller' /\ OnlyInspected'
  BY InspectionStands, Zenon DEF OneInstaller, OnlyInspected
<1> QED  BY <1>1, <1>3, <1>4, <1>5, <1>6, <1>8, <1>9, <1>10, Zenon DEF SameCluster
-----------------------------------------------------------------------------
LEMMA ExecutorsKeep ==
  ASSUME EnrolInv, NEW e \in Executors, RunRegistration(e) \/ ObserveStage(e) \/ ExecutorDies(e)
  PROVE  EnrolInv'
<1> USE DEF EnrolInv
<1>0. /\ executor \in [Executors -> ExecutorRecords] /\ executor[e] \in ExecutorRecords
      /\ enrolTask \in TaskRecords
  BY Zenon DEF EnrolTypeOK, ExecutorRecords, TaskRecords
<1>1. executor[e].at \in Busy => enrolTask.status \notin {"none", "queued"} /\ ~(enrolment.helm /\ ~jobMade)
  BY Zenon DEF TaskInv, JobInv, Busy
<1>2. CASE ClaimQueuedTask(e)
  <2> DEFINE r == [executor[e] EXCEPT !.at = "claimed"]
  <2>1. SameCluster /\ Elsewhere /\ UNCHANGED <<files, result>>
    BY <1>2, Zenon DEF ClaimQueuedTask, SameCluster, Elsewhere
  <2>2. /\ enrolTask' \in TaskRecords /\ enrolTask'.context = enrolTask.context /\ enrolTask'.expires = enrolTask.expires
        /\ enrolTask'.status = "running" /\ enrolTask.status = "queued"
    BY <1>0, <1>2, Zenon DEF ClaimQueuedTask, TaskRecords, Enrolling
  <2>3. r \in ExecutorRecords /\ r.at = "claimed" /\ executor' = [executor EXCEPT ![e] = r]
    BY <1>0, <1>2, Zenon DEF ClaimQueuedTask, ExecutorRecords, Busy
  <2>4. ~(enrolment.helm /\ ~jobMade)
    BY <1>2, Zenon DEF ClaimQueuedTask, MayRun
  <2> HIDE DEF r
  <2> QED  BY <2>1, <2>2, <2>3, <2>4, ExecutorKeeps, Zenon DEF Enrolling
\* A step that ends in a failure.
<1>3. ASSUME executor[e].at \in Busy, FailRun(e), SameCluster, Elsewhere PROVE EnrolInv'
  <2>1. UpdateTaskStatus("failed") /\ executor' = [executor EXCEPT ![e] = Rested] /\ RemoveAll
    BY <1>3, Zenon DEF FailRun
  <2>2. "failed" \in Enrolling \cup Ended /\ "failed" \in Ended /\ Enrolling \cap Ended = {} /\ "queued" \notin Ended
    BY Zenon DEF Ended, Enrolling
  <2>3. /\ enrolTask' \in TaskRecords /\ enrolTask'.context = enrolTask.context /\ enrolTask'.expires = enrolTask.expires
        /\ enrolTask'.status # "none" /\ enrolTask'.status \in Ended
    BY <1>1, <1>3, <2>1, <2>2, UpdateKeeps, Zenon
  <2> QED  BY <1>1, <1>3, <2>1, <2>2, <2>3, ExecutorKeeps, EnrolTypesAre, Zenon
<1>4. CASE ReadRequest(e)
  <2>1. SameCluster /\ Elsewhere /\ executor[e].at = "claimed"
    BY <1>4, Zenon DEF ReadRequest, SameCluster
  <2>2. CASE "request" \in files
    <3> DEFINE r == [executor[e] EXCEPT !.at = "preflight"]
    <3>1. r \in ExecutorRecords /\ r.at = "preflight" /\ executor' = [executor EXCEPT ![e] = r]
      BY <1>0, <1>4, <2>2, Zenon DEF ReadRequest, Works, ExecutorRecords, Busy
    <3>2. UpdateTaskStatus("running") /\ UNCHANGED <<files, result>> /\ "running" \in Enrolling \cup Ended
      BY <1>4, <2>2, Zenon DEF ReadRequest, Enrolling
    <3>3. enrolTask.status \notin {"none", "queued"} /\ ~(enrolment.helm /\ ~jobMade)
      BY <1>1, <2>1, Zenon DEF Busy
    <3>4. /\ enrolTask' \in TaskRecords /\ enrolTask'.context = enrolTask.context /\ enrolTask'.expires = enrolTask.expires
          /\ enrolTask'.status \notin {"none", "queued"}
          /\ enrolTask'.status \in Enrolling => enrolTask.status \in Enrolling
      BY <1>0, <3>2, <3>3, UpdateKeeps, Zenon DEF TaskRecords, Enrolling, Ended
    <3>5. "kubeconfig" \in files
      BY <2>2, Zenon DEF SessionInv
    <3> HIDE DEF r
    <3> QED  BY <2>1, <3>1, <3>2, <3>3, <3>4, <3>5, ExecutorKeeps, Zenon DEF Busy
  <2>3. CASE "request" \notin files
    BY <1>3, <1>4, <2>1, <2>3, Zenon DEF ReadRequest, Busy
  <2> QED  BY <2>2, <2>3, Zenon
<1>5. CASE downloadInstaller(e)
  <2>1. Elsewhere /\ executor[e].at = "preflight"
    BY <1>5, Zenon DEF downloadInstaller
  <2>2. CASE Works(e, "preflight", "install") /\ UNCHANGED <<enrolment, files, result, enrolTask>>
    <3> DEFINE r == [executor[e] EXCEPT !.at = "install"]
    <3>1. r \in ExecutorRecords /\ r.at = "install" /\ executor' = [executor EXCEPT ![e] = r]
      BY <1>0, <2>2, Zenon DEF Works, ExecutorRecords, Busy
    <3>2. SameCluster
      BY <2>2, Zenon DEF SameCluster
    <3>3. Leased' => "kubeconfig" \in files
      BY <2>1, <2>2, Zenon DEF Leased, InstallHasCredential, Elsewhere
    <3>4. enrolTask.status \notin {"none", "queued"} /\ ~(enrolment.helm /\ ~jobMade)
      BY <1>1, <2>1, Zenon DEF Busy
    <3> HIDE DEF r
    <3> QED  BY <1>0, <2>1, <2>2, <3>1, <3>2, <3>3, <3>4, ExecutorKeeps, Zenon DEF Busy
  <2>3. CASE Spends("faults") /\ FailRun(e)
    BY <1>3, <2>1, <2>3, SpendKeeps, Zenon DEF Busy
  <2> QED  BY <1>5, <2>2, <2>3, Zenon DEF downloadInstaller
<1>6. CASE ObserveStage(e)
  <2>1. /\ SameCluster /\ Elsewhere /\ executor[e].at = "install" /\ UNCHANGED <<files, result, executor>>
        /\ UpdateTaskStatus("running") /\ enrolTask.status = "canceling"
    BY <1>6, Zenon DEF ObserveStage, SameCluster
  <2>2. executor' = [executor EXCEPT ![e] = executor[e]]
    BY <1>0, <2>1, Zenon
  <2>3. "running" \in Enrolling \cup Ended /\ "canceling" \notin Ended /\ "canceling" \in Enrolling /\ executor[e].at \in Busy
    BY <2>1, Zenon DEF Enrolling, Ended, Busy
  <2>4. /\ enrolTask' \in TaskRecords /\ enrolTask'.context = enrolTask.context /\ enrolTask'.expires = enrolTask.expires
        /\ enrolTask'.status = "running"
    BY <2>1, <2>3, UpdateKeeps, Zenon
  <2>5. Leased' => "kubeconfig" \in files
    BY <2>1, <2>3, <2>4, Zenon DEF Leased, InstallHasCredential, Elsewhere
  <2> HIDE DEF EnrolInv
  <2> DEFINE r == executor[e]
  <2>6. r = executor[e]
    OBVIOUS
  <2> HIDE DEF r
  <2> QED  BY <1>0, <1>1, <2>1, <2>2, <2>3, <2>4, <2>5, <2>6, ExecutorKeeps, Zenon
<1>7. CASE runInstallProcess(e)
  <2>1. executor[e].at = "install" /\ RemoveAll /\ UNCHANGED <<enrolTask, enrolment>> /\ Elsewhere
    BY <1>7, Zenon DEF runInstallProcess
  <2>2. PICK end \in Ended : executor' = [executor EXCEPT ![e] = [at |-> "settle", end |-> end]]
    BY <1>7, Zenon DEF runInstallProcess, Ended
  <2> DEFINE r == [at |-> "settle", end |-> end]
  <2>3. r \in ExecutorRecords /\ r.at = "settle" /\ r.end \in Ended
    BY Zenon DEF ExecutorRecords, Busy
  <2>4. SameCluster
    BY <2>1, Zenon DEF SameCluster
  <2>5. enrolTask.status \notin {"none", "queued"} /\ ~(enrolment.helm /\ ~jobMade) /\ executor[e].at \in Busy
    BY <1>1, <2>1, Zenon DEF Busy
  <2> HIDE DEF r
  <2>6. executor' = [executor EXCEPT ![e] = r]
    BY <2>2, Zenon DEF r
  <2> QED  BY <1>0, <2>1, <2>3, <2>4, <2>5, <2>6, ExecutorKeeps, Zenon
<1>8. CASE SettleRun(e)
  <2>1. /\ SameCluster /\ Elsewhere /\ executor[e].at = "settle" /\ UNCHANGED <<files, result>>
        /\ UpdateTaskStatus(executor[e].end) /\ executor' = [executor EXCEPT ![e] = Rested]
    BY <1>8, Zenon DEF SettleRun, SameCluster
  <2>2. executor[e].end \in Ended /\ executor[e].at \in Busy
    BY <2>1, Zenon DEF TaskInv, Busy
  <2>3. Enrolling \cap Ended = {} /\ "queued" \notin Ended
    BY Zenon DEF Enrolling, Ended
  <2>4. /\ enrolTask' \in TaskRecords /\ enrolTask'.context = enrolTask.context /\ enrolTask'.expires = enrolTask.expires
        /\ enrolTask'.status # "none" /\ enrolTask'.status \in Ended
    BY <1>1, <2>1, <2>2, UpdateKeeps, Zenon
  <2> QED  BY <1>1, <2>1, <2>2, <2>3, <2>4, ExecutorKeeps, EnrolTypesAre, Zenon
<1>9. CASE ExecutorDies(e)
  <2>1. /\ SameCluster /\ Elsewhere /\ executor[e].at \in Busy /\ UNCHANGED <<files, result, enrolTask>>
        /\ executor' = [executor EXCEPT ![e] = Rested]
    BY <1>9, SpendKeeps, Zenon DEF ExecutorDies
  <2> QED  BY <1>0, <1>1, <2>1, ExecutorKeeps, EnrolTypesAre, Zenon
<1> QED  BY <1>2, <1>4, <1>5, <1>6, <1>7, <1>8, <1>9, Zenon DEF RunRegistration
-----------------------------------------------------------------------------
LEMMA StartKeeps ==
  ASSUME EnrolInv, NEW c \in Contexts, startCCEDirectRegistration(c)
  PROVE  EnrolInv'
<1> USE DEF EnrolInv
<1>1. SameCluster
  BY SpendKeeps, Zenon DEF startCCEDirectRegistration
<1>2. now + TaskLease \in Times
  BY EnrolmentAssumption DEF EnrolTypeOK, Times
<1>3. /\ upload' \in Uploads /\ upload'.known /\ upload.known /\ upload'.expires = now + TaskLease
      /\ upload'.inspected = upload.inspected /\ c \in upload.inspected /\ Known
  BY <1>2, Zenon DEF startCCEDirectRegistration, Allowed, Known, EnrolTypeOK, Uploads
<1>4. timers' \subseteq Times
  BY <1>2, Zenon DEF startCCEDirectRegistration, EnrolTypeOK
<1>5. /\ UNCHANGED <<now, result, probe, probeJob, jobMade, executor, cancel, sweep, stale, startLost>>
      /\ enrolTask.status = "none" /\ starting = "idle"
  BY Zenon DEF startCCEDirectRegistration
<1>6. "kubeconfig" \in files
  BY <1>3, <1>5, Zenon DEF SessionInv
<1>7. \A e \in Executors : executor'[e].at \notin Busy /\ executor'[e].at = "idle"
  <2>1. \A e \in Executors : executor[e] \in ExecutorRecords /\ executor[e].at \notin Busy
    BY <1>5, Zenon DEF TaskInv, EnrolTypeOK, ExecutorRecords
  <2> QED  BY <1>5, <2>1, Zenon DEF ExecutorRecords
<1>8. \/ /\ enrolTask' = [status |-> "queued", context |-> c, expires |-> now + TaskLease]
         /\ starting' = (IF enrolment.helm THEN "job" ELSE "idle") /\ files' = files \cup {"request"}
      \/ UNCHANGED <<starting, files, enrolTask>>
  BY Zenon DEF startCCEDirectRegistration
<1>9. EnrolTypeOK'
  <2>1. enrolTask' \in TaskRecords
    BY <1>2, <1>8 DEF EnrolTypeOK, TaskRecords, Enrolling
  <2>2. starting' \in {"idle", "job", "failing"} /\ files' \subseteq {"kubeconfig", "request"}
    BY <1>8, Zenon DEF EnrolTypeOK
  <2> QED  BY <1>3, <1>4, <1>5, <2>1, <2>2 DEF EnrolTypeOK, Uploads, TaskRecords
<1>10. SessionInv'
  BY <1>3, <1>5, <1>6, <1>8 DEF SessionInv
<1>11. ProbeInv'
  BY <1>1, <1>3, <1>5, ResultsStand, Zenon
<1>12. TaskInv'
  BY <1>5, <1>7, <1>8 DEF TaskInv, Busy
<1>13. JobInv' /\ SweepInv'
  BY <1>1, <1>3, <1>5, <1>7, <1>8, Zenon DEF JobInv, SweepInv, SameCluster
<1>14. InstallHasCredential' /\ OneInstaller'
  BY <1>7, Zenon DEF InstallHasCredential, OneInstaller
<1>15. OnlyInspected'
  BY <1>1, <1>3, <1>5, <1>8, InspectionStands DEF OnlyInspected, ProbeInv
<1> QED  BY <1>1, <1>9, <1>10, <1>11, <1>12, <1>13, <1>14, <1>15, Zenon DEF SameCluster

LEMMA UploadKeeps ==
  ASSUME EnrolInv, uploadCCEKubeconfig
  PROVE  EnrolInv'
<1> USE DEF EnrolInv
<1>1. SameCluster
  BY Zenon DEF uploadCCEKubeconfig, SameCluster
<1>2. UploadTTL \in Times
  BY EnrolmentAssumption DEF Times
<1>3. upload' \in Uploads /\ upload'.inspected = {} /\ timers' \subseteq Times /\ files' = {"kubeconfig"}
  BY <1>2, Zenon DEF uploadCCEKubeconfig, Uploads
<1>4. /\ UNCHANGED <<now, result, probe, probeJob, enrolTask, starting, jobMade, executor, cancel, sweep, stale, startLost>>
      /\ enrolTask.status = "none" /\ result = NoResult
  BY Zenon DEF uploadCCEKubeconfig, SessionInv
<1>5. EnrolTypeOK'
  BY <1>3, <1>4 DEF EnrolTypeOK, Uploads
<1>6. SessionInv'
  BY <1>3, <1>4, Zenon DEF SessionInv
<1>7. ProbeInv'
  BY <1>3, <1>4, EnrolTypesAre, Zenon DEF ProbeInv
<1>8. TaskInv' /\ JobInv' /\ InstallHasCredential' /\ OneInstaller'
  BY <1>1, <1>3, <1>4, Zenon DEF TaskInv, JobInv, InstallHasCredential, OneInstaller, SameCluster
<1>9. SweepInv' /\ OnlyInspected'
  BY <1>4, Zenon DEF SweepInv, OnlyInspected, Leased, Enrolling
<1> QED  BY <1>1, <1>5, <1>6, <1>7, <1>8, <1>9, Zenon DEF SameCluster

LEMMA JobKeeps ==
  ASSUME EnrolInv, createIsolatedRegistrationJob
  PROVE  EnrolInv'
<1> USE DEF EnrolInv
<1>1. SameCluster
  <2>1. CASE UNCHANGED enrolment
    BY <2>1, Zenon DEF SameCluster
  <2>2. CASE Spends("faults")
    BY <2>2, SpendKeeps, Zenon
  <2> QED  BY <2>1, <2>2, Zenon DEF createIsolatedRegistrationJob
<1>2. /\ UNCHANGED <<now, timers, probe, probeJob, enrolTask, executor, cancel, sweep, stale>>
      /\ starting = "job" /\ enrolment.helm /\ ~jobMade /\ enrolTask.status # "none"
  BY Zenon DEF createIsolatedRegistrationJob, JobInv, TaskInv
<1>3. \A e \in Executors : executor'[e].at = "idle"
  BY <1>2, Zenon DEF JobInv
<1>4. \/ starting' = "idle" /\ jobMade' = TRUE /\ UNCHANGED <<upload, files, result, startLost>>
      \/ starting' = "failing" /\ jobMade' \in BOOLEAN /\ startLost' = jobMade' /\ RemoveAll /\ upload' = NoUpload
  BY Zenon DEF createIsolatedRegistrationJob
<1>5. EnrolTypeOK'
  <2>1. upload' \in Uploads /\ result' \in Results /\ files' \subseteq {"kubeconfig", "request"}
    BY <1>4, EnrolTypesAre, Zenon DEF EnrolTypeOK, Uploads, Results, RemoveAll
  <2>2. startLost' \in BOOLEAN /\ jobMade' \in BOOLEAN /\ starting' \in {"idle", "job", "failing"}
    BY <1>4, Zenon DEF EnrolTypeOK
  <2> QED  BY <1>2, <2>1, <2>2, Zenon DEF EnrolTypeOK, Uploads, Results
<1>6. SessionInv'
  BY <1>2, <1>4, EnrolTypesAre, Zenon DEF SessionInv, RemoveAll
<1>7. ProbeInv'
  BY <1>1, <1>2, <1>4, ResultsStand, EnrolTypesAre, Zenon DEF RemoveAll
<1>8. TaskInv' /\ InstallHasCredential' /\ OneInstaller'
  BY <1>2, <1>3, Zenon DEF TaskInv, InstallHasCredential, OneInstaller, Busy
<1>9. JobInv'
  BY <1>1, <1>2, <1>3, <1>4, Zenon DEF JobInv, SameCluster
<1>10. SweepInv'
  BY <1>1, <1>2, <1>4, Zenon DEF SweepInv, Leased, SameCluster
<1>11. OnlyInspected'
  BY <1>1, <1>2, InspectionStands, Zenon DEF OnlyInspected
<1> QED  BY <1>1, <1>5, <1>6, <1>7, <1>8, <1>9, <1>10, <1>11, Zenon DEF SameCluster

ApiSteps ==
  \/ FailStart \/ BeginCancel \/ cancelTask \/ deleteCCEKubeconfig \/ (\E t \in timers : expireCCEKubeconfig(t))
  \/ Janitor \/ RestartAPI \/ TimePasses

LEMMA ApiStepsKeep ==
  ASSUME EnrolInv, ApiSteps
  PROVE  EnrolInv'
<1> USE DEF EnrolInv
<1>0. /\ enrolTask \in TaskRecords /\ now \in 0..LastTime /\ now <= now /\ timers \subseteq Times
      /\ cancel \in Enrolling \cup {"idle"} /\ sweep \in {"idle", "spare", "sweep"}
      /\ (cancel # "idle" => enrolTask.status # "none")
      /\ Enrolling \cap Ended = {} /\ "queued" \notin Ended /\ "none" \notin Enrolling /\ "idle" \notin Enrolling
  BY EnrolmentAssumption DEF EnrolTypeOK, TaskRecords, TaskInv, Enrolling, Ended
<1>1. CASE FailStart
  <2>1. /\ SameCluster /\ starting' = "idle" /\ UpdateTaskStatus("failed") /\ "failed" \in Ended /\ enrolTask.status # "none"
        /\ UNCHANGED <<now, upload, timers, files, result, probe, probeJob, jobMade, executor, cancel, sweep, stale, startLost>>
    BY <1>1, Zenon DEF FailStart, SameCluster, TaskInv, Ended
  <2>2. /\ enrolTask' \in TaskRecords /\ enrolTask'.context = enrolTask.context /\ enrolTask'.expires = enrolTask.expires
        /\ enrolTask'.status # "none" /\ enrolTask'.status \in Ended
    BY <2>1, UpdateKeeps, Zenon
  <2>3. ~Leased'
    BY <1>0, <2>2, Zenon DEF Leased
  <2> QED  BY <1>0, <2>1, <2>2, <2>3, ApiKeeps, Zenon
<1>2. CASE BeginCancel
  <2>1. /\ SameCluster /\ cancel' \in Enrolling /\ enrolTask.status # "none"
        /\ UNCHANGED <<now, upload, timers, files, result, probe, probeJob, enrolTask, starting, jobMade, executor, sweep,
                       stale, startLost>>
    BY <1>2, SpendKeeps, Zenon DEF BeginCancel, Enrolling
  <2> QED  BY <1>0, <2>1, ApiKeeps, Zenon
<1>3. CASE cancelTask
  <2>1. /\ SameCluster /\ cancel' = "idle" /\ enrolTask.status # "none"
        /\ UNCHANGED <<now, timers, probe, probeJob, starting, jobMade, executor, sweep, stale, startLost>>
    BY <1>0, <1>3, Zenon DEF cancelTask, SameCluster
  <2>2. CASE cancel = "queued"
    <3>1. /\ UpdateTaskStatus("canceled") /\ "canceled" \in Ended /\ upload' = NoUpload
          /\ UNCHANGED <<files, result>> \/ RemoveAll
      BY <1>3, <2>2, Zenon DEF cancelTask, Ended
    <3>2. /\ enrolTask' \in TaskRecords /\ enrolTask'.context = enrolTask.context /\ enrolTask'.expires = enrolTask.expires
          /\ enrolTask'.status # "none" /\ enrolTask'.status \in Ended
      BY <2>1, <3>1, UpdateKeeps, Zenon
    <3>3. ~Leased'
      BY <1>0, <3>2, Zenon DEF Leased
    <3> QED  BY <1>0, <2>1, <3>1, <3>2, <3>3, ApiKeeps, Zenon
  <2>3. CASE cancel # "queued"
    <3>1. UpdateTaskStatus("canceling") /\ "canceling" \in Enrolling /\ UNCHANGED <<upload, files, result>>
      BY <1>3, <2>3, Zenon DEF cancelTask, Enrolling
    <3>2. /\ enrolTask' \in TaskRecords /\ enrolTask'.context = enrolTask.context /\ enrolTask'.expires = enrolTask.expires
          /\ enrolTask'.status # "none"
          /\ enrolTask'.status = IF enrolTask.status \in Ended THEN enrolTask.status ELSE "canceling"
      BY <2>1, <3>1, UpdateKeeps, Zenon
    <3>3. enrolTask'.status \in Enrolling => enrolTask.status \in Enrolling
      BY <1>0, <2>1, <3>2, Zenon DEF TaskRecords
    <3> QED  BY <1>0, <2>1, <3>1, <3>2, <3>3, ApiKeeps, Zenon
  <2> QED  BY <2>2, <2>3, Zenon
<1>4. CASE deleteCCEKubeconfig
  <2>1. /\ SameCluster /\ enrolTask.status \notin Enrolling /\ upload' = NoUpload /\ RemoveAll
        /\ UNCHANGED <<now, timers, probe, probeJob, enrolTask, starting, jobMade, executor, cancel, sweep, stale, startLost>>
    BY <1>4, SpendKeeps, Zenon DEF deleteCCEKubeconfig
  <2>2. ~Leased' /\ ~Known'
    BY <2>1, EnrolTypesAre, Zenon DEF Leased, Known
  <2> QED  BY <1>0, <2>1, <2>2, ApiKeeps, Zenon
<1>5. ASSUME NEW t \in timers, expireCCEKubeconfig(t) PROVE EnrolInv'
  <2>1. /\ SameCluster /\ timers' \subseteq Times
        /\ UNCHANGED <<now, probe, probeJob, enrolTask, starting, jobMade, executor, cancel, sweep, stale, startLost>>
    BY <1>0, <1>5, Zenon DEF expireCCEKubeconfig, SameCluster
  <2>2. CASE upload.known /\ upload.expires <= now
    <3>1. upload' = NoUpload /\ RemoveAll /\ ~Known'
      BY <1>5, <2>2, EnrolTypesAre, Zenon DEF expireCCEKubeconfig, Known
    <3>2. ~Leased'
      <4>1. enrolTask.status \in Enrolling => enrolTask.expires <= now
        BY <1>0, <2>2, Zenon DEF SessionInv
      <4>2. now \in Int /\ enrolTask.expires \in Int
        BY <1>0, EnrolmentAssumption DEF TaskRecords, Times
      <4> QED  BY <2>1, <4>1, <4>2 DEF Leased
    <3> QED  BY <1>0, <2>1, <3>1, <3>2, ApiKeeps, Zenon
  <2>3. CASE ~(upload.known /\ upload.expires <= now)
    <3>1. UNCHANGED <<upload, files, result>>
      BY <1>5, <2>3, Zenon DEF expireCCEKubeconfig
    <3> QED  BY <1>0, <2>1, <3>1, ApiKeeps, Zenon
  <2> QED  BY <2>2, <2>3, Zenon
<1>6. CASE ListRegistrationTasks
  <2>1. /\ SameCluster /\ sweep' \in {"idle", "spare", "sweep"}
        /\ UNCHANGED <<now, upload, timers, files, result, probe, probeJob, starting, jobMade, executor, cancel, stale, startLost>>
    BY <1>6, Zenon DEF ListRegistrationTasks, SameCluster
  <2>2. CASE enrolTask.status \in Enrolling /\ ~(now < enrolTask.expires)
    <3>1. UpdateTaskStatus("failed") /\ "failed" \in Ended /\ enrolTask.status # "none"
      BY <1>0, <1>6, <2>2, Zenon DEF ListRegistrationTasks, FailExpired, Ended
    <3>2. /\ enrolTask' \in TaskRecords /\ enrolTask'.context = enrolTask.context /\ enrolTask'.expires = enrolTask.expires
          /\ enrolTask'.status # "none" /\ enrolTask'.status \in Ended
      BY <3>1, UpdateKeeps, Zenon
    <3>3. ~Leased'
      BY <1>0, <3>2, Zenon DEF Leased
    <3> QED  BY <1>0, <2>1, <3>1, <3>2, <3>3, ApiKeeps, Zenon
  <2>3. CASE enrolTask.status \in Enrolling /\ now < enrolTask.expires
    <3>1. UNCHANGED enrolTask /\ sweep' # "sweep"
      BY <1>6, <2>3, Zenon DEF ListRegistrationTasks
    <3> QED  BY <1>0, <2>1, <3>1, ApiKeeps, Zenon
  <2>4. CASE enrolTask.status \notin Enrolling
    <3>1. UNCHANGED enrolTask /\ ~Leased'
      BY <1>6, <2>4, Zenon DEF ListRegistrationTasks, Leased
    <3> QED  BY <1>0, <2>1, <3>1, ApiKeeps, Zenon
  <2> QED  BY <2>2, <2>3, <2>4, Zenon
<1>7. CASE cleanupOrphanedCCEKubeconfigs
  <2>1. /\ SameCluster /\ sweep' = "idle"
        /\ UNCHANGED <<now, upload, timers, probe, probeJob, enrolTask, starting, jobMade, executor, cancel, stale, startLost>>
    BY <1>7, Zenon DEF cleanupOrphanedCCEKubeconfigs, SameCluster
  <2>2. CASE sweep = "sweep" /\ Orphaned
    <3>1. RemoveAll
      BY <1>7, <2>2, Zenon DEF cleanupOrphanedCCEKubeconfigs
    <3>2. ~Known'
      BY <2>1, <2>2, Zenon DEF Orphaned, Known
    <3>3. Leased' => Leased
      BY <2>1, Zenon DEF Leased
    <3>4. Leased => ~upload.known
      BY <1>0, <2>2, Zenon DEF Orphaned, Leased, SessionInv
    <3>5. \A e \in Executors : executor[e].at \in {"preflight", "install"} => ~Leased'
      BY <2>2, <3>3, <3>4, Zenon DEF SweepInv, JobInv
    <3> QED  BY <1>0, <2>1, <3>1, <3>2, <3>5, ApiKeeps, Zenon
  <2>3. CASE ~(sweep = "sweep" /\ Orphaned)
    <3>1. UNCHANGED <<files, result>>
      BY <1>7, <2>3, Zenon DEF cleanupOrphanedCCEKubeconfigs
    <3> QED  BY <1>0, <2>1, <3>1, ApiKeeps, Zenon
  <2> QED  BY <2>2, <2>3, Zenon
<1>8. CASE RestartAPI
  <2>1. /\ SameCluster /\ upload' = NoUpload /\ timers' = {} /\ probe' = "idle" /\ starting' = "idle"
        /\ cancel' = "idle" /\ sweep' = "idle"
        /\ UNCHANGED <<now, files, result, probeJob, enrolTask, jobMade, executor, stale, startLost>>
    BY <1>8, SpendKeeps, Zenon DEF RestartAPI
  <2> QED  BY <1>0, <2>1, ApiKeeps, Zenon
<1>9. CASE TimePasses
  <2>1. /\ SameCluster /\ now' = now + 1 /\ now < LastTime
        /\ UNCHANGED <<upload, timers, files, result, probe, probeJob, enrolTask, starting, jobMade, executor, cancel, sweep,
                       stale, startLost>>
    BY <1>9, Zenon DEF TimePasses, SameCluster
  <2>2. now' \in 0..LastTime /\ now <= now'
    BY <1>0, <2>1, EnrolmentAssumption
  <2> QED  BY <1>0, <2>1, <2>2, ApiKeeps, Zenon
<1> QED  BY <1>1, <1>2, <1>3, <1>4, <1>5, <1>6, <1>7, <1>8, <1>9, Zenon DEF ApiSteps, Janitor

LEMMA EnrolKeeps == EnrolInv /\ [EnrolNext]_enrolVars => EnrolInv'
<1> SUFFICES ASSUME EnrolInv, [EnrolNext]_enrolVars PROVE EnrolInv'
  OBVIOUS
<1>1. CASE UNCHANGED enrolVars
  <2>1. /\ EnrolTypeOK' /\ SessionInv' /\ ProbeInv' /\ TaskInv' /\ JobInv' /\ SweepInv'
    BY <1>1 DEF EnrolInv, enrolVars, EnrolTypeOK, SessionInv, ProbeInv, TaskInv, JobInv, SweepInv, Known, Leased, inspectCluster
  <2>2. /\ InstallHasCredential' /\ OneInstaller' /\ OnlyInspected' /\ enrolment' \in Histories
    BY <1>1, Zenon DEF EnrolInv, enrolVars, InstallHasCredential, OneInstaller, OnlyInspected, inspectCluster
  <2> QED  BY <2>1, <2>2, Zenon DEF EnrolInv
<1>2. CASE EnrolNext
  <2>1. \/ Inspection \/ (\E c \in Contexts : Inspects(c)) \/ (\E c \in Contexts : startCCEDirectRegistration(c))
        \/ uploadCCEKubeconfig \/ createIsolatedRegistrationJob \/ ApiSteps
        \/ (\E e \in Executors : RunRegistration(e) \/ ObserveStage(e) \/ ExecutorDies(e))
    BY <1>2, Zenon DEF EnrolNext, Inspection, Inspects, ApiSteps
  <2> QED  BY <2>1, InspectionsKeep, StartKeeps, UploadKeeps, JobKeeps, ApiStepsKeep, ExecutorsKeep, Zenon
<1> QED  BY <1>1, <1>2, Zenon

\* An installer has its credential while the lease of its task runs, one executor installs,
\* and what is installed was inspected: for every number of executors, every kubeconfig and
\* every time to live, through restarts of the API, deaths of executors, cancellations,
\* deletions, timers and passes of the janitor.
THEOREM EnrolmentIsSafe == EnrolSpec => []EnrolmentSafety
<1>1. EnrolSpec => []EnrolInv
  BY EnrolStarts, EnrolKeeps, PTL DEF EnrolSpec
<1> QED  BY <1>1, EnrolInvSuffices, PTL

=============================================================================
