---------------------------- MODULE AgentUninstall ----------------------------
(***************************************************************************)
(* The uninstaller of the agent.  Velero's resources, its cluster RBAC and *)
(* its CRDs go first, the agent itself last, so that what failed can be    *)
(* tried again.  Another installation of Velero may share the CRDs.        *)
(***************************************************************************)
EXTENDS Integers, Sequences, Functions

CONSTANT Uninstalls   \* the histories to look at

\* Options of the command, the calls that may fail, retries, resources whose finalizer
\* nobody removes, what another namespace has or gets of Velero, and the kind of cluster.
Others == {"none", "deployment", "daemonset", "resource"}
ASSUME UninstallAssumption ==
  Uninstalls \subseteq [deleteVelero : BOOLEAN, deleteNamespace : BOOLEAN, faults : Nat, retries : Nat,
                        stuck : BOOLEAN, other : Others, arrives : BOOLEAN, openshift : BOOLEAN]

VARIABLES
  removal,    \* the options, and what is left of the bounds
  at,         \* the phase of Uninstall
  errs,       \* has a call before self-removal failed?
  left,       \* what is left in the cluster
  foreign,    \* what another installation has of Velero
  sharing,    \* did hasVeleroResourcesOutsideNamespace find it?
  late        \* another installation came after that look (not in the code)

uninVars == <<removal, at, errs, left, foreign, sharing, late>>

Parts == {"resources", "veleroWorkload", "veleroRBAC", "crds", "catalog", "namespace", "agent", "agentRole", "agentBinding"}
Phases == <<"resources", "finalizers", "workloads", "velero rbac", "look", "crds", "decide", "catalog", "self", "rbac">>

UninstallTypeOK ==
  /\ at \in Range(Phases) \cup {"idle", "failed", "completed"} /\ errs \in BOOLEAN
  /\ left \subseteq Parts /\ foreign \in Others /\ sharing \in BOOLEAN /\ late \in BOOLEAN

UninstallInit ==
  /\ removal \in Uninstalls
  /\ at = "resources" /\ errs = FALSE
  /\ left = Parts \ IF removal.openshift THEN {} ELSE {"catalog"}
  /\ foreign = removal.other
  /\ sharing = FALSE /\ late = FALSE

NextPhase(p) == Phases[(CHOOSE i \in 1..Len(Phases) : Phases[i] = p) + 1]
Enter(p) == at' = p
Faulty == removal.faults > 0 /\ removal' = [removal EXCEPT !.faults = @ - 1]

\* A phase before self-removal: its error is remembered and the next phase follows.
Phase(p, skipped, gone) ==
  /\ at = p /\ Enter(NextPhase(p))
  /\ \/ skipped /\ UNCHANGED <<removal, left, errs>>
     \/ ~skipped /\ UNCHANGED <<removal, errs>> /\ left' = left \ gone
     \/ ~skipped /\ Faulty /\ errs' = TRUE /\ \E some \in SUBSET gone : left' = left \ some
  /\ UNCHANGED <<foreign, sharing, late>>

\* Every resource is asked to go; the controller has twenty seconds for its finalizers.
deleteVeleroNamespacedResources ==
  Phase("resources", ~removal.deleteVelero, IF removal.stuck THEN {} ELSE {"resources"})
\* The finalizers that are left are taken away.
removeStaleFinalizers_Bug == Phase("finalizers", TRUE, {"resources"})
removeStaleFinalizers == Phase("finalizers", ~removal.deleteVelero \/ "resources" \notin left, {"resources"})
\* Without the namespace its contents are deleted one by one, the agent's Deployment last.
deleteNamespacedAgentResources ==
  Phase("workloads", removal.deleteNamespace,
        {"agent"} \cup IF removal.deleteVelero THEN {"veleroWorkload"} ELSE {})
deleteExternalRBAC == Phase("velero rbac", ~removal.deleteVelero, {"veleroRBAC"})

\* Deployments, DaemonSets and resources of Velero in other namespaces.
hasVeleroResourcesOutsideNamespace_Bug == foreign \in {"deployment", "resource"}
hasVeleroResourcesOutsideNamespace == foreign # "none"
LookForOthers ==
  /\ at = "look"
  /\ IF ~removal.deleteVelero THEN Enter("decide") /\ UNCHANGED <<removal, errs, sharing>>
     ELSE \/ /\ sharing' = hasVeleroResourcesOutsideNamespace
             /\ Enter(IF sharing' THEN "decide" ELSE "crds") /\ UNCHANGED <<removal, errs>>
          \/ Faulty /\ errs' = TRUE /\ Enter("decide") /\ UNCHANGED sharing
  /\ UNCHANGED <<left, foreign, late>>
deleteVeleroCRDs == Phase("crds", FALSE, {"crds"})

\* Any error so far keeps the agent.
Decide_Bug ==
  at = "decide" /\ Enter("catalog") /\ UNCHANGED <<removal, errs, left, foreign, sharing, late>>
Decide ==
  at = "decide" /\ Enter(IF errs THEN "failed" ELSE "catalog") /\ UNCHANGED <<removal, errs, left, foreign, sharing, late>>

\* The catalog of an OpenShift cluster lies outside the namespace; an error ends the run.
deleteCatalogSource ==
  /\ at = "catalog"
  /\ \/ left' = left \ {"catalog"} /\ Enter("self") /\ UNCHANGED removal
     \/ removal.openshift /\ Faulty /\ Enter("failed") /\ UNCHANGED left
  /\ UNCHANGED <<errs, foreign, sharing, late>>

\* The namespace with all that is in it, but for what has a finalizer left, then the agent's
\* own authorization: its binding is owned by the role, so that deleting the role removes both.
deleteNamespaceLast ==
  /\ at = "self" /\ Enter("rbac")
  /\ \/ ~removal.deleteNamespace /\ UNCHANGED <<removal, errs, left>>
     \/ /\ removal.deleteNamespace /\ UNCHANGED <<removal, errs>>
        /\ left' = left \ ({"agent", "veleroWorkload"} \cup IF removal.stuck /\ "resources" \in left
                                                            THEN {} ELSE {"namespace", "resources"})
     \/ removal.deleteNamespace /\ Faulty /\ errs' = TRUE /\ UNCHANGED left
  /\ UNCHANGED <<foreign, sharing, late>>
deleteAgentClusterRBACWithOwnerCascade ==
  /\ at = "rbac"
  /\ \/ UNCHANGED removal /\ left' = left \ {"agentRole", "agentBinding"} /\ Enter(IF errs THEN "failed" ELSE "completed")
     \/ Faulty /\ UNCHANGED left /\ Enter("failed")
  /\ UNCHANGED <<errs, foreign, sharing, late>>

Uninstall ==
  \/ deleteVeleroNamespacedResources \/ removeStaleFinalizers \/ deleteNamespacedAgentResources
  \/ deleteExternalRBAC \/ LookForOthers \/ deleteVeleroCRDs \/ Decide \/ deleteCatalogSource
  \/ deleteNamespaceLast \/ deleteAgentClusterRBACWithOwnerCascade

\* The platform sends the command again, to an agent that is still there.
Retry ==
  /\ at = "failed" /\ "agent" \in left /\ removal.retries > 0
  /\ removal' = [removal EXCEPT !.retries = @ - 1] /\ Enter("resources") /\ errs' = FALSE
  /\ UNCHANGED <<left, foreign, sharing, late>>

Arrive ==
  /\ removal.arrives /\ foreign = "none"
  /\ removal' = [removal EXCEPT !.arrives = FALSE]
  /\ foreign' = "deployment" /\ late' = (at = "crds")
  /\ UNCHANGED <<at, errs, left, sharing>>

UninstallNext == Uninstall \/ Retry \/ Arrive
UninstallFairness == WF_uninVars(Uninstall) /\ WF_uninVars(Retry)
UninstallSpec == UninstallInit /\ [][UninstallNext]_uninVars /\ UninstallFairness

-----------------------------------------------------------------------------
(* Properties *)

\* While something of Velero that is to go is left, so are the agent and its authorization,
\* "so a retry can finish the job", when the namespace is to be deleted: whichever phase
\* failed, and after retries too.
VeleroLeft ==
  "catalog" \in left \/ (removal.deleteVelero /\ ("veleroRBAC" \in left \/ ("crds" \in left /\ ~sharing)))
FailedCanRetry == removal.deleteNamespace /\ VeleroLeft => {"agent", "agentRole", "agentBinding"} \subseteq left

\* CRDs that another namespace uses are not deleted, unless it began to after the look.
SharedCRDsStay == [][foreign # "none" /\ "crds" \in left /\ ~late => "crds" \in left']_uninVars

\* With retries left and no failure of its own removal, the uninstall completes and nothing
\* of Velero that is not shared remains.
UninstallCompletes ==
  (removal.deleteNamespace /\ removal.deleteVelero) ~>
    \/ at = "completed" /\ left \subseteq {"crds"} /\ ("crds" \in left => sharing)
    \/ at = "failed" /\ (removal.retries = 0 \/ "agent" \notin left)

\* A failed uninstallation can always be repeated by the agent it was to remove.
UninstallSafety == UninstallTypeOK /\ FailedCanRetry
=============================================================================
