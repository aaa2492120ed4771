----------------------------- MODULE MCClusters -----------------------------
(***************************************************************************)
(* The life of managed clusters on small instances: registration and       *)
(* connections, removal, and upgrades of the components.  The three parts  *)
(* share no state here; a behaviour is one of one part, and the others     *)
(* stay where they began.                                                  *)
(***************************************************************************)
EXTENDS ClusterRegistration, ClusterRemoval, ComponentUpgrade

VARIABLE part
clusterVars == <<part, regVars, remVars, upVars>>

\* One agent that restarts and reconnects; two agents of one tenant; two of two tenants.
MCAgents == {"a", "b"}
Same == [a \in MCAgents |-> "t"]
Other == [a \in MCAgents |-> a]
MCSeasons ==
  {[installed |-> {"a"}, tenant |-> Same, conns |-> 3, starts |-> 1, drops |-> 2, defaults |-> 0],
   [installed |-> MCAgents, tenant |-> Same, conns |-> 2, starts |-> 0, drops |-> 0, defaults |-> 1],
   [installed |-> MCAgents, tenant |-> Other, conns |-> 2, starts |-> 0, drops |-> 0, defaults |-> 1]}

\* A cluster with plans and data; one repository that cannot be used; nothing to clean; two
\* requests; a forced removal; a backup begun late; repositories without points.
MCRepos == {"r1", "r2"}
AnEstate == [plans |-> Plans, repos |-> MCRepos, foreign |-> {}, points |-> TRUE,
             requests |-> {"q1"}, restarts |-> 1, drops |-> 1, late |-> FALSE, force |-> FALSE]
MCEstates ==
  {AnEstate,
   [AnEstate EXCEPT !.foreign = {"r2"}],
   [AnEstate EXCEPT !.points = FALSE, !.repos = {}],
   [AnEstate EXCEPT !.requests = Requests, !.restarts = 0, !.drops = 0, !.repos = {"r1"}],
   [AnEstate EXCEPT !.requests = Requests, !.restarts = 0, !.drops = 0, !.force = TRUE, !.repos = {"r1"}],
   [AnEstate EXCEPT !.late = TRUE, !.restarts = 0, !.repos = {"r1"}],
   [AnEstate EXCEPT !.points = FALSE, !.plans = {"protects"}]}

\* The agent through drops and a restart; two requests at once; Velero with and without a
\* release tag; OADP; a repair of what is current.
ARollout == [kinds |-> {"agent"}, clerks |-> {"u1"}, from |-> 0, repair |-> FALSE, oadp |-> FALSE,
             tagged |-> FALSE, drops |-> 1, restarts |-> 1]
Calm == [ARollout EXCEPT !.drops = 0, !.restarts = 0]
MCNodes == {"n1", "n2"}
MCRollouts ==
  {ARollout,
   [Calm EXCEPT !.clerks = Clerks, !.repair = TRUE, !.from = 1],
   [Calm EXCEPT !.kinds = {"velero"}],
   [Calm EXCEPT !.kinds = {"velero"}, !.tagged = TRUE],
   [Calm EXCEPT !.kinds = {"velero"}, !.oadp = TRUE],
   [ARollout EXCEPT !.kinds = {"velero"}, !.repair = TRUE, !.from = 1]}

\* An arbitrary initial state of each part stands for a part that does not move.
Still == [reg |-> CHOOSE s \in MCSeasons : TRUE, rem |-> AnEstate, up |-> ARollout]

MCInit ==
  /\ part \in {"registration", "removal", "upgrade"}
  /\ RegistrationInit /\ RemovalInit /\ UpgradeInit
  /\ part # "registration" => budget = Still.reg
  /\ part # "removal" => estate = Still.rem
  /\ part # "upgrade" => rollout = Still.up

MCNext ==
  /\ UNCHANGED part
  /\ \/ part = "registration" /\ RegistrationNext /\ UNCHANGED <<remVars, upVars>>
     \/ part = "removal" /\ RemovalNext /\ UNCHANGED <<regVars, upVars>>
     \/ part = "upgrade" /\ UpgradeNext /\ UNCHANGED <<regVars, remVars>>

\* RegistrationFairness, RemovalFairness and UpgradeFairness, each for the part that moves.
MCFairness ==
  /\ \A k \in Conns : WF_regVars(part = "registration" /\ Serve(k))
  /\ \A x \in Removers : WF_remVars(part = "removal" /\ ThreadStep(x))
  /\ WF_remVars(part = "removal" /\ AgentStep) /\ WF_remVars(part = "removal" /\ Reconnect)
  /\ \A t \in UpgradeTasks : WF_upVars(part = "upgrade" /\ TimeOutUpgrade(t))

MCSpec == MCInit /\ [][MCNext]_clusterVars /\ MCFairness

\* What no step does: a spent token or a deleted row never comes back, and no relationship
\* goes before its data.
ClusterStepsAreSafe == SpentStaysSpent /\ RelationshipsOutliveData

\* The status of a cluster settles, a deleted one is disconnected, and its removal and the
\* upgrades of its components end.
ClusterWorkEnds == StatusSettles /\ DeletedIsDisconnected /\ UnregisterEnds /\ UpgradeEnds
=============================================================================
