------------------------- MODULE ComponentUpgrade -------------------------
(***************************************************************************)
(* Upgrading the agent or Velero in a managed cluster.  A request checks   *)
(* what the cluster reported last and what else is running, creates a task *)
(* and sends it; the agent changes the workloads and reports; Kubernetes   *)
(* rolls them out in its own time; and the task succeeds only when a       *)
(* heartbeat reports the target, or fails ten minutes later.               *)
(*                                                                         *)
(* Version 1 is the release's target.  The velero Deployment and the       *)
(* node-agent DaemonSet each have a declared version, the pods that run,   *)
(* and a status that lags behind the declaration.  Upgrading the agent     *)
(* ends the process that does it.                                          *)
(***************************************************************************)
EXTENDS Integers, Sequences, FiniteSets

\* A rollout is a cluster and the bounds of its history: what is upgraded or repaired by
\* how many requests, whether Velero comes from OADP, whether the tag of Velero's image is
\* the release's version, and how often the connection drops or the platform restarts.
CONSTANTS Rollouts, Nodes

Clerks == {"u1", "u2"}
Senders == Clerks \cup {"again"}     \* requests, and the redispatch after a reconnect
Target == 1
Down == -1                            \* a pod that is being replaced

ASSUME RolloutAssumption ==
  Rollouts \subseteq [kinds : SUBSET {"agent", "velero"}, clerks : SUBSET Clerks, from : 0..1,
                      repair : BOOLEAN, oadp : BOOLEAN, tagged : BOOLEAN, drops : Nat, restarts : Nat]

\* Every node runs one pod of the DaemonSet, and is told apart from the other workloads.
ASSUME NodesAssumption == Nodes # {} /\ Nodes \cap {"agent", "server"} = {}

VARIABLES
  rollout,   \* the scenario, and what is left of its bounds
  upgrades,  \* the upgrade tasks
  asking,    \* the threads of the platform that send them
  link,      \* the agent's connection, 0 while there is none, and how many there were
  inbox,     \* the commands the agent has received
  applying,  \* how far the agent is with each command
  declared,  \* the versions in the workloads' templates
  running,   \* the versions of the pods
  observed,  \* the workloads whose controller has looked at the newest template
  reported,  \* what the clusters row holds of the last heartbeats
  beat,      \* a heartbeat on its way
  ran        \* the workloads whose pods have run the target (not in the code)

upVars == <<rollout, upgrades, asking, link, inbox, applying, declared, running, observed,
            reported, beat, ran>>

UpgradeOver == {"succeeded", "failed"}
Resting == [at |-> "idle", task |-> 0, kind |-> "agent", conn |-> 0, todo |-> {}]
UpgradeTasks == 1..2
Versions == {Down, 0, 1}
Workloads == {"agent", "server", "nodes"}
Snapshots == [agent : Versions, image : Versions, digest : Versions, nodeDigest : Versions,
              serverReady : BOOLEAN, nodesReady : BOOLEAN]

UpgradeTypeOK ==
  /\ rollout \in [kinds : SUBSET {"agent", "velero"}, clerks : SUBSET Clerks, from : 0..1,
                  repair : BOOLEAN, oadp : BOOLEAN, tagged : BOOLEAN, drops : Nat, restarts : Nat]
  /\ \A t \in DOMAIN upgrades : upgrades[t] \in
       [kind : {"agent", "velero"}, st : {"queued", "dispatched", "running"} \cup UpgradeOver]
  /\ Len(upgrades) <= 2 /\ inbox \subseteq UpgradeTasks
  /\ asking \in [Senders -> [at : {"idle", "create", "send", "mark", "over"}, task : 0..2,
                              kind : {"agent", "velero"}, conn : Nat, todo : SUBSET UpgradeTasks]]
  /\ link \in [now : Nat, last : Nat]
  /\ applying \in [UpgradeTasks -> {"none", "accepted", "prepared", "server", "nodes", "waiting", "completed",
                                    "failed"}]
  /\ declared \in [Workloads -> Versions] /\ running \in [{"agent", "server"} \cup Nodes -> Versions]
  /\ observed \subseteq Workloads /\ reported \in Snapshots
  /\ beat \in [at : {"none", "sent", "agent", "velero"}, is : Snapshots]
  /\ ran \subseteq {"agent", "server"} \cup Nodes

\* The heartbeat: the agent's own pod, the image of the velero Deployment's template, what
\* its status says, and the digest its pods have in common (sendHeartbeat and
\* VeleroRuntimeStatus).  The status is the one of the last template that was observed.
ServerStatusReady == "server" \in observed => running["server"] = declared["server"]
NodesStatusReady  == \A n \in Nodes : running[n] # Down
CommonDigest(pods) == IF \E v \in {0, 1} : \A p \in pods : running[p] = v
                      THEN CHOOSE v \in {0, 1} : \A p \in pods : running[p] = v ELSE Down
PodImageStatus == running["agent"]
Snapshot == [agent |-> PodImageStatus, image |-> declared["server"],
             digest |-> CommonDigest({"server"}), nodeDigest |-> CommonDigest(Nodes),
             serverReady |-> ServerStatusReady, nodesReady |-> NodesStatusReady]

UpgradeInit ==
  /\ rollout \in Rollouts
  /\ upgrades = <<>> /\ asking = [x \in Senders |-> Resting] /\ link = [now |-> 1, last |-> 1]
  /\ inbox = {} /\ applying = [t \in UpgradeTasks |-> "none"]
  /\ declared = [w \in Workloads |-> rollout.from]
  /\ running = [p \in {"agent", "server"} \cup Nodes |-> rollout.from]
  /\ observed = Workloads /\ reported = Snapshot /\ beat = [at |-> "none", is |-> Snapshot]
  /\ ran = IF rollout.from = Target THEN {"agent", "server"} \cup Nodes ELSE {}

SetUpgrade(t, st) == [upgrades EXCEPT ![t].st = IF @ \in UpgradeOver THEN @ ELSE st]
UpgradeActive(t) == upgrades[t].st \notin UpgradeOver
cluster == <<declared, running, observed, ran>>

-----------------------------------------------------------------------------
(* Requests *)

\* agentUpgradeTargetMatches: the reported image and version, which the agent always has.
agentUpgradeTargetMatches(row) == row.agent = Target

\* Velero is verified by the template's image and its tag, or by the digests of the pods;
\* server and node agents must be ready.
veleroVerified_Bug(row) ==
  /\ (row.image = Target /\ rollout.tagged) \/ row.digest = Target
  /\ row.serverReady /\ row.nodesReady
veleroVerified(row) ==
  /\ (row.image = Target /\ rollout.tagged) \/ (row.digest = Target /\ row.nodeDigest = Target)
  /\ row.serverReady /\ row.nodesReady

\* What the three requests check before they create the task: a target that is current
\* already needs a repair, no upgrade is active, and the agent is connected.
Checked(q, kind, current) ==
  asking' = [asking EXCEPT ![q] =
    IF /\ rollout.repair \/ ~current
       /\ \A t \in DOMAIN upgrades : ~UpgradeActive(t)
       /\ link.now # 0
    THEN [Resting EXCEPT !.at = "create", !.kind = kind, !.conn = link.now]
    ELSE [Resting EXCEPT !.at = "over"]]

upgradeClusterAgent(q) ==
  /\ asking[q].at = "idle" /\ q \in rollout.clerks /\ "agent" \in rollout.kinds
  /\ Checked(q, "agent", agentUpgradeTargetMatches(reported))
  /\ UNCHANGED <<rollout, upgrades, link, inbox, applying, cluster, reported, beat>>

upgradeClusterVelero(q) ==
  /\ asking[q].at = "idle" /\ q \in rollout.clerks /\ "velero" \in rollout.kinds /\ ~rollout.oadp
  /\ Checked(q, "velero", veleroVerified(reported))
  /\ UNCHANGED <<rollout, upgrades, link, inbox, applying, cluster, reported, beat>>

upgradeOpenShiftOADP(q) ==
  /\ asking[q].at = "idle" /\ q \in rollout.clerks /\ "velero" \in rollout.kinds /\ rollout.oadp
  /\ Checked(q, "velero", veleroVerified(reported))
  /\ UNCHANGED <<rollout, upgrades, link, inbox, applying, cluster, reported, beat>>

CreateUpgrade(q) ==
  /\ asking[q].at = "create"
  /\ upgrades' = Append(upgrades, [kind |-> asking[q].kind, st |-> "queued"])
  /\ asking' = [asking EXCEPT ![q].at = "send", ![q].task = Len(upgrades) + 1]
  /\ UNCHANGED <<rollout, link, inbox, applying, cluster, reported, beat>>

\* dispatchComponentUpgrade and redispatchPendingTasks: the task is written to the
\* connection that was found before.  A write to a connection that has gone fails, or is
\* lost in the socket's buffer.
SendUpgrade(x) ==
  LET t == asking[x].task IN
  /\ asking[x].at = "send"
  /\ \/ /\ asking[x].conn = link.now
        /\ inbox' = inbox \cup {t} /\ asking' = [asking EXCEPT ![x].at = "mark"]
        /\ UNCHANGED upgrades
     \/ /\ asking[x].conn # link.now
        /\ \/ asking' = [asking EXCEPT ![x].at = "mark"] /\ UNCHANGED upgrades
           \/ /\ asking' = [asking EXCEPT ![x].at = "over"]
              /\ upgrades' = IF x = "again" THEN upgrades ELSE SetUpgrade(t, "queued")
        /\ UNCHANGED inbox
  /\ UNCHANGED <<rollout, link, applying, cluster, reported, beat>>

MarkUpgrade(x) ==
  /\ asking[x].at = "mark"
  /\ upgrades' = SetUpgrade(asking[x].task, "dispatched")
  /\ asking' = [asking EXCEPT ![x].at = "over"]
  /\ UNCHANGED <<rollout, link, inbox, applying, cluster, reported, beat>>

\* The next stored task of the redispatch.
ResendUpgrade(t) ==
  /\ asking["again"].at \in {"idle", "over"} /\ t \in asking["again"].todo
  /\ asking' = [asking EXCEPT !["again"].todo = @ \ {t}, !["again"].task = t, !["again"].at = "send"]
  /\ UNCHANGED <<rollout, upgrades, link, inbox, applying, cluster, reported, beat>>

-----------------------------------------------------------------------------
(* The agent *)

\* Accepted and reported, or dropped without a word when the connection has gone.
AcceptUpgrade(t) ==
  /\ t \in inbox /\ applying[t] = "none"
  /\ inbox' = inbox \ {t}
  /\ IF link.now # 0
     THEN applying' = [applying EXCEPT ![t] = "accepted"] /\ upgrades' = SetUpgrade(t, "running")
     ELSE UNCHANGED <<applying, upgrades>>
  /\ UNCHANGED <<rollout, asking, link, cluster, reported, beat>>

\* executeAgentUpgradeTask: a progress report that cannot be sent ends it; then the
\* Deployment is patched, or that fails.
PatchAgent(t) ==
  /\ applying[t] = "accepted" /\ upgrades[t].kind = "agent"
  /\ \/ /\ link.now = 0
        /\ applying' = [applying EXCEPT ![t] = "none"] /\ UNCHANGED <<declared, observed>>
     \/ /\ link.now # 0
        /\ applying' = [applying EXCEPT ![t] = "completed"]
        /\ declared' = [declared EXCEPT !["agent"] = Target] /\ observed' = observed \ {"agent"}
     \/ /\ link.now # 0
        /\ applying' = [applying EXCEPT ![t] = "failed"] /\ UNCHANGED <<declared, observed>>
  /\ UNCHANGED <<rollout, upgrades, asking, link, inbox, running, reported, beat, ran>>

\* executeVeleroUpgradeTask up to UpgradeVelero: the permissions are checked and the CRDs
\* applied; any of it may fail.
PrepareVelero(t) ==
  /\ applying[t] = "accepted" /\ upgrades[t].kind = "velero" /\ ~rollout.oadp
  /\ \E at \in {"prepared", "failed"} : applying' = [applying EXCEPT ![t] = at]
  /\ UNCHANGED <<rollout, upgrades, asking, link, inbox, cluster, reported, beat>>

\* UpgradeVelero: the configuration is written and the Deployment patched.
PatchServer(t) ==
  /\ applying[t] = "prepared"
  /\ \/ /\ applying' = [applying EXCEPT ![t] = "server"]
        /\ declared' = [declared EXCEPT !["server"] = Target] /\ observed' = observed \ {"server"}
     \/ applying' = [applying EXCEPT ![t] = "failed"] /\ UNCHANGED <<declared, observed>>
  /\ UNCHANGED <<rollout, upgrades, asking, link, inbox, running, reported, beat, ran>>

\* UpgradeOADP: the catalog and the subscription are changed, and the workloads left to the
\* operator.
SubscribeOADP(t) ==
  /\ applying[t] = "accepted" /\ upgrades[t].kind = "velero" /\ rollout.oadp
  /\ \E at \in {"waiting", "failed"} : applying' = [applying EXCEPT ![t] = at]
  /\ UNCHANGED <<rollout, upgrades, asking, link, inbox, cluster, reported, beat>>

PatchNodes(t) ==
  /\ applying[t] = "server"
  /\ \/ /\ applying' = [applying EXCEPT ![t] = "waiting"]
        /\ declared' = [declared EXCEPT !["nodes"] = Target] /\ observed' = observed \ {"nodes"}
     \/ applying' = [applying EXCEPT ![t] = "failed"] /\ UNCHANGED <<declared, observed>>
  /\ UNCHANGED <<rollout, upgrades, asking, link, inbox, running, reported, beat, ran>>

\* The wait ends when both statuses say that every pod is updated and ready, or with the
\* time, or with a failed ClusterServiceVersion.
WaitForRollout(t) ==
  /\ applying[t] = "waiting"
  /\ \/ /\ ServerStatusReady
        /\ "nodes" \in observed => \A n \in Nodes : running[n] = declared["nodes"]
        /\ applying' = [applying EXCEPT ![t] = "completed"]
     \/ applying' = [applying EXCEPT ![t] = "failed"]
  /\ UNCHANGED <<rollout, upgrades, asking, link, inbox, cluster, reported, beat>>

\* task.completed of an upgrade only says that the change was submitted; task.failed ends
\* the task.  Both are kept until they can be sent.
ReportUpgrade_Bug(t) ==
  /\ applying[t] \in {"completed", "failed"} /\ link.now # 0
  /\ upgrades' = SetUpgrade(t, IF applying[t] = "failed" THEN "failed" ELSE "succeeded")
  /\ applying' = [applying EXCEPT ![t] = "none"]
  /\ UNCHANGED <<rollout, asking, link, inbox, cluster, reported, beat>>
ReportUpgrade(t) ==
  /\ applying[t] \in {"completed", "failed"} /\ link.now # 0
  /\ upgrades' = SetUpgrade(t, IF applying[t] = "failed" THEN "failed" ELSE "running")
  /\ applying' = [applying EXCEPT ![t] = "none"]
  /\ UNCHANGED <<rollout, asking, link, inbox, cluster, reported, beat>>

-----------------------------------------------------------------------------
(* Kubernetes and the operator *)

OperatorUpdates ==
  /\ rollout.oadp /\ declared["server"] # Target
  /\ \E t \in UpgradeTasks : applying[t] = "waiting"
  /\ declared' = [declared EXCEPT !["server"] = Target, !["nodes"] = Target]
  /\ observed' = observed \ {"server", "nodes"}
  /\ UNCHANGED <<rollout, upgrades, asking, link, inbox, applying, running, reported, beat, ran>>

Observe(w) ==
  /\ w \notin observed /\ observed' = observed \cup {w}
  /\ UNCHANGED <<rollout, upgrades, asking, link, inbox, applying, declared, running, reported,
                 beat, ran>>

\* A pod of the newest template replaces one of an older template.
RollPod(p) ==
  LET w == IF p \in Nodes THEN "nodes" ELSE p IN
  /\ w \in observed /\ running[p] # declared[w]
  /\ running' = [running EXCEPT ![p] = IF @ = Down \/ p \notin Nodes THEN declared[w] ELSE Down]
  /\ ran' = IF running'[p] = Target THEN ran \cup {p} ELSE ran
  /\ IF p = "agent"
     THEN /\ link' = [link EXCEPT !.now = 0] /\ inbox' = {}
          /\ applying' = [t \in UpgradeTasks |-> "none"]
     ELSE UNCHANGED <<link, inbox, applying>>
  /\ UNCHANGED <<rollout, upgrades, asking, declared, observed, reported, beat>>

-----------------------------------------------------------------------------
(* Heartbeats and the scheduler *)

SendHeartbeat ==
  /\ link.now # 0 /\ beat.at = "none" /\ Snapshot # reported
  /\ beat' = [at |-> "sent", is |-> Snapshot]
  /\ UNCHANGED <<rollout, upgrades, asking, link, inbox, applying, cluster, reported>>

\* UpdateHeartbeat: an empty value leaves the row's.
UpdateHeartbeat ==
  LET kept(f) == IF beat.is[f] = Down THEN reported[f] ELSE beat.is[f]
      new == [beat.is EXCEPT !.digest = kept("digest"), !.nodeDigest = kept("nodeDigest")]
  IN /\ beat.at = "sent"
     /\ reported' = new /\ beat' = [at |-> "agent", is |-> new]
     /\ UNCHANGED <<rollout, upgrades, asking, link, inbox, applying, cluster>>

\* completeAgentUpgradeAfterHeartbeat, then completeVeleroUpgradeAfterHeartbeat: every
\* active task whose target the row of this heartbeat shows.
CompleteAfterHeartbeat ==
  LET kind == beat.at
      shown == IF kind = "agent" THEN agentUpgradeTargetMatches(beat.is) ELSE veleroVerified(beat.is)
  IN /\ beat.at \in {"agent", "velero"}
     /\ upgrades' = [t \in DOMAIN upgrades |->
          IF upgrades[t].kind = kind /\ shown THEN SetUpgrade(t, "succeeded")[t] ELSE upgrades[t]]
     /\ beat' = [beat EXCEPT !.at = IF kind = "agent" THEN "velero" ELSE "none"]
     /\ UNCHANGED <<rollout, asking, link, inbox, applying, cluster, reported>>

\* reconcileComponentUpgradeTimeouts: ten minutes after the task was started, accepted,
\* dispatched or created.
TimeOutUpgrade_Bug(t) ==
  /\ t \in DOMAIN upgrades /\ upgrades[t].st \in {"dispatched", "running"}
  /\ upgrades' = SetUpgrade(t, "failed")
  /\ UNCHANGED <<rollout, asking, link, inbox, applying, cluster, reported, beat>>
TimeOutUpgrade(t) ==
  /\ t \in DOMAIN upgrades /\ UpgradeActive(t)
  /\ upgrades' = SetUpgrade(t, "failed")
  /\ UNCHANGED <<rollout, asking, link, inbox, applying, cluster, reported, beat>>

-----------------------------------------------------------------------------
(* Faults *)

LoseLink ==
  /\ link.now # 0 /\ rollout.drops > 0
  /\ rollout' = [rollout EXCEPT !.drops = @ - 1] /\ link' = [link EXCEPT !.now = 0]
  /\ UNCHANGED <<upgrades, asking, inbox, applying, cluster, reported, beat>>

RegainLink ==
  /\ link.now = 0 /\ asking["again"].at \in {"idle", "over"} /\ asking["again"].todo = {}
  /\ link' = [now |-> link.last + 1, last |-> link.last + 1]
  /\ asking' = [asking EXCEPT !["again"] = [Resting EXCEPT !.conn = link.last + 1,
       !.todo = {t \in DOMAIN upgrades : upgrades[t].st \in {"queued", "dispatched"}}]]
  /\ UNCHANGED <<rollout, upgrades, inbox, applying, cluster, reported, beat>>

PlatformStops ==
  /\ rollout.restarts > 0 /\ rollout' = [rollout EXCEPT !.restarts = @ - 1]
  /\ link' = [link EXCEPT !.now = 0] /\ beat' = [beat EXCEPT !.at = "none"]
  /\ asking' = [x \in Senders |->
       IF x \in Clerks /\ asking[x].at # "idle" THEN [Resting EXCEPT !.at = "over"] ELSE Resting]
  /\ UNCHANGED <<upgrades, inbox, applying, cluster, reported>>

UpgradeNext ==
  \/ \E q \in Clerks : \/ upgradeClusterAgent(q) \/ upgradeClusterVelero(q)
                      \/ upgradeOpenShiftOADP(q) \/ CreateUpgrade(q)
  \/ \E x \in Senders : SendUpgrade(x) \/ MarkUpgrade(x)
  \/ \E t \in UpgradeTasks : \/ ResendUpgrade(t) \/ AcceptUpgrade(t) \/ PatchAgent(t) \/ PrepareVelero(t)
                             \/ PatchServer(t) \/ SubscribeOADP(t)
                             \/ PatchNodes(t) \/ WaitForRollout(t) \/ ReportUpgrade(t) \/ TimeOutUpgrade(t)
  \/ OperatorUpdates \/ \E w \in Workloads : Observe(w)
  \/ \E p \in {"agent", "server"} \cup Nodes : RollPod(p)
  \/ SendHeartbeat \/ UpdateHeartbeat \/ CompleteAfterHeartbeat
  \/ LoseLink \/ RegainLink \/ PlatformStops

\* The scheduler looks at every task on each of its ticks.
UpgradeFairness == \A t \in UpgradeTasks : WF_upVars(TimeOutUpgrade(t))

UpgradeSpec == UpgradeInit /\ [][UpgradeNext]_upVars /\ UpgradeFairness

-----------------------------------------------------------------------------
(* Properties *)

\* A successful upgrade has really happened: the agent, or the Velero server and the node
\* agent of every node, has run the target, although the task, the report, the rollout and
\* the heartbeats go their own ways.  Where the release's version is the tag of Velero's
\* image, the template alone is taken as proof and nothing of the sort holds.
SucceededHasRun ==
  \A t \in DOMAIN upgrades : upgrades[t].st = "succeeded" =>
    IF upgrades[t].kind = "agent" THEN "agent" \in ran
    ELSE rollout.tagged \/ Nodes \cup {"server"} \subseteq ran

\* Every upgrade task ends, also one that was never delivered or whose report was lost
\* (reconcileComponentUpgradeTimeouts).
UpgradeEnds ==
  \A t \in UpgradeTasks :
    (Len(upgrades) >= t /\ upgrades[t].st \notin UpgradeOver)
      ~> (Len(upgrades) >= t /\ upgrades[t].st \in UpgradeOver)

\* An upgrade is believed only when its release has run.
ComponentSafety == UpgradeTypeOK /\ SucceededHasRun
=============================================================================
