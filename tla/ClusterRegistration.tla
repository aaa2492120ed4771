------------------------ MODULE ClusterRegistration ------------------------
(***************************************************************************)
(* How a cluster comes to the platform and stays connected to it: install  *)
(* tokens, the cluster rows and the default cluster of each tenant, agent  *)
(* credentials, WebSocket connections and the session hub.                 *)
(*                                                                         *)
(* One agent is installed with one install token.  A connection is a       *)
(* goroutine of the platform: it registers or authenticates the agent,     *)
(* writes the answer, enters its socket into the hub, reads messages and   *)
(* on its way out leaves the hub and marks the cluster offline.  Agents    *)
(* restart, sockets drop, and a new connection runs beside the old ones.   *)
(* Each transaction of the store, each hub operation and each write to a   *)
(* socket is one step.                                                     *)
(***************************************************************************)
EXTENDS Integers, FiniteSets, FiniteSetsExt

CONSTANTS
  Agents,     \* the agents, each installed with the install token of the same name
  Seasons     \* the bounds of the histories to look at

\* A season bounds which agents are installed, how many connections they open, how often
\* they restart or lose a connection, and how often the default cluster is changed; it
\* names the tenant each install token was created for.
IsSeason(s) ==
  /\ DOMAIN s = {"installed", "tenant", "conns", "starts", "drops", "defaults"}
  /\ s.installed \subseteq Agents /\ DOMAIN s.tenant = Agents
  /\ {s.conns, s.starts, s.drops, s.defaults} \subseteq Nat
ASSUME RegistrationAssumption == \A s \in Seasons : IsSeason(s)

VARIABLES
  tokens,    \* agent_tokens: not used, used, expired, or deleted with the cluster
  clusters,  \* clusters, by the token that created the row
  agents,    \* the agent's process and its credential Secret
  conns,     \* the connections
  hub,       \* sessionHub.sessions: the connection of each cluster, 0 for none
  newest,    \* the connection that entered the hub last (not in the code)
  removal,   \* what a request to delete the cluster has done
  budget     \* what is left of the bounds

regVars == <<tokens, clusters, agents, conns, hub, newest, removal, budget>>

MaxConns == Max({s.conns : s \in Seasons})
Conns   == 1..MaxConns
TenantOf == budget.tenant
Tenants == {TenantOf[a] : a \in Agents}

\* A row is identified by the token that created it.  A deleted id never comes back.
NoCluster == [row |-> "none", status |-> "offline", default |-> FALSE, born |-> 0]
NoConn    == [agent |-> CHOOSE a \in Agents : TRUE, at |-> "none", by |-> "token",
              open |-> FALSE, shut |-> FALSE]

RegistrationTypeOK ==
  /\ tokens \in [Agents -> {"fresh", "used", "expired", "deleted"}]
  /\ clusters \in [Agents -> [row : {"none", "present", "deleted"}, status : {"online", "offline"},
                              default : BOOLEAN, born : 0..Cardinality(Agents)]]
  /\ agents \in [Agents -> [credential : BOOLEAN, saved : BOOLEAN, conn : 0..MaxConns]]
  /\ conns \in [Conns -> [agent : Agents, by : {"token", "credential"}, open : BOOLEAN,
                          shut : BOOLEAN, at : {"none", "hello", "admitted", "written", "live",
                                                "closing", "leaving", "dead"}]]
  /\ hub \in [Agents -> 0..MaxConns] /\ newest \in [Agents -> 0..MaxConns]
  /\ removal \in [Agents -> {"none", "closed", "done"}]
  /\ IsSeason(budget)

RegistrationInit ==
  /\ tokens = [a \in Agents |-> "fresh"] /\ clusters = [a \in Agents |-> NoCluster]
  /\ agents = [a \in Agents |-> [credential |-> FALSE, saved |-> FALSE, conn |-> 0]]
  /\ conns = [k \in Conns |-> NoConn]
  /\ hub = [a \in Agents |-> 0] /\ newest = [a \in Agents |-> 0]
  /\ removal = [a \in Agents |-> "none"]
  /\ budget \in Seasons

Present(t) == {a \in Agents : TenantOf[a] = t /\ clusters[a].row = "present"}

-----------------------------------------------------------------------------
(* The agent *)

\* Client.Register shows the credential when there is one and the install token otherwise.
Shows(a) == IF agents[a].credential THEN "credential" ELSE "token"

\* The loop of main: an agent with no connection dials.
Dial(a, k) ==
  /\ agents[a].conn = 0 /\ a \in budget.installed /\ k <= budget.conns
  /\ conns[k].at = "none" /\ \A j \in Conns : j < k => conns[j].at # "none"
  /\ conns' = [conns EXCEPT ![k] =
       [agent |-> a, at |-> "hello", by |-> Shows(a), open |-> TRUE, shut |-> FALSE]]
  /\ agents' = [agents EXCEPT ![a].conn = k]
  /\ UNCHANGED <<tokens, clusters, hub, newest, removal, budget>>

\* The socket breaks, or the agent's ten seconds for an answer pass, or RunHeartbeat
\* ends on an error: the agent lets the connection go and will dial again.
Disconnect(a) ==
  /\ agents[a].conn # 0 /\ budget.drops > 0
  /\ budget' = [budget EXCEPT !.drops = @ - 1]
  /\ conns' = [conns EXCEPT ![agents[a].conn].open = FALSE]
  /\ agents' = [agents EXCEPT ![a].conn = 0]
  /\ UNCHANGED <<tokens, clusters, hub, newest, removal>>

\* SecretCredentialStore.Load: what an agent finds when it starts.
Load(a) == agents[a].saved

\* The agent's process is restarted: only the credential Secret remains.
RestartAgent(a) ==
  /\ budget.starts > 0 /\ agents[a].credential
  /\ budget' = [budget EXCEPT !.starts = @ - 1]
  /\ agents' = [agents EXCEPT ![a].credential = Load(a), ![a].conn = 0]
  /\ conns' = [k \in Conns |->
       IF k = agents[a].conn THEN [conns[k] EXCEPT !.open = FALSE] ELSE conns[k]]
  /\ UNCHANGED <<tokens, clusters, hub, newest, removal>>

\* persistCredentialWithRetry and SecretCredentialStore.Save.
SaveCredential(a) ==
  /\ agents[a].credential /\ ~agents[a].saved
  /\ agents' = [agents EXCEPT ![a].saved = TRUE]
  /\ UNCHANGED <<tokens, clusters, conns, hub, newest, removal, budget>>

-----------------------------------------------------------------------------
(* A connection of the platform: agentWebSocket *)

\* The server writes a refusal and returns before the hub or the status is touched; the
\* agent closes its end and will dial again.
Reject(k) ==
  /\ conns' = [conns EXCEPT ![k].at = "dead", ![k].open = FALSE]
  /\ agents' = [a \in Agents |->
       IF agents[a].conn = k THEN [agents[a] EXCEPT !.conn = 0] ELSE agents[a]]

\* RegisterCluster: one transaction that holds the token's row and the tenant's lock.
\* The tenant's first cluster becomes its default.
RegisterCluster_Bug(k) ==
  LET a == conns[k].agent IN
  /\ conns[k].at = "hello" /\ conns[k].by = "token"
  /\ \/ /\ tokens[a] # "expired"
        /\ tokens' = [tokens EXCEPT ![a] = "used"]
        /\ clusters' = [clusters EXCEPT ![a] =
             [row |-> "present", status |-> "online",
              default |-> \A b \in Present(TenantOf[a]) : ~clusters[b].default,
              born |-> 1 + Max({clusters[b].born : b \in Agents})]]
        /\ conns' = [conns EXCEPT ![k].at = "admitted"]
        /\ UNCHANGED agents
     \/ /\ tokens[a] = "expired"
        /\ Reject(k)
        /\ UNCHANGED <<tokens, clusters>>
  /\ UNCHANGED <<hub, newest, removal, budget>>
RegisterCluster(k) ==
  LET a == conns[k].agent IN
  /\ conns[k].at = "hello" /\ conns[k].by = "token"
  /\ \/ /\ tokens[a] = "fresh"
        /\ tokens' = [tokens EXCEPT ![a] = "used"]
        /\ clusters' = [clusters EXCEPT ![a] =
             [row |-> "present", status |-> "online",
              default |-> \A b \in Present(TenantOf[a]) : ~clusters[b].default,
              born |-> 1 + Max({clusters[b].born : b \in Agents})]]
        /\ conns' = [conns EXCEPT ![k].at = "admitted"]
        /\ UNCHANGED agents
     \/ /\ tokens[a] # "fresh"
        /\ Reject(k)
        /\ UNCHANGED <<tokens, clusters>>
  /\ UNCHANGED <<hub, newest, removal, budget>>

\* AuthenticateAgentCredential: the credential was deleted with its cluster, or the
\* cluster is online again.
Authenticate(k) ==
  LET a == conns[k].agent IN
  /\ conns[k].at = "hello" /\ conns[k].by = "credential"
  /\ \/ /\ clusters[a].row = "present"
        /\ clusters' = [clusters EXCEPT ![a].status = "online"]
        /\ conns' = [conns EXCEPT ![k].at = "admitted"]
        /\ UNCHANGED agents
     \/ /\ clusters[a].row # "present"
        /\ Reject(k)
        /\ UNCHANGED clusters
  /\ UNCHANGED <<tokens, hub, newest, removal, budget>>

\* DeleteCluster leaves the tenant without a default only until its end: the oldest
\* remaining cluster takes the place.
Deleted_Bug(a) == [clusters EXCEPT ![a] = [@ EXCEPT !.row = "deleted", !.default = FALSE,
                                                   !.status = "offline"]]
Deleted(a) ==
  LET rest == Present(TenantOf[a]) \ {a}
      heir == CHOOSE b \in rest : \A c \in rest : clusters[b].born <= clusters[c].born
      gone == [clusters EXCEPT ![a] = [@ EXCEPT !.row = "deleted", !.default = FALSE,
                                                !.status = "offline"]]
  IN IF rest # {} /\ \A b \in rest : ~clusters[b].default
     THEN [gone EXCEPT ![heir].default = TRUE] ELSE gone

\* The edition refuses the new cluster: its row is deleted again.
RefuseAdmission(k) ==
  LET a == conns[k].agent IN
  /\ conns[k].at = "admitted" /\ conns[k].by = "token"
  /\ clusters' = IF clusters[a].row = "present" THEN Deleted(a) ELSE clusters
  /\ tokens' = [tokens EXCEPT ![a] = IF clusters[a].row = "present" THEN "deleted" ELSE @]
  /\ Reject(k)
  /\ UNCHANGED <<hub, newest, removal, budget>>

\* The answer is written.  An agent that waits for it keeps the credential; when it has
\* gone, the write fails and the handler returns, or it succeeds and nobody reads it.
WriteAccepted(k) ==
  LET a == conns[k].agent IN
  /\ conns[k].at = "admitted"
  /\ \/ /\ conns[k].open
        /\ agents' = [agents EXCEPT ![a].credential = TRUE]
        /\ conns' = [conns EXCEPT ![k].at = "written"]
     \/ /\ ~conns[k].open
        /\ \E at \in {"written", "dead"} : conns' = [conns EXCEPT ![k].at = at]
        /\ UNCHANGED agents
  /\ UNCHANGED <<tokens, clusters, hub, newest, removal, budget>>

\* hub.set: whatever connection the cluster had before is replaced, and stays open.
EnterHub(k) ==
  LET a == conns[k].agent IN
  /\ conns[k].at = "written"
  /\ hub' = [hub EXCEPT ![a] = k] /\ newest' = [newest EXCEPT ![a] = k]
  /\ conns' = [conns EXCEPT ![k].at = "live"]
  /\ UNCHANGED <<tokens, clusters, agents, removal, budget>>

\* A heartbeat, or an inventory, marks the cluster online; one of a cluster that is
\* unknown by now ends the connection.
Heartbeat_Bug(k) ==
  LET a == conns[k].agent IN
  /\ conns[k].at = "live" /\ conns[k].open /\ ~conns[k].shut
  /\ clusters' = [clusters EXCEPT ![a].status = IF @ = "offline" THEN "offline" ELSE "online"]
  /\ UNCHANGED <<tokens, agents, conns, hub, newest, removal, budget>>
Heartbeat(k) ==
  LET a == conns[k].agent IN
  /\ conns[k].at = "live" /\ conns[k].open /\ ~conns[k].shut
  /\ \/ /\ clusters[a].row = "present"
        /\ clusters' = [clusters EXCEPT ![a].status = "online"]
        /\ UNCHANGED conns
     \/ /\ clusters[a].row # "present"
        /\ conns' = [conns EXCEPT ![k].at = "closing"]
        /\ UNCHANGED clusters
  /\ UNCHANGED <<tokens, agents, hub, newest, removal, budget>>

\* The read fails: the peer closed, the platform closed the socket, or no pong arrived
\* within agentPongWait.
ReadFails(k) ==
  /\ conns[k].at = "live" /\ (~conns[k].open \/ conns[k].shut)
  /\ conns' = [conns EXCEPT ![k].at = "closing"]
  /\ UNCHANGED <<tokens, clusters, agents, hub, newest, removal, budget>>

\* hub.remove takes the session out only while it is this connection's.
LeaveHub_Bug(k) ==
  /\ conns[k].at = "closing"
  /\ hub' = [hub EXCEPT ![conns[k].agent] = 0]
  /\ conns' = [conns EXCEPT ![k].at = "leaving"]
  /\ UNCHANGED <<tokens, clusters, agents, newest, removal, budget>>
LeaveHub(k) ==
  /\ conns[k].at = "closing"
  /\ hub' = [hub EXCEPT ![conns[k].agent] = IF @ = k THEN 0 ELSE @]
  /\ conns' = [conns EXCEPT ![k].at = "leaving"]
  /\ UNCHANGED <<tokens, clusters, agents, newest, removal, budget>>

\* The last step of the handler: the cluster is offline, whoever is connected by now.
\* The handler's return closes the socket.
MarkOffline(k) ==
  LET a == conns[k].agent IN
  /\ conns[k].at = "leaving"
  /\ clusters' = [clusters EXCEPT ![a].status = IF @ = "online" THEN "offline" ELSE @]
  /\ conns' = [conns EXCEPT ![k].at = "dead", ![k].open = FALSE]
  /\ agents' = [agents EXCEPT ![a].conn = IF @ = k THEN 0 ELSE @]
  /\ UNCHANGED <<tokens, hub, newest, removal, budget>>

-----------------------------------------------------------------------------
(* Requests and time *)

\* deleteCluster and forceCleanupCluster: hub.close, then DeleteCluster.
CloseSession(a) ==
  /\ removal[a] = "none" /\ clusters[a].row = "present"
  /\ removal' = [removal EXCEPT ![a] = "closed"]
  /\ conns' = [k \in Conns |-> IF k = hub[a] THEN [conns[k] EXCEPT !.shut = TRUE] ELSE conns[k]]
  /\ hub' = [hub EXCEPT ![a] = 0]
  /\ UNCHANGED <<tokens, clusters, agents, newest, budget>>

DeleteRow(a) ==
  /\ removal[a] = "closed"
  /\ removal' = [removal EXCEPT ![a] = "done"]
  /\ clusters' = IF clusters[a].row = "present" THEN Deleted(a) ELSE clusters
  /\ tokens' = [tokens EXCEPT ![a] = IF clusters[a].row = "present" THEN "deleted" ELSE @]
  /\ UNCHANGED <<agents, conns, hub, newest, budget>>

\* setDefaultCluster and updateCluster: UpdateCluster takes the flag from every other
\* cluster of the tenant in the same transaction, and refuses to clear it.
UpdateCluster_Bug(a) ==
  /\ budget.defaults > 0 /\ clusters[a].row = "present"
  /\ budget' = [budget EXCEPT !.defaults = @ - 1]
  /\ clusters' = [b \in Agents |-> [clusters[b] EXCEPT !.default = (b = a)]]
  /\ UNCHANGED <<tokens, agents, conns, hub, newest, removal>>
UpdateCluster(a) ==
  /\ budget.defaults > 0 /\ clusters[a].row = "present"
  /\ budget' = [budget EXCEPT !.defaults = @ - 1]
  /\ clusters' = [b \in Agents |->
       IF TenantOf[b] = TenantOf[a] THEN [clusters[b] EXCEPT !.default = (b = a)]
       ELSE clusters[b]]
  /\ UNCHANGED <<tokens, agents, conns, hub, newest, removal>>

ExpireToken(a) ==
  /\ tokens[a] = "fresh" /\ a \in budget.installed
  /\ tokens' = [tokens EXCEPT ![a] = "expired"]
  /\ UNCHANGED <<clusters, agents, conns, hub, newest, removal, budget>>

\* What the platform does by itself: a connection always takes its next step.
Serve(k) ==
  \/ RegisterCluster(k) \/ Authenticate(k) \/ RefuseAdmission(k) \/ WriteAccepted(k)
  \/ EnterHub(k) \/ Heartbeat(k) \/ ReadFails(k) \/ LeaveHub(k) \/ MarkOffline(k)

RegistrationNext ==
  \/ \E a \in Agents :
       \/ \E k \in Conns : Dial(a, k)
       \/ Disconnect(a) \/ RestartAgent(a) \/ SaveCredential(a) \/ CloseSession(a)
       \/ DeleteRow(a) \/ UpdateCluster(a) \/ ExpireToken(a)
  \/ \E k \in Conns : Serve(k)

\* A goroutine of the platform keeps running, and a connected agent keeps sending
\* heartbeats on its ticker.
RegistrationFairness == \A k \in Conns : WF_regVars(Serve(k))

RegistrationSpec == RegistrationInit /\ [][RegistrationNext]_regVars /\ RegistrationFairness

-----------------------------------------------------------------------------
(* Properties *)

\* Every tenant that has a cluster has exactly one default cluster, after any sequence of
\* registrations, refusals, deletions and changes of the default (RegisterCluster,
\* UpdateCluster and the repair at the end of DeleteCluster; two tenants never interfere).
OneDefault ==
  \A t \in Tenants : Present(t) # {} =>
    Cardinality({a \in Present(t) : clusters[a].default}) = 1

\* The connection that entered the hub last is found there as long as it is being served:
\* the teardown of an older connection of the cluster never takes it out (hub.remove).
NewestIsFound ==
  \A a \in Agents : LET k == newest[a] IN
    k # 0 /\ conns[k].at = "live" /\ ~conns[k].shut => hub[a] = k

\* An install token gives one cluster, whatever answers are lost: an agent that keeps
\* dialling with a spent token, or with the credential of a deleted cluster, never gets a
\* second row (the token's row is locked, and deleted with the cluster).
SpentStaysSpent ==
  [][\A a \in Agents : /\ tokens[a] # "fresh" => tokens'[a] # "fresh"
                       /\ clusters[a].row = "deleted" => clusters'[a].row = "deleted"
                       /\ clusters'[a].row = "present" => tokens'[a] = "used"]_regVars

Connected(a) ==
  \E k \in Conns : /\ conns[k].agent = a /\ conns[k].at = "live"
                   /\ conns[k].open /\ ~conns[k].shut

\* An agent that stays connected is shown online in the end, although every older
\* connection of its cluster marks it offline on the way out, whenever that happens: the
\* next heartbeat repairs the status.
StatusSettles == \A a \in Agents : <>[]Connected(a) => <>[](clusters[a].status = "online")

\* Nobody keeps serving a cluster that was deleted: a connection that was admitted before
\* and entered the hub after hub.close has looked there ends at its next heartbeat.
DeletedIsDisconnected ==
  \A a \in Agents : (clusters[a].row = "deleted") ~> ~Connected(a)

\* After any connections, refusals and deletions the hub and the defaults are right.
RegistrationSafety == RegistrationTypeOK /\ OneDefault /\ NewestIsFound
=============================================================================
