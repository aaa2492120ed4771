-------------------------- MODULE CommunityMigration --------------------------
(***************************************************************************)
(* The source side of a migration from Community to Enterprise: the        *)
(* authorization a system administrator grants, the session the target     *)
(* opens with it, and the calls of the target that freeze the source, back *)
(* it up, export it, hand its agents over and commit or roll back.         *)
(*                                                                         *)
(* A call authenticates, which reads the session, works, and at its end    *)
(* writes the state it decided on; business requests and scheduler ticks   *)
(* look for a freeze first and write afterwards.  The target makes one     *)
(* call of a session at a time, except that it may give up waiting for one *)
(* and roll back.  The target itself is not in this repository.            *)
(***************************************************************************)
EXTENDS Integers, FiniteSets

CONSTANTS
  Moves,      \* authorizations, each with the session it opens
  Sites,      \* the clusters of the source
  Journeys    \* the histories to look at

Calls == {"freeze", "backup", "batch", "handover", "commit"}

\* A journey bounds the authorizations, the calls the target makes and the business
\* writes, and says whether the target gives up on calls.
ASSUME JourneyAssumption ==
  Journeys \subseteq [moves : SUBSET Moves, calls : SUBSET Calls, writes : Nat, impatient : BOOLEAN]

VARIABLES
  journey,    \* what is left of the bounds
  grants,     \* community_migration_authorizations
  session,    \* community_migration_sessions
  call,       \* the target's call in progress: how far it is and the state it read
  writer,     \* a business request or tick: idle, or past the look for a freeze
  data,       \* the version of the business data: plans, policies, tasks, ...
  busy,       \* whether a task is active
  copies,     \* the versions in the stored backup and in the exported batches
  reached,    \* the clusters whose prepare task was sent
  leaky       \* a write fell between the look for active tasks or for a freeze and the freeze
              \* itself (not in the code)

moveVars == <<journey, grants, session, call, writer, data, busy, copies, reached, leaky>>

Over == {"committed", "rolled-back", "expired"}
Resting == [op |-> "none", at |-> 0, saw |-> "none", todo |-> {}]

MigrationTypeOK ==
  /\ grants \in [Moves -> {"fresh", "counted", "used", "expired"}]
  /\ session \in [Moves -> [state : Over \cup {"none", "prechecking", "frozen", "backed-up",
                                               "exporting", "handover"},
                            frozen : BOOLEAN, lapsed : BOOLEAN, overtaken : BOOLEAN]]
  /\ \A m \in Moves : /\ call[m].op \in Calls \cup {"none"} /\ call[m].at \in 0..2
                      /\ call[m].todo \subseteq Sites
  /\ writer \in {"idle", "request", "tick"} /\ data \in Nat /\ busy \in BOOLEAN
  /\ \A m \in Moves : copies[m].backup \subseteq Nat /\ copies[m].export \subseteq Nat
  /\ reached \in [Moves -> SUBSET Sites] /\ leaky \in BOOLEAN
  /\ journey.writes \in Nat

MigrationInit ==
  /\ journey \in Journeys
  /\ grants = [m \in Moves |-> IF m \in journey.moves THEN "fresh" ELSE "expired"]
  /\ session = [m \in Moves |-> [state |-> "none", frozen |-> FALSE, lapsed |-> FALSE, overtaken |-> FALSE]]
  /\ call = [m \in Moves |-> Resting] /\ writer = "idle" /\ data = 0 /\ busy = FALSE
  /\ copies = [m \in Moves |-> [backup |-> {}, export |-> {}]]
  /\ reached = [m \in Moves |-> {}] /\ leaky = FALSE

Active(m) == session[m].state \notin Over \cup {"none"}

\* The look of withPlatformAuth and of the scheduler.
HasCommunityMigrationFreeze_Bug ==
  \E m \in Moves : session[m].frozen /\ ~session[m].lapsed /\ session[m].state = "frozen"
HasCommunityMigrationFreeze_Lasting == \E m \in Moves : session[m].frozen /\ Active(m)
HasCommunityMigrationFreeze ==
  \E m \in Moves : session[m].frozen /\ ~session[m].lapsed /\ Active(m)

\* The unique index community_one_active_migration.
IndexAllows_Bug(m, state) == TRUE
IndexAllows(m, state) == state \in Over \/ \A n \in Moves \ {m} : ~Active(n)

\* The statement changes the row whatever its state is; with the index broken it fails.
UpdateCommunityMigrationState(m, state, frozen) ==
  session' = IF IndexAllows(m, state)
             THEN [session EXCEPT ![m].state = state, ![m].frozen = frozen]
             ELSE session

AuthenticateCommunityMigrationSession(m) == session[m].state # "none" /\ ~session[m].lapsed

\* Sessions past their two hours become expired when sessions are listed or opened.
Reconciled ==
  [m \in Moves |-> IF session[m].lapsed /\ Active(m)
                   THEN [session[m] EXCEPT !.state = "expired", !.frozen = FALSE] ELSE session[m]]

-----------------------------------------------------------------------------
(* Opening a session: ConsumeCommunityMigrationAuthorization *)

\* The authorization's row is locked; sessions of other authorizations are counted.
CountSessions(m) ==
  /\ grants[m] = "fresh" /\ \A n \in Moves : Active(n) => session[n].lapsed
  /\ grants' = [grants EXCEPT ![m] = "counted"]
  /\ UNCHANGED <<journey, session, call, writer, data, busy, copies, reached, leaky>>

\* The insert meets the index when another session was opened meanwhile, and everything
\* is undone.
InsertSession(m) ==
  /\ grants[m] = "counted"
  /\ IF \A n \in Moves \ {m} : Active(n) => session[n].lapsed
     THEN /\ session' = [Reconciled EXCEPT ![m].state = "prechecking"]
          /\ grants' = [grants EXCEPT ![m] = "used"]
     ELSE grants' = [grants EXCEPT ![m] = "fresh"] /\ UNCHANGED session
  /\ UNCHANGED <<journey, call, writer, data, busy, copies, reached, leaky>>

GrantLapses(m) ==
  /\ grants[m] = "fresh" /\ grants' = [grants EXCEPT ![m] = "expired"]
  /\ UNCHANGED <<journey, session, call, writer, data, busy, copies, reached, leaky>>

SessionLapses(m) ==
  /\ session[m].state # "none" /\ ~session[m].lapsed
  /\ session' = [session EXCEPT ![m].lapsed = TRUE]
  /\ UNCHANGED <<journey, grants, call, writer, data, busy, copies, reached, leaky>>

ListSessions ==
  /\ session' = Reconciled /\ session' # session
  /\ UNCHANGED <<journey, grants, call, writer, data, busy, copies, reached, leaky>>

-----------------------------------------------------------------------------
(* The calls of the target.  Begin authenticates and reads the state; the  *)
(* last step of each writes.                                               *)

\* The states in which each call goes on.
Permits ==
  [freeze |-> {"prechecking", "frozen"}, backup |-> {"frozen", "backed-up"}, commit |-> {"handover"},
   batch |-> {"backed-up", "exporting"}, handover |-> {"backed-up", "exporting"}]

\* A target makes a freeze call when it has opened the session; the other conditions are
\* the handlers'.  The handover finds every agent connected, or ends.
Begin(m, op) ==
  /\ call[m].op = "none" /\ op \in journey.calls /\ AuthenticateCommunityMigrationSession(m)
  /\ session[m].state \in Permits[op]
  /\ call' = [call EXCEPT ![m] = [op |-> op, at |-> 1, saw |-> session[m].state,
                                  todo |-> IF op = "handover" THEN Sites ELSE {}]]
  /\ UNCHANGED <<journey, grants, session, writer, data, busy, copies, reached, leaky>>

Finish(m) == call' = [call EXCEPT ![m] = Resting]

\* freezeCommunityMigration: the tasks are listed, then the session is frozen.
ListActive_Bug(m) ==
  /\ call[m].op = "freeze" /\ call[m].at = 1
  /\ call' = [call EXCEPT ![m].at = 2]
  /\ UNCHANGED <<journey, grants, session, writer, data, busy, copies, reached, leaky>>
ListActive(m) ==
  /\ call[m].op = "freeze" /\ call[m].at = 1
  /\ IF busy THEN Finish(m) ELSE call' = [call EXCEPT ![m].at = 2]
  /\ UNCHANGED <<journey, grants, session, writer, data, busy, copies, reached, leaky>>
Freeze(m) ==
  /\ call[m].op = "freeze" /\ call[m].at = 2
  /\ UpdateCommunityMigrationState(m, "frozen", TRUE) /\ Finish(m)
  /\ leaky' = (leaky \/ writer # "idle")
  /\ UNCHANGED <<journey, grants, writer, data, busy, copies, reached>>

\* CreateCommunityMigrationBackup keeps the first backup of a session.
StoreBackup(m) ==
  /\ call[m].op = "backup" /\ call[m].at = 1
  /\ copies' = [copies EXCEPT ![m].backup = IF @ = {} THEN {data} ELSE @]
  /\ call' = [call EXCEPT ![m].at = 2]
  /\ UNCHANGED <<journey, grants, session, writer, data, busy, reached, leaky>>
BackedUp(m) ==
  /\ call[m].op = "backup" /\ call[m].at = 2
  /\ UpdateCommunityMigrationState(m, "backed-up", TRUE) /\ Finish(m)
  /\ UNCHANGED <<journey, grants, writer, data, busy, copies, reached, leaky>>

\* A batch is read from the tables as they are now, not from the backup.
ReadBatch(m) ==
  /\ call[m].op = "batch" /\ call[m].at = 1
  /\ copies' = [copies EXCEPT ![m].export = @ \cup {data}]
  /\ call' = [call EXCEPT ![m].at = 2]
  /\ UNCHANGED <<journey, grants, session, writer, data, busy, reached, leaky>>
Exporting(m) ==
  /\ call[m].op = "batch" /\ call[m].at = 2 /\ Finish(m)
  /\ IF call[m].saw = "backed-up" THEN UpdateCommunityMigrationState(m, "exporting", TRUE)
                                  ELSE UNCHANGED session
  /\ UNCHANGED <<journey, grants, writer, data, busy, copies, reached, leaky>>

\* prepareCommunityMigrationHandover: one prepare task after the other; the first that
\* cannot be created or sent ends the call with the state as it was.
SendPrepare(m, k) ==
  /\ call[m].op = "handover" /\ k \in call[m].todo
  /\ \/ /\ reached' = [reached EXCEPT ![m] = @ \cup {k}]
        /\ call' = [call EXCEPT ![m].todo = @ \ {k}]
     \/ Finish(m) /\ UNCHANGED reached
  /\ UNCHANGED <<journey, grants, session, writer, data, busy, copies, leaky>>
HandedOver_Bug(m) ==
  /\ call[m].op = "handover" /\ Cardinality(call[m].todo) <= 1
  /\ UpdateCommunityMigrationState(m, "handover", TRUE) /\ Finish(m)
  /\ UNCHANGED <<journey, grants, writer, data, busy, copies, reached, leaky>>
HandedOver(m) ==
  /\ call[m].op = "handover" /\ call[m].todo = {}
  /\ UpdateCommunityMigrationState(m, "handover", TRUE) /\ Finish(m)
  /\ UNCHANGED <<journey, grants, writer, data, busy, copies, reached, leaky>>

CommitMigration(m) ==
  /\ call[m].op = "commit"
  /\ UpdateCommunityMigrationState(m, "committed", TRUE) /\ Finish(m)
  /\ UNCHANGED <<journey, grants, writer, data, busy, copies, reached, leaky>>

\* rollbackCommunityMigration looks at no state.  The target rolls back what it has not
\* committed, and does not use the session again; a call it gave up on goes on.
RollbackMigration(m) ==
  /\ AuthenticateCommunityMigrationSession(m) /\ Active(m)
  /\ call[m].op = "none" \/ (journey.impatient /\ call[m].op # "commit")
  /\ session' = [session EXCEPT ![m].state = "rolled-back", ![m].frozen = FALSE,
                                ![m].overtaken = call[m].op # "none"]
  /\ UNCHANGED <<journey, grants, call, writer, data, busy, copies, reached, leaky>>

-----------------------------------------------------------------------------
(* The business of the source *)

\* withPlatformAuth for a request that changes something, runSchedulerTickLocked for a tick.
withPlatformAuth ==
  /\ writer = "idle" /\ journey.writes > 0 /\ ~HasCommunityMigrationFreeze
  /\ writer' = "request" /\ journey' = [journey EXCEPT !.writes = @ - 1]
  /\ UNCHANGED <<grants, session, call, data, busy, copies, reached, leaky>>
runSchedulerTickLocked ==
  /\ writer = "idle" /\ journey.writes > 0 /\ ~HasCommunityMigrationFreeze
  /\ writer' = "tick" /\ journey' = [journey EXCEPT !.writes = @ - 1]
  /\ UNCHANGED <<grants, session, call, data, busy, copies, reached, leaky>>

\* A request changes data or creates a task; what a tick does starts one.
Write ==
  /\ writer # "idle" /\ writer' = "idle" /\ data' = data + 1
  /\ busy' \in IF writer = "tick" THEN {TRUE} ELSE {busy, TRUE}
  /\ leaky' = (leaky \/ \E m \in Moves : call[m].op = "freeze" /\ call[m].at = 2)
  /\ UNCHANGED <<journey, grants, session, call, copies, reached>>

\* An agent's report ends the task; it is not a request of the console.
TaskEnds ==
  /\ busy /\ busy' = FALSE /\ data' = data + 1
  /\ UNCHANGED <<journey, grants, session, call, writer, copies, reached, leaky>>

MoveStep(m) ==
  \/ CountSessions(m) \/ InsertSession(m) \/ GrantLapses(m) \/ SessionLapses(m)
  \/ \E op \in Calls : Begin(m, op)
  \/ ListActive(m) \/ Freeze(m) \/ StoreBackup(m) \/ BackedUp(m) \/ ReadBatch(m) \/ Exporting(m)
  \/ \E k \in Sites : SendPrepare(m, k)
  \/ HandedOver(m) \/ CommitMigration(m) \/ RollbackMigration(m)

MigrationNext ==
  \/ \E m \in Moves : MoveStep(m)
  \/ ListSessions \/ withPlatformAuth \/ runSchedulerTickLocked \/ Write \/ TaskEnds

MigrationFairness == \A m \in Moves : WF_moveVars(SessionLapses(m))
MigrationSpec == MigrationInit /\ [][MigrationNext]_moveVars /\ MigrationFairness

-----------------------------------------------------------------------------
(* Properties *)

\* Only one migration is active: although an authorization is consumed under the lock of
\* its own row only and every call writes its state over any other, two sessions are never
\* both unfinished.
OneMigration == \A m, n \in Moves : Active(m) /\ Active(n) => m = n

\* What the target has read in batches, what the stored backup holds and what the source
\* holds are one version as long as the freeze lasts, unless a request had passed the look
\* for a freeze before it or wrote after the look for active tasks, or the session had been
\* rolled back under a call.
ExportIsExact ==
  \A m \in Moves :
    /\ session[m].state \in {"backed-up", "exporting", "handover"} /\ ~session[m].lapsed
    /\ ~leaky /\ ~session[m].overtaken
    => copies[m].backup = {data} /\ copies[m].export \subseteq {data}

\* A migration is committed only when the prepare task of every cluster was sent, however
\* often a handover was cut short and repeated.
CommitCoversAgents == \A m \in Moves : session[m].state = "committed" => reached[m] = Sites

\* A freeze of the source ends: by commit, by rollback, or with its session, also when a
\* late call freezes a session again that was rolled back.
FreezeEnds == HasCommunityMigrationFreeze ~> ~HasCommunityMigrationFreeze

\* One migration at a time, which exports one version and commits with all agents.
MigrationSafety == MigrationTypeOK /\ OneMigration /\ ExportIsExact /\ CommitCoversAgents
=============================================================================
