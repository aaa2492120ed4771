---------------------------- MODULE AdmissionProofs ----------------------------
(***************************************************************************)
(* What the control plane lets in: proofs about two parts of it that share *)
(* no state.                                                               *)
(*                                                                         *)
(* A migration is the only one, exports one version and covers every       *)
(* cluster, for every number of authorizations and clusters: the invariant *)
(* is that a call goes on in a state that permits it, and that nobody is   *)
(* left who writes once the source is frozen.                              *)
(*                                                                         *)
(* Tasks are admitted so that they exclude each other as they must, for    *)
(* every number of requests, points and platform processes: the invariant  *)
(* says whose a claimed point is, from the claim to the end of its task,   *)
(* and that a time of the schedule that has its task is marked or about to *)
(* be.                                                                     *)
(***************************************************************************)
EXTENDS CommunityMigration, TaskAdmission, TLAPS

-----------------------------------------------------------------------------
(* The migration to Enterprise *)

MoveStates == Over \cup {"none", "prechecking", "frozen", "backed-up", "exporting", "handover"}
SessionRecords == [state : MoveStates, frozen : BOOLEAN, lapsed : BOOLEAN, overtaken : BOOLEAN]
CallRecords == [op : Calls \cup {"none"}, at : 0..2, saw : MoveStates, todo : SUBSET Sites]
CopyRecords == [backup : SUBSET Nat, export : SUBSET Nat]
JourneyRecords == [moves : SUBSET Moves, calls : SUBSET Calls, writes : Nat, impatient : BOOLEAN]

MoveTypes ==
  /\ journey \in JourneyRecords /\ grants \in [Moves -> {"fresh", "counted", "used", "expired"}]
  /\ session \in [Moves -> SessionRecords] /\ call \in [Moves -> CallRecords]
  /\ writer \in {"idle", "request", "tick"} /\ data \in Nat /\ busy \in BOOLEAN
  /\ copies \in [Moves -> CopyRecords] /\ reached \in [Moves -> SUBSET Sites] /\ leaky \in BOOLEAN

\* A session that was not opened has nothing.
Unopened(m) ==
  /\ grants[m] # "used" => session[m].state = "none"
  /\ session[m].state = "none" =>
       /\ ~session[m].lapsed /\ ~session[m].overtaken /\ call[m].op = "none"
       /\ copies[m].backup = {} /\ copies[m].export = {}

\* A call goes on in a state that permits it, unless the session lapsed or was rolled back
\* under it; a backup that is about to be announced is stored; and what is handed over and
\* what is still to be handed over are all the clusters.
CallFits(m) ==
  /\ call[m].op # "none" /\ ~session[m].lapsed /\ ~session[m].overtaken =>
       session[m].state \in Permits[call[m].op]
  /\ call[m].op = "backup" /\ call[m].at = 2 => copies[m].backup # {}
  /\ call[m].op = "freeze" /\ call[m].at = 2 /\ ~leaky => ~busy
  /\ call[m].op = "handover" => Sites \subseteq call[m].todo \cup reached[m]
  /\ call[m].op = "commit" \/ session[m].state \in {"handover", "committed"} => reached[m] = Sites

\* A frozen source has nobody left who writes, so that every copy is of the version it holds.
Sealed(m) ==
  ~session[m].lapsed /\ ~session[m].overtaken /\ ~leaky =>
    /\ session[m].state = "prechecking" => copies[m].backup = {} /\ copies[m].export = {}
    /\ session[m].state \in {"frozen", "backed-up", "exporting", "handover"} =>
         /\ session[m].frozen /\ writer = "idle" /\ ~busy
         /\ copies[m].backup \subseteq {data} /\ copies[m].export \subseteq {data}
    /\ session[m].state \in {"backed-up", "exporting", "handover"} => copies[m].backup # {}

MigrationInv ==
  /\ MoveTypes /\ OneMigration
  /\ \A m \in Moves : Unopened(m) /\ CallFits(m) /\ Sealed(m)

LEMMA MigrationInvSuffices == MigrationInv => MigrationSafety
<1> SUFFICES ASSUME MigrationInv PROVE MigrationSafety
  OBVIOUS
<1>1. ExportIsExact
  <2> SUFFICES ASSUME NEW m \in Moves, session[m].state \in {"backed-up", "exporting", "handover"},
                      ~session[m].lapsed, ~leaky, ~session[m].overtaken
               PROVE  copies[m].backup = {data} /\ copies[m].export \subseteq {data}
    BY Zenon DEF ExportIsExact
  <2>1. /\ copies[m].backup \subseteq {data} /\ copies[m].export \subseteq {data} /\ copies[m].backup # {}
    BY Zenon DEF MigrationInv, Sealed
  <2> QED  BY <2>1, Zenon
<1>2. CommitCoversAgents
  BY Zenon DEF CommitCoversAgents, MigrationInv, CallFits
<1>3. MigrationTypeOK
  <2>1. \A m \in Moves : /\ call[m].op \in Calls \cup {"none"} /\ call[m].at \in 0..2
                         /\ call[m].todo \subseteq Sites
    BY Zenon DEF MigrationInv, MoveTypes, CallRecords
  <2>2. \A m \in Moves : copies[m].backup \subseteq Nat /\ copies[m].export \subseteq Nat
    BY Zenon DEF MigrationInv, MoveTypes, CopyRecords
  <2>3. journey.writes \in Nat
    BY Zenon DEF MigrationInv, MoveTypes, JourneyRecords
  <2> QED  BY <2>1, <2>2, <2>3, Zenon DEF MigrationInv, MoveTypes, MigrationTypeOK, SessionRecords, MoveStates
<1> QED  BY <1>1, <1>2, <1>3, Zenon DEF MigrationSafety, MigrationInv

\* What a step keeps for a session it does not touch.
MoveSame(n) ==
  /\ session'[n] = session[n] /\ call'[n] = call[n] /\ copies'[n] = copies[n]
  /\ reached'[n] = reached[n] /\ grants'[n] = grants[n]

LEMMA MoveStands ==
  ASSUME MigrationInv, NEW n \in Moves, MoveSame(n), leaky => leaky', UNCHANGED <<writer, data, busy>>
  PROVE  Unopened(n)' /\ CallFits(n)' /\ Sealed(n)'
<1>1. Unopened(n) /\ CallFits(n) /\ Sealed(n)
  BY Zenon DEF MigrationInv
<1>2. Unopened(n)'
  BY <1>1, Zenon DEF Unopened, MoveSame
<1>3. CallFits(n)'
  BY <1>1, Zenon DEF CallFits, MoveSame
<1>4. Sealed(n)'
  BY <1>1, Zenon DEF Sealed, MoveSame
<1> QED  BY <1>2, <1>3, <1>4

\* A session takes a state the index allows.
LEMMA OneStays ==
  ASSUME OneMigration, NEW m \in Moves, \A n \in Moves \ {m} : session'[n] = session[n],
         session'[m].state \in Over \cup {"none"} \/ Active(m) \/ \A n \in Moves \ {m} : ~Active(n)
  PROVE  OneMigration'
BY Zenon DEF OneMigration, Active

LEMMA SessionSet ==
  ASSUME session \in [Moves -> SessionRecords], NEW m \in Moves, NEW s \in MoveStates, NEW f \in BOOLEAN,
         session' = [session EXCEPT ![m].state = s, ![m].frozen = f]
  PROVE  /\ session' \in [Moves -> SessionRecords] /\ session'[m].state = s /\ session'[m].frozen = f
         /\ session'[m].lapsed = session[m].lapsed /\ session'[m].overtaken = session[m].overtaken
         /\ \A n \in Moves \ {m} : session'[n] = session[n]
<1> DEFINE d == [session[m] EXCEPT !.state = s, !.frozen = f]
<1>1. d \in SessionRecords /\ d.state = s /\ d.frozen = f /\ d.lapsed = session[m].lapsed /\ d.overtaken = session[m].overtaken
  BY Zenon DEF SessionRecords
<1>2. session' = [session EXCEPT ![m] = d]
  BY ZenonT(30)
<1> HIDE DEF d
<1> QED  BY <1>1, <1>2, ZenonT(60)

LEMMA RestingIsCall == Resting \in CallRecords /\ Resting.op = "none"
<1>1. 0 \in 0..2
  BY SMT
<1> QED  BY <1>1, Zenon DEF Resting, CallRecords, MoveStates

LEMMA FinishSets ==
  ASSUME call \in [Moves -> CallRecords], NEW m \in Moves, Finish(m)
  PROVE  /\ call' \in [Moves -> CallRecords] /\ call'[m].op = "none" /\ \A n \in Moves \ {m} : call'[n] = call[n]
<1> HIDE DEF Resting
<1> QED  BY RestingIsCall, Zenon DEF Finish

\* The end of a call: the state is written if the index allows it, and the call is over.
LEMMA CallEnds ==
  ASSUME MigrationInv, NEW m \in Moves, call[m].op # "none", Finish(m),
         NEW s \in {"frozen", "backed-up", "exporting", "handover", "committed"},
         UpdateCommunityMigrationState(m, s, TRUE) \/ UNCHANGED session,
         UNCHANGED <<journey, grants, writer, data, busy, copies, reached>>, leaky' \in BOOLEAN, leaky => leaky',
         s \in {"handover", "committed"} => reached[m] = Sites,
         ~session[m].lapsed /\ ~session[m].overtaken /\ ~leaky' =>
           /\ s # "committed" => /\ writer = "idle" /\ ~busy
                                 /\ copies[m].backup \subseteq {data} /\ copies[m].export \subseteq {data}
           /\ s \in {"backed-up", "exporting", "handover"} => copies[m].backup # {}
  PROVE  MigrationInv'
<1>1. /\ MoveTypes /\ OneMigration /\ Unopened(m) /\ CallFits(m) /\ Sealed(m)
  BY Zenon DEF MigrationInv
<1>2. /\ call' \in [Moves -> CallRecords] /\ call'[m].op = "none" /\ \A n \in Moves \ {m} : call'[n] = call[n]
  BY <1>1, FinishSets, Zenon DEF MoveTypes
<1>3. s \in MoveStates
  BY Zenon DEF MoveStates, Over
<1>4. \/ UNCHANGED session
      \/ /\ IndexAllows(m, s) /\ session'[m].state = s /\ session'[m].frozen = TRUE /\ session' \in [Moves -> SessionRecords]
         /\ session'[m].lapsed = session[m].lapsed /\ session'[m].overtaken = session[m].overtaken
         /\ \A n \in Moves \ {m} : session'[n] = session[n]
  <2>1. CASE session' = [session EXCEPT ![m].state = s, ![m].frozen = TRUE] /\ IndexAllows(m, s)
    BY <1>1, <1>3, <2>1, SessionSet, Zenon DEF MoveTypes
  <2> QED  BY <2>1, Zenon DEF UpdateCommunityMigrationState
<1>5. MoveTypes'
  BY <1>1, <1>2, <1>4, Zenon DEF MoveTypes
<1>6. OneMigration'
  <2>1. CASE UNCHANGED session
    BY <1>1, <2>1, Zenon DEF OneMigration, Active
  <2>2. CASE IndexAllows(m, s) /\ session'[m].state = s /\ \A n \in Moves \ {m} : session'[n] = session[n]
    <3>1. s \in Over \cup {"none"} \/ \A n \in Moves \ {m} : ~Active(n)
      BY <2>2, Zenon DEF IndexAllows
    <3> QED  BY <1>1, <2>2, <3>1, OneStays, Zenon
  <2> QED  BY <1>4, <2>1, <2>2, Zenon
<1>7. Unopened(m)' /\ CallFits(m)' /\ Sealed(m)'
  <2>1. grants[m] = "used" /\ session[m].state # "none"
    BY <1>1, Zenon DEF Unopened
  <2>2. Unopened(m)'
    BY <1>4, <2>1, Zenon DEF Unopened
  <2>3. CallFits(m)'
    BY <1>1, <1>2, <1>4, Zenon DEF CallFits
  <2>4. Sealed(m)'
    <3>1. CASE UNCHANGED session
      BY <1>1, <3>1, Zenon DEF Sealed
    <3>2. CASE /\ session'[m].state = s /\ session'[m].frozen = TRUE
               /\ session'[m].lapsed = session[m].lapsed /\ session'[m].overtaken = session[m].overtaken
      BY <3>2, Zenon DEF Sealed
    <3> QED  BY <1>4, <3>1, <3>2, Zenon
  <2> QED  BY <2>2, <2>3, <2>4
<1>8. ASSUME NEW n \in Moves, n # m PROVE Unopened(n)' /\ CallFits(n)' /\ Sealed(n)'
  <2>1. MoveSame(n)
    BY <1>2, <1>4, <1>8, Zenon DEF MoveSame
  <2> QED  BY <2>1, MoveStands, Zenon
<1> QED  BY <1>5, <1>6, <1>7, <1>8, Zenon DEF MigrationInv

\* A step within a call: the session stays as it is.
LEMMA CallMoves ==
  ASSUME MigrationInv, NEW m \in Moves, NEW d \in CallRecords, call' = [call EXCEPT ![m] = d],
         UNCHANGED <<journey, grants, session, writer, data, busy, leaky>>,
         copies' \in [Moves -> CopyRecords], reached' \in [Moves -> SUBSET Sites],
         \A n \in Moves \ {m} : copies'[n] = copies[n] /\ reached'[n] = reached[n],
         session[m].state # "none",
         call'[m] = d => CallFits(m)' /\ Sealed(m)'
  PROVE  MigrationInv'
<1>1. MoveTypes /\ OneMigration /\ Unopened(m)
  BY Zenon DEF MigrationInv
<1>2. call' \in [Moves -> CallRecords] /\ call'[m] = d /\ \A n \in Moves \ {m} : call'[n] = call[n]
  BY <1>1, Zenon DEF MoveTypes
<1>3. MoveTypes'
  BY <1>1, <1>2, Zenon DEF MoveTypes
<1>4. OneMigration'
  BY <1>1, Zenon DEF OneMigration, Active
<1>5. Unopened(m)'
  BY <1>1, Zenon DEF Unopened
<1>6. ASSUME NEW n \in Moves, n # m PROVE Unopened(n)' /\ CallFits(n)' /\ Sealed(n)'
  <2>1. MoveSame(n)
    BY <1>2, <1>6, Zenon DEF MoveSame
  <2> QED  BY <2>1, MoveStands, Zenon
<1> QED  BY <1>2, <1>3, <1>4, <1>5, <1>6, Zenon DEF MigrationInv

LEMMA ReconciledFacts ==
  ASSUME session \in [Moves -> SessionRecords], NEW n \in Moves
  PROVE  /\ Reconciled[n] \in SessionRecords
         /\ Reconciled[n].lapsed = session[n].lapsed /\ Reconciled[n].overtaken = session[n].overtaken
         /\ \/ Reconciled[n] = session[n] /\ ~(session[n].lapsed /\ Active(n))
            \/ session[n].lapsed /\ Active(n) /\ Reconciled[n].state = "expired"
<1>1. CASE session[n].lapsed /\ Active(n)
  <2> DEFINE d == [session[n] EXCEPT !.state = "expired", !.frozen = FALSE]
  <2>1. Reconciled[n] = d
    BY <1>1, Zenon DEF Reconciled
  <2>2. "expired" \in MoveStates
    BY Zenon DEF MoveStates, Over
  <2>3. /\ d \in SessionRecords /\ d.lapsed = session[n].lapsed /\ d.overtaken = session[n].overtaken
        /\ d.state = "expired"
    BY <2>2, Zenon DEF SessionRecords
  <2> HIDE DEF d
  <2> QED  BY <1>1, <2>1, <2>3, Zenon
<1>2. CASE ~(session[n].lapsed /\ Active(n))
  BY <1>2, Zenon DEF Reconciled
<1> QED  BY <1>1, <1>2

\* The listing ends only sessions that had lapsed.
LEMMA MoveReconciles ==
  ASSUME MigrationInv, NEW n \in Moves, session'[n] = Reconciled[n],
         grants'[n] = grants[n], UNCHANGED <<call, copies, reached, writer, data, busy, leaky>>
  PROVE  Unopened(n)' /\ CallFits(n)' /\ Sealed(n)'
<1>1. CASE Reconciled[n] = session[n]
  BY <1>1, MoveStands, Zenon DEF MoveSame
<1>2. CASE session[n].lapsed /\ Active(n) /\ Reconciled[n].state = "expired" /\ Reconciled[n].lapsed = session[n].lapsed
  <2>1. Unopened(n) /\ CallFits(n)
    BY Zenon DEF MigrationInv
  <2>2. session[n].state # "none" /\ session'[n].state = "expired" /\ session'[n].lapsed
    BY <1>2, Zenon DEF Active
  <2>3. Unopened(n)'
    BY <2>1, <2>2, Zenon DEF Unopened
  <2>4. CallFits(n)'
    BY <2>1, <2>2, Zenon DEF CallFits
  <2>5. Sealed(n)'
    BY <2>2, Zenon DEF Sealed
  <2> QED  BY <2>3, <2>4, <2>5
<1> QED  BY <1>1, <1>2, ReconciledFacts, Zenon DEF MigrationInv, MoveTypes

\* A step that only moves the authorization, which is not used before and after.
LEMMA GrantMoves ==
  ASSUME MigrationInv, NEW m \in Moves, NEW g \in {"fresh", "counted", "expired"}, grants[m] # "used",
         grants' = [grants EXCEPT ![m] = g],
         UNCHANGED <<journey, session, call, writer, data, busy, copies, reached, leaky>>
  PROVE  MigrationInv'
<1>1. MoveTypes /\ OneMigration /\ Unopened(m) /\ CallFits(m) /\ Sealed(m)
  BY Zenon DEF MigrationInv
<1>2. /\ grants' \in [Moves -> {"fresh", "counted", "used", "expired"}]
      /\ \A n \in Moves \ {m} : grants'[n] = grants[n]
  BY <1>1, Zenon DEF MoveTypes
<1>3. MoveTypes' /\ OneMigration'
  BY <1>1, <1>2, Zenon DEF MoveTypes, OneMigration, Active
<1>4. Unopened(m)' /\ CallFits(m)' /\ Sealed(m)'
  BY <1>1, Zenon DEF Unopened, CallFits, Sealed
<1>5. ASSUME NEW n \in Moves, n # m PROVE Unopened(n)' /\ CallFits(n)' /\ Sealed(n)'
  <2>1. MoveSame(n)
    BY <1>2, <1>5, Zenon DEF MoveSame
  <2> QED  BY <2>1, MoveStands, Zenon
<1> QED  BY <1>3, <1>4, <1>5, Zenon DEF MigrationInv

LEMMA SessionOpens ==
  ASSUME MigrationInv, NEW m \in Moves, InsertSession(m)
  PROVE  MigrationInv'
<1>1. MoveTypes /\ OneMigration /\ Unopened(m) /\ CallFits(m) /\ Sealed(m)
  BY Zenon DEF MigrationInv
<1>2. grants[m] # "used" /\ session[m].state = "none"
  BY <1>1, Zenon DEF InsertSession, Unopened
<1>3. CASE ~(\A n \in Moves \ {m} : Active(n) => session[n].lapsed)
  BY <1>2, <1>3, GrantMoves, Zenon DEF InsertSession
<1>4. CASE \A n \in Moves \ {m} : Active(n) => session[n].lapsed
  <2> DEFINE d == [Reconciled[m] EXCEPT !.state = "prechecking"]
  <2>1. /\ session' = [Reconciled EXCEPT ![m].state = "prechecking"] /\ grants' = [grants EXCEPT ![m] = "used"]
        /\ UNCHANGED <<journey, call, writer, data, busy, copies, reached, leaky>>
    BY <1>4, Zenon DEF InsertSession
  <2>2. session' = [Reconciled EXCEPT ![m] = d]
    BY <2>1, ZenonT(30)
  <2>3. "prechecking" \in MoveStates
    BY Zenon DEF MoveStates
  <2>4. Reconciled \in [Moves -> SessionRecords]
    <3>1. \A n \in Moves : Reconciled[n] \in SessionRecords
      BY <1>1, ReconciledFacts, Zenon DEF MoveTypes
    <3> QED  BY <3>1, Zenon DEF Reconciled
  <2>5. d \in SessionRecords /\ d.state = "prechecking" /\ d.lapsed = Reconciled[m].lapsed /\ d.overtaken = Reconciled[m].overtaken
    <3> HIDE DEF Reconciled
    <3> QED  BY <2>3, <2>4, Zenon DEF SessionRecords
  <2> HIDE DEF d, Reconciled
  <2>6. session' \in [Moves -> SessionRecords] /\ session'[m] = d /\ \A n \in Moves \ {m} : session'[n] = Reconciled[n]
    BY <2>2, <2>4, <2>5, Zenon
  <2>7. grants' \in [Moves -> {"fresh", "counted", "used", "expired"}] /\ grants'[m] = "used"
        /\ \A n \in Moves \ {m} : grants'[n] = grants[n]
    BY <1>1, <2>1, Zenon DEF MoveTypes
  <2>8. MoveTypes'
    BY <1>1, <2>1, <2>6, <2>7, Zenon DEF MoveTypes
  <2>9. \A n \in Moves \ {m} : ~Active(n)'
    <3> SUFFICES ASSUME NEW n \in Moves, n # m PROVE session'[n].state \in Over \cup {"none"}
      BY Zenon DEF Active
    <3>1. session'[n] = Reconciled[n]
      BY <2>6, Zenon
    <3>2. CASE session[n].lapsed /\ Active(n) /\ Reconciled[n].state = "expired"
      BY <3>1, <3>2, Zenon DEF Over
    <3>3. CASE Reconciled[n] = session[n] /\ ~Active(n)
      BY <3>1, <3>3, Zenon DEF Active
    <3> QED  BY <1>1, <1>4, <3>2, <3>3, ReconciledFacts, Zenon DEF MoveTypes
  <2>10. OneMigration'
    BY <2>9, Zenon DEF OneMigration
  <2>11. ~session[m].lapsed /\ ~session[m].overtaken /\ ~Active(m) /\ call[m].op = "none"
         /\ copies[m].backup = {} /\ copies[m].export = {}
    BY <1>1, <1>2, Zenon DEF Unopened, Active
  <2>12. call'[m].op = "none" /\ copies'[m].backup = {} /\ copies'[m].export = {} /\ session'[m].state = "prechecking"
    BY <2>1, <2>5, <2>6, <2>11, Zenon
  <2>13. Unopened(m)'
    <3>1. "prechecking" # "none"
      OBVIOUS
    <3> QED  BY <2>7, <2>12, <3>1, Zenon DEF Unopened
  <2>14. CallFits(m)'
    BY <2>12, Zenon DEF CallFits
  <2>15. Sealed(m)'
    BY <2>12, Zenon DEF Sealed
  <2>16. ASSUME NEW n \in Moves, n # m PROVE Unopened(n)' /\ CallFits(n)' /\ Sealed(n)'
    BY <2>1, <2>6, <2>7, <2>16, MoveReconciles, Zenon
  <2> QED  BY <2>8, <2>10, <2>13, <2>14, <2>15, <2>16, Zenon DEF MigrationInv
<1> QED  BY <1>3, <1>4

\* A step within a session that changes its row only, and leaves it in the same state or over.
LEMMA SessionMoves ==
  ASSUME MigrationInv, NEW m \in Moves, NEW d \in SessionRecords, session' = [session EXCEPT ![m] = d],
         UNCHANGED <<journey, grants, call, writer, data, busy, copies, reached, leaky>>,
         session[m].state # "none", d.state # "none", d.state \in Over \/ d.state = session[m].state,
         session'[m] = d => CallFits(m)' /\ Sealed(m)'
  PROVE  MigrationInv'
<1>1. MoveTypes /\ OneMigration /\ Unopened(m)
  BY Zenon DEF MigrationInv
<1>2. session' \in [Moves -> SessionRecords] /\ session'[m] = d /\ \A n \in Moves \ {m} : session'[n] = session[n]
  BY <1>1, Zenon DEF MoveTypes
<1>3. MoveTypes'
  BY <1>1, <1>2, Zenon DEF MoveTypes
<1>4. OneMigration'
  BY <1>1, <1>2, Zenon DEF OneMigration, Active
<1>5. Unopened(m)'
  BY <1>1, <1>2, Zenon DEF Unopened
<1>6. ASSUME NEW n \in Moves, n # m PROVE Unopened(n)' /\ CallFits(n)' /\ Sealed(n)'
  <2>1. MoveSame(n)
    BY <1>2, <1>6, Zenon DEF MoveSame
  <2> QED  BY <2>1, MoveStands, Zenon
<1> QED  BY <1>2, <1>3, <1>4, <1>5, <1>6, Zenon DEF MigrationInv

LEMMA SessionStep ==
  ASSUME MigrationInv, NEW m \in Moves, SessionLapses(m) \/ RollbackMigration(m)
  PROVE  MigrationInv'
<1>1. MoveTypes /\ Unopened(m) /\ CallFits(m) /\ Sealed(m) /\ session[m] \in SessionRecords
  BY Zenon DEF MigrationInv, MoveTypes
<1>2. CASE SessionLapses(m)
  <2> DEFINE d == [session[m] EXCEPT !.lapsed = TRUE]
  <2>1. /\ session' = [session EXCEPT ![m].lapsed = TRUE] /\ session[m].state # "none"
        /\ UNCHANGED <<journey, grants, call, writer, data, busy, copies, reached, leaky>>
    BY <1>2, Zenon DEF SessionLapses
  <2>2. session' = [session EXCEPT ![m] = d]
    BY <2>1, ZenonT(30)
  <2>3. d \in SessionRecords /\ d.lapsed /\ d.state = session[m].state
    BY <1>1, Zenon DEF SessionRecords
  <2> HIDE DEF d
  <2>4. ASSUME session'[m] = d PROVE CallFits(m)' /\ Sealed(m)'
    BY <1>1, <2>1, <2>3, <2>4, Zenon DEF CallFits, Sealed
  <2> QED  BY <2>1, <2>2, <2>3, <2>4, SessionMoves, Zenon
<1>3. CASE RollbackMigration(m)
  <2> DEFINE o == call[m].op # "none"
             d == [session[m] EXCEPT !.state = "rolled-back", !.frozen = FALSE, !.overtaken = o]
  <2>1. /\ session' = [session EXCEPT ![m].state = "rolled-back", ![m].frozen = FALSE, ![m].overtaken = o]
        /\ call[m].op # "commit"
        /\ UNCHANGED <<journey, grants, call, writer, data, busy, copies, reached, leaky>>
    BY <1>3, Zenon DEF RollbackMigration, AuthenticateCommunityMigrationSession
  <2>2. o \in BOOLEAN /\ (o <=> call[m].op # "none")
    BY Zenon
  <2>3. session[m].state # "none"
    BY <1>3, Zenon DEF RollbackMigration, AuthenticateCommunityMigrationSession
  <2> HIDE DEF o
  <2>4. session' = [session EXCEPT ![m] = d]
    BY <2>1, ZenonT(30)
  <2>5. "rolled-back" \in MoveStates
    BY Zenon DEF MoveStates, Over
  <2>6. d \in SessionRecords /\ d.state = "rolled-back" /\ d.overtaken = o
    BY <1>1, <2>2, <2>5, Zenon DEF SessionRecords
  <2> HIDE DEF d
  <2>7. ASSUME session'[m] = d PROVE CallFits(m)' /\ Sealed(m)'
    <3>1. CallFits(m)'
      BY <1>1, <2>1, <2>2, <2>6, <2>7, Zenon DEF CallFits
    <3>2. Sealed(m)'
      BY <2>6, <2>7, Zenon DEF Sealed
    <3> QED  BY <3>1, <3>2
  <2>8. d.state # "none" /\ d.state \in Over
    BY <2>6, Zenon DEF Over
  <2> QED  BY <2>1, <2>3, <2>4, <2>6, <2>7, <2>8, SessionMoves, Zenon
<1> QED  BY <1>2, <1>3

LEMMA SessionsListed ==
  ASSUME MigrationInv, ListSessions
  PROVE  MigrationInv'
<1>1. MoveTypes /\ OneMigration
  BY Zenon DEF MigrationInv
<1>2. session' = Reconciled /\ UNCHANGED <<journey, grants, call, writer, data, busy, copies, reached, leaky>>
  BY Zenon DEF ListSessions
<1>3. \A n \in Moves : /\ Reconciled[n] \in SessionRecords
                       /\ Reconciled[n] = session[n] \/ Reconciled[n].state = "expired"
  BY <1>1, ReconciledFacts, Zenon DEF MoveTypes
<1>4. session' \in [Moves -> SessionRecords]
  BY <1>2, <1>3, Zenon DEF Reconciled
<1> HIDE DEF Reconciled
<1>5. MoveTypes'
  BY <1>1, <1>2, <1>4, Zenon DEF MoveTypes
<1>6. OneMigration'
  <2>1. \A n \in Moves : Active(n)' => Active(n)
    BY <1>2, <1>3, Zenon DEF Active, Over
  <2> QED  BY <1>1, <2>1, Zenon DEF OneMigration
<1>7. ASSUME NEW n \in Moves PROVE Unopened(n)' /\ CallFits(n)' /\ Sealed(n)'
  BY <1>2, MoveReconciles, Zenon
<1> QED  BY <1>5, <1>6, <1>7, Zenon DEF MigrationInv

LEMMA PermitsAre ==
  /\ Permits["freeze"] = {"prechecking", "frozen"} /\ Permits["backup"] = {"frozen", "backed-up"}
  /\ Permits["commit"] = {"handover"} /\ Permits["batch"] = {"backed-up", "exporting"}
  /\ Permits["handover"] = {"backed-up", "exporting"}
BY DEF Permits

LEMMA CallBegins ==
  ASSUME MigrationInv, NEW m \in Moves, NEW op \in Calls, Begin(m, op)
  PROVE  MigrationInv'
<1> DEFINE t == IF op = "handover" THEN Sites ELSE {}
           d == [op |-> op, at |-> 1, saw |-> session[m].state, todo |-> t]
<1>1. MoveTypes /\ Unopened(m) /\ CallFits(m) /\ Sealed(m) /\ session[m] \in SessionRecords
  BY Zenon DEF MigrationInv, MoveTypes
<1>2. /\ call' = [call EXCEPT ![m] = d] /\ session[m].state # "none" /\ session[m].state \in Permits[op]
      /\ UNCHANGED <<journey, grants, session, writer, data, busy, copies, reached, leaky>>
  BY Zenon DEF Begin, AuthenticateCommunityMigrationSession
<1>3. t \in SUBSET Sites /\ (op = "handover" => t = Sites)
  BY Zenon
<1>4. 1 \in 0..2 /\ 1 # 2
  BY SMT
<1>5. session[m].state \in MoveStates
  BY <1>1, Zenon DEF SessionRecords
<1> HIDE DEF t
<1>6. d \in CallRecords /\ d.op = op /\ d.at # 2 /\ d.todo = t
  BY <1>3, <1>4, <1>5, Zenon DEF CallRecords
<1>7. op = "commit" => session[m].state = "handover"
  BY <1>2, PermitsAre, Zenon
<1> HIDE DEF d
<1>8. ASSUME call'[m] = d PROVE CallFits(m)' /\ Sealed(m)'
  <2>1. CallFits(m)'
    BY <1>1, <1>2, <1>3, <1>6, <1>7, <1>8, Zenon DEF CallFits
  <2>2. Sealed(m)'
    BY <1>1, <1>2, Zenon DEF Sealed
  <2> QED  BY <2>1, <2>2
<1> QED  BY <1>1, <1>2, <1>6, <1>8, CallMoves, Zenon DEF MoveTypes

LEMMA CallGoesOn ==
  ASSUME MigrationInv, NEW m \in Moves,
         ListActive(m) \/ StoreBackup(m) \/ ReadBatch(m) \/ \E k \in Sites : SendPrepare(m, k)
  PROVE  MigrationInv'
<1>1. /\ MoveTypes /\ Unopened(m) /\ CallFits(m) /\ Sealed(m) /\ session[m] \in SessionRecords /\ call[m] \in CallRecords
      /\ copies[m] \in CopyRecords
  BY Zenon DEF MigrationInv, MoveTypes
<1>2. call[m].op # "none" /\ session[m].state # "none" /\ 2 \in 0..2
  <2>1. call[m].op # "none"
    BY Zenon DEF ListActive, StoreBackup, ReadBatch, SendPrepare
  <2>2. 2 \in 0..2
    BY SMT
  <2> QED  BY <1>1, <2>1, <2>2, Zenon DEF Unopened
<1> DEFINE two == [call[m] EXCEPT !.at = 2]
<1>3. two \in CallRecords /\ two.op = call[m].op /\ two.todo = call[m].todo /\ two.at = 2
  BY <1>1, <1>2, Zenon DEF CallRecords
<1>4. ASSUME Finish(m), UNCHANGED <<journey, grants, session, writer, data, busy, copies, reached, leaky>>
      PROVE  MigrationInv'
  <2>1. call' = [call EXCEPT ![m] = Resting] /\ Resting \in CallRecords /\ Resting.op = "none"
    BY <1>4, RestingIsCall, Zenon DEF Finish
  <2> HIDE DEF Resting
  <2>2. ASSUME call'[m] = Resting PROVE CallFits(m)' /\ Sealed(m)'
    BY <1>1, <1>4, <2>1, <2>2, Zenon DEF CallFits, Sealed
  <2> QED  BY <1>1, <1>2, <1>4, <2>1, <2>2, CallMoves, Zenon DEF MoveTypes
<1>5. ASSUME call' = [call EXCEPT ![m].at = 2] PROVE call' = [call EXCEPT ![m] = two]
  BY <1>5, ZenonT(30)
<1> HIDE DEF two
<1>6. CASE ListActive(m)
  <2>1. CASE busy
    BY <1>4, <1>6, <2>1, Zenon DEF ListActive
  <2>2. CASE ~busy
    <3>1. /\ call' = [call EXCEPT ![m] = two] /\ call[m].op = "freeze"
          /\ UNCHANGED <<journey, grants, session, writer, data, busy, copies, reached, leaky>>
      BY <1>5, <1>6, <2>2, Zenon DEF ListActive
    <3>2. ASSUME call'[m] = two PROVE CallFits(m)' /\ Sealed(m)'
      BY <1>1, <1>3, <2>2, <3>1, <3>2, Zenon DEF CallFits, Sealed
    <3> QED  BY <1>1, <1>2, <1>3, <3>1, <3>2, CallMoves, Zenon DEF MoveTypes
  <2> QED  BY <2>1, <2>2
<1>7. CASE StoreBackup(m)
  <2> DEFINE b == IF copies[m].backup = {} THEN {data} ELSE copies[m].backup
             c == [copies[m] EXCEPT !.backup = b]
  <2>1. /\ call' = [call EXCEPT ![m] = two] /\ call[m].op = "backup"
        /\ UNCHANGED <<journey, grants, session, writer, data, busy, reached, leaky>>
    BY <1>5, <1>7, Zenon DEF StoreBackup
  <2>2. copies' = [copies EXCEPT ![m].backup = b]
    BY <1>7, Zenon DEF StoreBackup
  <2>3. b \in SUBSET Nat /\ b # {} /\ (copies[m].backup \subseteq {data} => b \subseteq {data})
    BY <1>1, Zenon DEF CopyRecords, MoveTypes
  <2> HIDE DEF b
  <2>4. copies' = [copies EXCEPT ![m] = c]
    BY <2>2, ZenonT(30)
  <2>5. c \in CopyRecords /\ c.backup = b /\ c.export = copies[m].export
    BY <1>1, <2>3, Zenon DEF CopyRecords
  <2> HIDE DEF c
  <2>6. copies' \in [Moves -> CopyRecords] /\ copies'[m] = c /\ \A n \in Moves \ {m} : copies'[n] = copies[n]
    BY <1>1, <2>4, <2>5, Zenon DEF MoveTypes
  <2>7. ~session[m].lapsed /\ ~session[m].overtaken => session[m].state \in {"frozen", "backed-up"}
    BY <1>1, <2>1, PermitsAre, Zenon DEF CallFits
  <2>8. ASSUME call'[m] = two PROVE CallFits(m)' /\ Sealed(m)'
    <3>1. CallFits(m)'
      BY <1>1, <1>3, <2>1, <2>3, <2>5, <2>6, <2>8, Zenon DEF CallFits
    <3>2. Sealed(m)'
      BY <1>1, <2>1, <2>3, <2>5, <2>6, <2>7, Zenon DEF Sealed
    <3> QED  BY <3>1, <3>2
  <2> QED  BY <1>1, <1>2, <1>3, <2>1, <2>6, <2>8, CallMoves, Zenon DEF MoveTypes
<1>8. CASE ReadBatch(m)
  <2> DEFINE e == copies[m].export \cup {data}
             c == [copies[m] EXCEPT !.export = e]
  <2>1. /\ call' = [call EXCEPT ![m] = two] /\ call[m].op = "batch"
        /\ UNCHANGED <<journey, grants, session, writer, data, busy, reached, leaky>>
    BY <1>5, <1>8, Zenon DEF ReadBatch
  <2>2. copies' = [copies EXCEPT ![m].export = e]
    BY <1>8, Zenon DEF ReadBatch
  <2>3. e \in SUBSET Nat /\ (copies[m].export \subseteq {data} => e \subseteq {data})
    BY <1>1, Zenon DEF CopyRecords, MoveTypes
  <2> HIDE DEF e
  <2>4. copies' = [copies EXCEPT ![m] = c]
    BY <2>2, ZenonT(30)
  <2>5. c \in CopyRecords /\ c.export = e /\ c.backup = copies[m].backup
    BY <1>1, <2>3, Zenon DEF CopyRecords
  <2> HIDE DEF c
  <2>6. copies' \in [Moves -> CopyRecords] /\ copies'[m] = c /\ \A n \in Moves \ {m} : copies'[n] = copies[n]
    BY <1>1, <2>4, <2>5, Zenon DEF MoveTypes
  <2>7. ~session[m].lapsed /\ ~session[m].overtaken => session[m].state \in {"backed-up", "exporting"}
    BY <1>1, <2>1, PermitsAre, Zenon DEF CallFits
  <2>8. ASSUME call'[m] = two PROVE CallFits(m)' /\ Sealed(m)'
    <3>1. CallFits(m)'
      BY <1>1, <1>3, <2>1, <2>3, <2>5, <2>6, <2>8, Zenon DEF CallFits
    <3>2. Sealed(m)'
      BY <1>1, <2>1, <2>3, <2>5, <2>6, <2>7, Zenon DEF Sealed
    <3> QED  BY <3>1, <3>2
  <2> QED  BY <1>1, <1>2, <1>3, <2>1, <2>6, <2>8, CallMoves, Zenon DEF MoveTypes
<1>9. ASSUME NEW k \in Sites, SendPrepare(m, k) PROVE MigrationInv'
  <2>1. CASE Finish(m) /\ UNCHANGED reached
    BY <1>4, <1>9, <2>1, Zenon DEF SendPrepare
  <2>2. CASE reached' = [reached EXCEPT ![m] = reached[m] \cup {k}] /\ call' = [call EXCEPT ![m].todo = call[m].todo \ {k}]
    <3> DEFINE t == call[m].todo \ {k}
               d == [call[m] EXCEPT !.todo = t]
    <3>1. call[m].op = "handover" /\ UNCHANGED <<journey, grants, session, writer, data, busy, copies, leaky>>
      BY <1>9, Zenon DEF SendPrepare
    <3>2. t \in SUBSET Sites
      BY <1>1, Zenon DEF CallRecords
    <3>3. Sites \subseteq t \cup (reached[m] \cup {k})
      BY <1>1, <3>1, Zenon DEF CallFits
    <3> HIDE DEF t
    <3>4. call' = [call EXCEPT ![m] = d]
      BY <2>2, ZenonT(30) DEF t
    <3>5. d \in CallRecords /\ d.op = "handover" /\ d.todo = t
      BY <1>1, <3>1, <3>2, Zenon DEF CallRecords
    <3> HIDE DEF d
    <3>6. /\ reached' \in [Moves -> SUBSET Sites] /\ reached'[m] = reached[m] \cup {k}
          /\ \A n \in Moves \ {m} : reached'[n] = reached[n]
      BY <1>1, <2>2, Zenon DEF MoveTypes
    <3>7. reached[m] = Sites => reached'[m] = Sites
      BY <3>6, Zenon
    <3>8. ASSUME call'[m] = d PROVE CallFits(m)' /\ Sealed(m)'
      <4>1. CallFits(m)'
        BY <1>1, <3>1, <3>3, <3>5, <3>6, <3>7, <3>8, Zenon DEF CallFits
      <4>2. Sealed(m)'
        BY <1>1, <3>1, Zenon DEF Sealed
      <4> QED  BY <4>1, <4>2
    <3> QED  BY <1>1, <1>2, <3>1, <3>4, <3>5, <3>6, <3>8, CallMoves, Zenon DEF MoveTypes
  <2> QED  BY <1>9, <2>1, <2>2, Zenon DEF SendPrepare
<1> QED  BY <1>6, <1>7, <1>8, <1>9, Zenon

LEMMA CallDone ==
  ASSUME MigrationInv, NEW m \in Moves,
         Freeze(m) \/ BackedUp(m) \/ Exporting(m) \/ HandedOver(m) \/ CommitMigration(m)
  PROVE  MigrationInv'
<1>1. MoveTypes /\ Unopened(m) /\ CallFits(m) /\ Sealed(m)
  BY Zenon DEF MigrationInv
<1>2. leaky \in BOOLEAN
  BY <1>1, Zenon DEF MoveTypes
<1>3. CASE Freeze(m)
  <2>1. /\ call[m].op = "freeze" /\ call[m].at = 2 /\ Finish(m) /\ UpdateCommunityMigrationState(m, "frozen", TRUE)
        /\ leaky' = (leaky \/ writer # "idle") /\ UNCHANGED <<journey, grants, writer, data, busy, copies, reached>>
    BY <1>3, Zenon DEF Freeze
  <2>2. leaky' \in BOOLEAN /\ (leaky => leaky') /\ (~leaky' => writer = "idle" /\ ~leaky)
    BY <1>2, <2>1, Zenon
  <2>3. ~session[m].lapsed /\ ~session[m].overtaken => session[m].state \in {"prechecking", "frozen"}
    BY <1>1, <2>1, PermitsAre, Zenon DEF CallFits
  <2>4. ~session[m].lapsed /\ ~session[m].overtaken /\ ~leaky' =>
          writer = "idle" /\ ~busy /\ copies[m].backup \subseteq {data} /\ copies[m].export \subseteq {data}
    BY <1>1, <2>1, <2>2, <2>3, Zenon DEF CallFits, Sealed
  <2> QED  BY <2>1, <2>2, <2>4, CallEnds, Zenon
<1>4. CASE BackedUp(m)
  <2>1. /\ call[m].op = "backup" /\ call[m].at = 2 /\ Finish(m) /\ UpdateCommunityMigrationState(m, "backed-up", TRUE)
        /\ UNCHANGED <<journey, grants, writer, data, busy, copies, reached, leaky>>
    BY <1>4, Zenon DEF BackedUp
  <2>2. ~session[m].lapsed /\ ~session[m].overtaken => session[m].state \in {"frozen", "backed-up"}
    BY <1>1, <2>1, PermitsAre, Zenon DEF CallFits
  <2>3. ~session[m].lapsed /\ ~session[m].overtaken /\ ~leaky' =>
          /\ writer = "idle" /\ ~busy /\ copies[m].backup \subseteq {data} /\ copies[m].export \subseteq {data}
          /\ copies[m].backup # {}
    BY <1>1, <2>1, <2>2, Zenon DEF CallFits, Sealed
  <2> QED  BY <1>2, <2>1, <2>3, CallEnds, Zenon
<1>5. CASE Exporting(m)
  <2>1. /\ call[m].op = "batch" /\ Finish(m)
        /\ UpdateCommunityMigrationState(m, "exporting", TRUE) \/ UNCHANGED session
        /\ UNCHANGED <<journey, grants, writer, data, busy, copies, reached, leaky>>
    BY <1>5, Zenon DEF Exporting
  <2>2. ~session[m].lapsed /\ ~session[m].overtaken => session[m].state \in {"backed-up", "exporting"}
    BY <1>1, <2>1, PermitsAre, Zenon DEF CallFits
  <2>3. ~session[m].lapsed /\ ~session[m].overtaken /\ ~leaky' =>
          /\ writer = "idle" /\ ~busy /\ copies[m].backup \subseteq {data} /\ copies[m].export \subseteq {data}
          /\ copies[m].backup # {}
    BY <1>1, <2>1, <2>2, Zenon DEF Sealed
  <2> QED  BY <1>2, <2>1, <2>3, CallEnds, Zenon
<1>6. CASE HandedOver(m)
  <2>1. /\ call[m].op = "handover" /\ call[m].todo = {} /\ Finish(m) /\ UpdateCommunityMigrationState(m, "handover", TRUE)
        /\ UNCHANGED <<journey, grants, writer, data, busy, copies, reached, leaky>>
    BY <1>6, Zenon DEF HandedOver
  <2>2. ~session[m].lapsed /\ ~session[m].overtaken => session[m].state \in {"backed-up", "exporting"}
    BY <1>1, <2>1, PermitsAre, Zenon DEF CallFits
  <2>3. ~session[m].lapsed /\ ~session[m].overtaken /\ ~leaky' =>
          /\ writer = "idle" /\ ~busy /\ copies[m].backup \subseteq {data} /\ copies[m].export \subseteq {data}
          /\ copies[m].backup # {}
    BY <1>1, <2>1, <2>2, Zenon DEF Sealed
  <2>4. reached[m] = Sites
    <3>1. reached[m] \in SUBSET Sites /\ Sites \subseteq call[m].todo \cup reached[m]
      BY <1>1, <2>1, Zenon DEF MoveTypes, CallFits
    <3> QED  BY <2>1, <3>1, Zenon
  <2> QED  BY <1>2, <2>1, <2>3, <2>4, CallEnds, Zenon
<1>7. CASE CommitMigration(m)
  <2>1. /\ call[m].op = "commit" /\ Finish(m) /\ UpdateCommunityMigrationState(m, "committed", TRUE)
        /\ UNCHANGED <<journey, grants, writer, data, busy, copies, reached, leaky>>
    BY <1>7, Zenon DEF CommitMigration
  <2>2. reached[m] = Sites
    BY <1>1, <2>1, Zenon DEF CallFits
  <2> QED  BY <1>2, <2>1, <2>2, CallEnds, Zenon
<1> QED  BY <1>3, <1>4, <1>5, <1>6, <1>7, Zenon

\* The business of the source goes on only where no freeze is in force.
LEMMA BusinessGoesOn ==
  ASSUME MigrationInv, withPlatformAuth \/ runSchedulerTickLocked \/ Write \/ TaskEnds
  PROVE  MigrationInv'
<1>1. MoveTypes /\ OneMigration /\ UNCHANGED <<grants, session, call, copies, reached>>
  BY Zenon DEF MigrationInv, withPlatformAuth, runSchedulerTickLocked, Write, TaskEnds
<1>2. OneMigration'
  BY <1>1, Zenon DEF OneMigration, Active
<1>3. ASSUME NEW m \in Moves PROVE Unopened(m)'
  <2>1. Unopened(m)
    BY Zenon DEF MigrationInv
  <2> QED  BY <1>1, <2>1, Zenon DEF Unopened
<1>4. MoveTypes'
  <2>1. journey' \in JourneyRecords
    <3>1. CASE withPlatformAuth \/ runSchedulerTickLocked
      <4> DEFINE w == journey.writes - 1
      <4>1. journey' = [journey EXCEPT !.writes = w] /\ journey.writes > 0
        BY <3>1, Zenon DEF withPlatformAuth, runSchedulerTickLocked
      <4>2. journey \in JourneyRecords /\ journey.writes \in Nat
        BY <1>1, Zenon DEF MoveTypes, JourneyRecords
      <4>3. w \in Nat
        BY <4>1, <4>2, SMT
      <4> HIDE DEF w
      <4> QED  BY <4>1, <4>2, <4>3, Zenon DEF JourneyRecords
    <3>2. CASE Write \/ TaskEnds
      BY <1>1, <3>2, Zenon DEF MoveTypes, Write, TaskEnds
    <3> QED  BY <3>1, <3>2, Zenon
  <2>2. data' \in Nat
    <3>1. data \in Nat /\ (data' = data \/ data' = data + 1)
      BY <1>1, Zenon DEF MoveTypes, withPlatformAuth, runSchedulerTickLocked, Write, TaskEnds
    <3> QED  BY <3>1, SMT
  <2>3. busy' \in BOOLEAN /\ leaky' \in BOOLEAN /\ writer' \in {"idle", "request", "tick"}
    <3>1. CASE withPlatformAuth \/ runSchedulerTickLocked
      BY <1>1, <3>1, Zenon DEF MoveTypes, withPlatformAuth, runSchedulerTickLocked
    <3>2. CASE TaskEnds
      BY <1>1, <3>2, Zenon DEF MoveTypes, TaskEnds
    <3>3. CASE Write
      <4>1. busy \in BOOLEAN /\ leaky \in BOOLEAN
        BY <1>1, Zenon DEF MoveTypes
      <4>2. busy' \in {TRUE} \/ busy' \in {busy, TRUE}
        BY <3>3, Zenon DEF Write
      <4>3. leaky' \in BOOLEAN /\ writer' = "idle"
        BY <3>3, <4>1, Zenon DEF Write
      <4> QED  BY <4>1, <4>2, <4>3, Zenon
    <3> QED  BY <3>1, <3>2, <3>3, Zenon
  <2> QED  BY <1>1, <2>1, <2>2, <2>3, Zenon DEF MoveTypes
<1>5. leaky => leaky'
  BY Zenon DEF withPlatformAuth, runSchedulerTickLocked, Write, TaskEnds
<1>6. ASSUME NEW m \in Moves PROVE CallFits(m)'
  <2>1. CallFits(m)
    BY Zenon DEF MigrationInv
  <2>2. call[m].op = "freeze" /\ call[m].at = 2 /\ ~leaky' => ~busy'
    <3>1. CASE withPlatformAuth \/ runSchedulerTickLocked
      BY <2>1, <3>1, Zenon DEF CallFits, withPlatformAuth, runSchedulerTickLocked
    <3>2. CASE TaskEnds
      BY <3>2, Zenon DEF TaskEnds
    <3>3. CASE Write
      BY <3>3, Zenon DEF Write
    <3> QED  BY <3>1, <3>2, <3>3, Zenon
  <2> QED  BY <1>1, <2>1, <2>2, Zenon DEF CallFits
<1>7. ASSUME NEW m \in Moves PROVE Sealed(m)'
  <2>1. Sealed(m)
    BY Zenon DEF MigrationInv
  <2> SUFFICES ASSUME ~session[m].lapsed, ~session[m].overtaken, ~leaky'
               PROVE  /\ session[m].state = "prechecking" => copies[m].backup = {} /\ copies[m].export = {}
                      /\ ~(session[m].state \in {"frozen", "backed-up", "exporting", "handover"})
    BY <1>1, Zenon DEF Sealed
  <2>2. session[m].state = "prechecking" => copies[m].backup = {} /\ copies[m].export = {}
    BY <1>5, <2>1, Zenon DEF Sealed
  <2>3. ASSUME session[m].state \in {"frozen", "backed-up", "exporting", "handover"} PROVE FALSE
    <3>1. session[m].frozen /\ writer = "idle" /\ ~busy
      BY <1>5, <2>1, <2>3, Zenon DEF Sealed
    <3>2. HasCommunityMigrationFreeze
      <4>1. Active(m)
        BY <2>3, Zenon DEF Active, Over
      <4> QED  BY <3>1, <4>1, Zenon DEF HasCommunityMigrationFreeze
    <3> QED  BY <3>1, <3>2, Zenon DEF withPlatformAuth, runSchedulerTickLocked, Write, TaskEnds
  <2> QED  BY <2>2, <2>3, Zenon
<1> QED  BY <1>2, <1>3, <1>4, <1>6, <1>7, Zenon DEF MigrationInv

LEMMA MigrationStep ==
  ASSUME MigrationInv, [MigrationNext]_moveVars
  PROVE  MigrationInv'
<1>1. ASSUME NEW m \in Moves, MoveStep(m) PROVE MigrationInv'
  <2>1. CASE CountSessions(m)
    BY <2>1, GrantMoves, Zenon DEF CountSessions
  <2>2. CASE GrantLapses(m)
    BY <2>2, GrantMoves, Zenon DEF GrantLapses
  <2> QED  BY <1>1, <2>1, <2>2, SessionOpens, SessionStep, CallBegins, CallGoesOn, CallDone, Zenon DEF MoveStep
<1>2. CASE UNCHANGED moveVars
  <2>1. UNCHANGED <<journey, grants, session, call, writer, data, busy, copies, reached, leaky>>
    BY <1>2, Zenon DEF moveVars
  <2>2. MoveTypes' /\ OneMigration'
    BY <2>1, Zenon DEF MigrationInv, MoveTypes, OneMigration, Active
  <2>3. ASSUME NEW n \in Moves PROVE Unopened(n)' /\ CallFits(n)' /\ Sealed(n)'
    BY <2>1, MoveStands, Zenon DEF MoveSame
  <2> QED  BY <2>2, <2>3, Zenon DEF MigrationInv
<1> QED  BY <1>1, <1>2, SessionsListed, BusinessGoesOn, Zenon DEF MigrationNext

LEMMA MigrationBegins == MigrationInit => MigrationInv
<1> SUFFICES ASSUME MigrationInit PROVE MigrationInv
  OBVIOUS
<1> DEFINE s0 == [state |-> "none", frozen |-> FALSE, lapsed |-> FALSE, overtaken |-> FALSE]
           c0 == [backup |-> {}, export |-> {}]
<1>1. /\ s0 \in SessionRecords /\ s0.state = "none" /\ ~s0.lapsed /\ ~s0.overtaken
      /\ c0 \in CopyRecords /\ c0.backup = {} /\ c0.export = {}
  <2>1. "none" \in MoveStates
    BY Zenon DEF MoveStates
  <2> QED  BY <2>1, Zenon DEF SessionRecords, CopyRecords
<1>2. /\ session = [m \in Moves |-> s0] /\ copies = [m \in Moves |-> c0] /\ call = [m \in Moves |-> Resting]
      /\ reached = [m \in Moves |-> {}] /\ writer = "idle" /\ data = 0 /\ busy = FALSE /\ leaky = FALSE
  BY Zenon DEF MigrationInit
<1> HIDE DEF s0, c0, Resting
<1>3. \A m \in Moves : /\ session[m] = s0 /\ copies[m] = c0 /\ call[m] = Resting
  BY <1>2, Zenon
<1>4. MoveTypes
  <2>1. journey \in JourneyRecords
    BY JourneyAssumption, Zenon DEF MigrationInit, JourneyRecords
  <2>2. grants \in [Moves -> {"fresh", "counted", "used", "expired"}]
    BY Zenon DEF MigrationInit
  <2>3. data \in Nat
    BY <1>2, SMT
  <2> QED  BY <1>1, <1>2, <2>1, <2>2, <2>3, RestingIsCall, Zenon DEF MoveTypes
<1>5. ASSUME NEW m \in Moves PROVE Unopened(m) /\ CallFits(m) /\ Sealed(m) /\ ~Active(m)
  <2>1. /\ session[m].state = "none" /\ ~session[m].lapsed /\ ~session[m].overtaken /\ call[m].op = "none"
        /\ copies[m].backup = {} /\ copies[m].export = {}
    BY <1>1, <1>3, RestingIsCall, Zenon
  <2> QED  BY <2>1, Zenon DEF Unopened, CallFits, Sealed, Active
<1> QED  BY <1>4, <1>5, Zenon DEF MigrationInv, OneMigration

\* Two sessions are never both unfinished, what the target exports is the version the source
\* holds, and a commit covers every cluster, for every number of authorizations and clusters:
\* the handlers of community_migration.go read the session and write its state in
\* separate statements.
THEOREM MigrationsAreSafe == MigrationSpec => []MigrationSafety
<1>1. MigrationInit => MigrationInv
  BY MigrationBegins
<1>2. MigrationInv /\ [MigrationNext]_moveVars => MigrationInv'
  BY MigrationStep
<1>3. MigrationInv => MigrationSafety
  BY MigrationInvSuffices
<1> QED  BY <1>1, <1>2, <1>3, PTL DEF MigrationSpec

-----------------------------------------------------------------------------
(* The admission of tasks *)

TaskTypes == {"backup", "drill", "restore", "retention-cleanup"}
RowRecords == [type : TaskTypes, app : Apps, point : Points \cup {"none"}, slot : Nat,
               status : {"active", "succeeded", "failed"}]
RequestRecords == [at : {"idle", "ready", "claim", "create", "done"}, type : TaskTypes \cup {"none"},
                   app : Apps, point : Points \cup {"none"}]
AdmissionRecords == [want : [Requesters -> Kinds], slots : Nat, faults : Nat, changes : Nat]
ScheduleRecords == [enabled : BOOLEAN, due : BOOLEAN, slot : Nat]

AdmissionTypes ==
  /\ admission \in AdmissionRecords /\ plan \in {"active", "inactive", "cleanup_running", "removed"}
  /\ point \in [Points -> {"available", "pending_delete", "deleting", "deleted"}]
  /\ row \in Seq(RowRecords) /\ latest \in [sync : Nat, recovery : Nat]
  /\ request \in [Requesters -> RequestRecords] /\ schedule \in ScheduleRecords
  /\ firing \in [Instances -> {"idle", "read", "create", "mark"}]
  /\ holder \in Instances \cup {0} /\ unmarked \in SUBSET Nat

OfPoint == Recoveries \cup {"retention-cleanup"}

\* A request that is about to create has decided what, and a deletion has its point.
RequestFits(r) ==
  /\ request[r].at = "create" => request[r].type # "none"
  /\ request[r].at = "create" /\ request[r].type \in OfPoint => request[r].point \in Points
  /\ request[r].at = "claim" => request[r].type = "retention-cleanup" /\ request[r].point \in Points

\* A claim is somebody's until its task is created, and the deletion is its task's until it ends.
Claims(r) == request[r].at = "create" /\ request[r].type = "retention-cleanup"
Cleans(k) == row[k].type = "retention-cleanup" /\ isActiveTaskStatus(k)
ClaimIsKept == \A r \in Requesters : Claims(r) => point[request[r].point] = "pending_delete"
ClaimIsOne == \A r, q \in Requesters : Claims(r) /\ Claims(q) /\ request[r].point = request[q].point => r = q
RowsHavePoints == \A k \in DOMAIN row : row[k].type \in OfPoint => row[k].point \in Points
CleaningIsKept == \A k \in DOMAIN row : Cleans(k) => point[row[k].point] = "deleting"
CleaningIsOne == \A j, k \in DOMAIN row : Cleans(j) /\ Cleans(k) /\ row[j].point = row[k].point => j = k
CleaningFits == RowsHavePoints /\ CleaningIsKept /\ CleaningIsOne
ClaimsHold == ClaimIsKept /\ ClaimIsOne /\ CleaningFits

\* Only the holder of the lock is within a tick, of a schedule that is due; and a time that
\* has its row is not due any more, is about to be marked, or lost its mark.
Marking == \E i \in Instances : firing[i] = "mark"
TicksFit ==
  /\ \A i \in Instances : firing[i] # "idle" => holder = i /\ schedule.due
  /\ \A k \in DOMAIN row : row[k].slot <= schedule.slot
  /\ \A k \in DOMAIN row : row[k].slot = schedule.slot /\ row[k].slot \notin unmarked \cup {0} /\ schedule.due => Marking

AdmissionInv ==
  /\ AdmissionTypes /\ (\A r \in Requesters : RequestFits(r)) /\ ClaimsHold /\ TicksFit
  /\ OneSyncPerPlan /\ UseIsExclusive /\ LatestIsNewest /\ FiresOncePerTime

LEMMA AdmissionInvSuffices == AdmissionInv => AdmissionSafety
<1> SUFFICES ASSUME AdmissionInv PROVE AdmissionSafety
  OBVIOUS
<1>1. AdmissionTypeOK
  <2>1. \A r \in Requesters : request[r].at \in {"idle", "ready", "claim", "create", "done"}
    BY Zenon DEF AdmissionInv, AdmissionTypes, RequestRecords
  <2> QED  BY <2>1, Zenon DEF AdmissionInv, AdmissionTypes, AdmissionTypeOK, RowRecords, TaskTypes, ScheduleRecords
<1> QED  BY <1>1, Zenon DEF AdmissionInv, AdmissionSafety

\* What a step keeps that creates and ends no task.
LEMMA RowsStand ==
  ASSUME AdmissionInv, UNCHANGED <<row, latest>>, unmarked \subseteq unmarked',
         \A k \in DOMAIN row : row[k].type \in OfPoint /\ isActiveTaskStatus(k) => point'[row[k].point] = point[row[k].point]
  PROVE  /\ OneSyncPerPlan' /\ UseIsExclusive' /\ LatestIsNewest' /\ FiresOncePerTime'
         /\ CleaningFits'
<1>1. OneSyncPerPlan /\ UseIsExclusive /\ LatestIsNewest /\ FiresOncePerTime /\ ClaimsHold
  BY Zenon DEF AdmissionInv
<1>2. OneSyncPerPlan'
  <2>1. Running({"backup"})' = Running({"backup"})
    BY Zenon DEF Running, isActiveTaskStatus
  <2> QED  BY <1>1, <2>1, Zenon DEF OneSyncPerPlan
<1>3. UseIsExclusive'
  <2>1. \A k : k \in Running(Recoveries) => k \in DOMAIN row /\ row[k].type \in OfPoint /\ isActiveTaskStatus(k)
    BY Zenon DEF Running, OfPoint
  <2>2. Running(Recoveries)' = Running(Recoveries)
    BY Zenon DEF Running, isActiveTaskStatus
  <2> QED  BY <1>1, <2>1, <2>2, Zenon DEF UseIsExclusive
<1>4. LatestIsNewest'
  BY <1>1, Zenon DEF LatestIsNewest
<1>5. FiresOncePerTime'
  BY <1>1, Zenon DEF FiresOncePerTime
<1>6. RowsHavePoints'
  BY <1>1, Zenon DEF ClaimsHold, CleaningFits, RowsHavePoints
<1>7. \A k \in DOMAIN row : Cleans(k)' <=> Cleans(k)
  BY Zenon DEF Cleans, isActiveTaskStatus
<1>8. CleaningIsKept'
  <2>1. \A k \in DOMAIN row : Cleans(k) => row[k].type \in OfPoint /\ isActiveTaskStatus(k)
    BY Zenon DEF Cleans, OfPoint
  <2> QED  BY <1>1, <1>7, <2>1, Zenon DEF ClaimsHold, CleaningFits, CleaningIsKept
<1>9. CleaningIsOne'
  BY <1>1, <1>7, Zenon DEF ClaimsHold, CleaningFits, CleaningIsOne
<1> QED  BY <1>2, <1>3, <1>4, <1>5, <1>6, <1>8, <1>9, Zenon DEF CleaningFits

\* A handler looks and decides; it claims nothing yet.
LEMMA Looked ==
  ASSUME AdmissionInv, Looks, NEW r \in Requesters, NEW d \in RequestRecords,
         request' = [request EXCEPT ![r] = d],
         d.at = "create" => d.type \in {"backup", "drill", "restore"} /\ (d.type \in OfPoint => d.point \in Points),
         d.at = "claim" => d.type = "retention-cleanup" /\ d.point \in Points
  PROVE  AdmissionInv'
<1>1. AdmissionTypes /\ ClaimsHold /\ TicksFit
  BY Zenon DEF AdmissionInv
<1>2. UNCHANGED <<admission, plan, point, row, latest, schedule, firing, holder, unmarked>>
  BY Zenon DEF Looks
<1>3. request' \in [Requesters -> RequestRecords] /\ request'[r] = d /\ \A q \in Requesters \ {r} : request'[q] = request[q]
  BY <1>1, Zenon DEF AdmissionTypes
<1>4. AdmissionTypes'
  BY <1>1, <1>2, <1>3, Zenon DEF AdmissionTypes
<1>5. ASSUME NEW q \in Requesters PROVE RequestFits(q)'
  <2>1. CASE q = r
    BY <1>3, <2>1, Zenon DEF RequestFits
  <2>2. CASE q # r
    <3>1. RequestFits(q) /\ request'[q] = request[q]
      BY <1>3, <2>2, Zenon DEF AdmissionInv
    <3> QED  BY <3>1, Zenon DEF RequestFits
  <2> QED  BY <2>1, <2>2
<1>6. \A q \in Requesters : Claims(q)' => Claims(q) /\ request'[q] = request[q]
  <2> SUFFICES ASSUME NEW q \in Requesters, Claims(q)' PROVE Claims(q) /\ request'[q] = request[q]
    OBVIOUS
  <2>1. q # r
    BY <1>3, Zenon DEF Claims
  <2> QED  BY <1>3, <2>1, Zenon DEF Claims
<1>7. /\ OneSyncPerPlan' /\ UseIsExclusive' /\ LatestIsNewest' /\ FiresOncePerTime'
      /\ CleaningFits'
  BY <1>2, RowsStand, Zenon
<1>8. ClaimsHold'
  <2>1. \A q \in Requesters : Claims(q)' => point'[request'[q].point] = "pending_delete"
    BY <1>1, <1>2, <1>6, Zenon DEF ClaimsHold, ClaimIsKept
  <2>2. ASSUME NEW p \in Requesters, NEW q \in Requesters, Claims(p)', Claims(q)', request'[p].point = request'[q].point
        PROVE  p = q
    <3>1. Claims(p) /\ Claims(q) /\ request[p].point = request[q].point
      BY <1>6, <2>2, Zenon
    <3> QED  BY <1>1, <3>1, Zenon DEF ClaimsHold, ClaimIsOne
  <2>3. ClaimIsKept' /\ ClaimIsOne'
    BY <2>1, <2>2, Zenon DEF ClaimIsKept, ClaimIsOne
  <2> QED  BY <1>7, <2>3, Zenon DEF ClaimsHold
<1>9. TicksFit'
  BY <1>1, <1>2, Zenon DEF TicksFit, Marking
<1> QED  BY <1>4, <1>5, <1>7, <1>8, <1>9, Zenon DEF AdmissionInv

LEMMA Decided ==
  ASSUME AdmissionInv, Looks, NEW r \in Requesters, NEW type \in {"backup", "drill", "restore"}, NEW app \in Apps,
         NEW p \in Points \cup {"none"}, type \in OfPoint => p \in Points,
         \/ request' = [request EXCEPT ![r] = [at |-> "create", type |-> type, app |-> app, point |-> p]]
         \/ request' = [request EXCEPT ![r] = [request[r] EXCEPT !.at = "done"]]
  PROVE  AdmissionInv'
<1> DEFINE c == [at |-> "create", type |-> type, app |-> app, point |-> p]
           e == [request[r] EXCEPT !.at = "done"]
<1>1. type \in TaskTypes \cup {"none"}
  BY Zenon DEF TaskTypes
<1>2. c \in RequestRecords /\ c.at = "create" /\ c.type = type /\ c.point = p
  BY <1>1, Zenon DEF RequestRecords
<1>3. e \in RequestRecords /\ e.at = "done"
  <2>1. request[r] \in RequestRecords
    BY Zenon DEF AdmissionInv, AdmissionTypes
  <2> QED  BY <2>1, Zenon DEF RequestRecords
<1>4. request' = [request EXCEPT ![r] = c] \/ request' = [request EXCEPT ![r] = e]
  BY Zenon
<1> HIDE DEF c, e
<1>5. CASE request' = [request EXCEPT ![r] = c]
  BY <1>2, <1>5, Looked, Zenon
<1>6. CASE request' = [request EXCEPT ![r] = e]
  BY <1>3, <1>6, Looked, Zenon
<1> QED  BY <1>4, <1>5, <1>6

LEMMA HandlerLooks ==
  ASSUME AdmissionInv, NEW r \in Requesters,
         \/ createBackupTask(r) \/ \E app \in Apps : createAppBackupTask(r, app)
         \/ \E p \in Points : deleteRestorePoints(r, p) \/ \E t \in Recoveries : createRecoveryTask(r, t, p)
         \/ \E k \in Rows : retryRecoveryTask(r, k)
  PROVE  AdmissionInv'
<1>1. "a" \in Apps /\ "backup" \notin OfPoint
  BY Zenon DEF Apps, OfPoint, Recoveries
<1>2. CASE createBackupTask(r)
  <2>1. /\ Looks
        /\ \/ request' = [request EXCEPT ![r] = [at |-> "create", type |-> "backup", app |-> "a", point |-> "none"]]
           \/ request' = [request EXCEPT ![r] = [request[r] EXCEPT !.at = "done"]]
    BY <1>2, Zenon DEF createBackupTask, Decide
  <2> QED  BY <1>1, <2>1, Decided, Zenon
<1>3. ASSUME NEW app \in Apps, createAppBackupTask(r, app) PROVE AdmissionInv'
  <2>1. /\ Looks
        /\ \/ request' = [request EXCEPT ![r] = [at |-> "create", type |-> "backup", app |-> app, point |-> "none"]]
           \/ request' = [request EXCEPT ![r] = [request[r] EXCEPT !.at = "done"]]
    BY <1>3, Zenon DEF createAppBackupTask, Decide
  <2> QED  BY <1>1, <2>1, Decided, Zenon
<1>4. ASSUME NEW p \in Points, deleteRestorePoints(r, p) PROVE AdmissionInv'
  <2> DEFINE d == [at |-> "claim", type |-> "retention-cleanup", app |-> "a", point |-> p]
  <2>1. Looks /\ request' = [request EXCEPT ![r] = d]
    BY <1>4, Zenon DEF deleteRestorePoints
  <2>2. "retention-cleanup" \in TaskTypes \cup {"none"}
    BY Zenon DEF TaskTypes
  <2>3. d \in RequestRecords /\ d.at = "claim" /\ d.type = "retention-cleanup" /\ d.point = p
    BY <1>1, <2>2, Zenon DEF RequestRecords
  <2> HIDE DEF d
  <2> QED  BY <2>1, <2>3, Looked, Zenon
<1>5. ASSUME NEW p \in Points, NEW t \in Recoveries, createRecoveryTask(r, t, p) PROVE AdmissionInv'
  <2>1. /\ Looks
        /\ \/ request' = [request EXCEPT ![r] = [at |-> "create", type |-> t, app |-> "a", point |-> p]]
           \/ request' = [request EXCEPT ![r] = [request[r] EXCEPT !.at = "done"]]
    BY <1>5, Zenon DEF createRecoveryTask, Decide
  <2>2. t \in {"backup", "drill", "restore"}
    BY Zenon DEF Recoveries
  <2> QED  BY <1>1, <2>1, <2>2, Decided, Zenon
<1>6. ASSUME NEW k \in Rows, retryRecoveryTask(r, k) PROVE AdmissionInv'
  <2>1. /\ Looks /\ k \in DOMAIN row /\ row[k].type \in Recoveries
        /\ \/ request' = [request EXCEPT ![r] = [at |-> "create", type |-> row[k].type, app |-> row[k].app, point |-> row[k].point]]
           \/ request' = [request EXCEPT ![r] = [request[r] EXCEPT !.at = "done"]]
    BY <1>6, Zenon DEF retryRecoveryTask, Decide
  <2>2. row[k].type \in {"backup", "drill", "restore"} /\ row[k].type \in OfPoint
    BY <2>1, Zenon DEF Recoveries, OfPoint
  <2>3. row[k] \in RowRecords
    <3>1. row \in Seq(RowRecords)
      BY Zenon DEF AdmissionInv, AdmissionTypes
    <3> QED  BY <2>1, <3>1
  <2>4. row[k].app \in Apps /\ row[k].point \in Points
    <3>1. row[k].app \in Apps
      BY <2>3, Zenon DEF RowRecords
    <3>2. row[k].point \in Points
      BY <2>1, <2>2, Zenon DEF AdmissionInv, ClaimsHold, CleaningFits, RowsHavePoints
    <3> QED  BY <3>1, <3>2
  <2> QED  BY <2>1, <2>2, <2>4, Decided, Zenon
<1> QED  BY <1>2, <1>3, <1>4, <1>5, <1>6, Zenon

\* The steps that move only the state of one request.
LEMMA RequestAt ==
  ASSUME request \in [Requesters -> RequestRecords], NEW r \in Requesters, NEW v \in {"create", "done"},
         request' = [request EXCEPT ![r].at = v]
  PROVE  /\ request' \in [Requesters -> RequestRecords] /\ request'[r].at = v
         /\ request'[r].type = request[r].type /\ request'[r].point = request[r].point
         /\ \A q \in Requesters \ {r} : request'[q] = request[q]
<1> DEFINE d == [request[r] EXCEPT !.at = v]
<1>1. d \in RequestRecords /\ d.at = v /\ d.type = request[r].type /\ d.point = request[r].point
  <2>1. request[r] \in RequestRecords
    BY Zenon
  <2> QED  BY <2>1, Zenon DEF RequestRecords
<1>2. request' = [request EXCEPT ![r] = d]
  BY ZenonT(30)
<1> HIDE DEF d
<1> QED  BY <1>1, <1>2, Zenon

LEMMA PointClaimed ==
  ASSUME AdmissionInv, NEW r \in Requesters, ClaimRestorePointDeletion(r)
  PROVE  AdmissionInv'
<1> DEFINE p == request[r].point
           ok == ~pointBusy(p) /\ point[p] = "available"
           v == IF ok THEN "create" ELSE "done"
<1>1. AdmissionTypes /\ RequestFits(r) /\ ClaimsHold /\ TicksFit /\ UseIsExclusive
  BY Zenon DEF AdmissionInv
<1>2. /\ request[r].at = "claim" /\ request' = [request EXCEPT ![r].at = v]
      /\ point' = IF ok THEN [point EXCEPT ![p] = "pending_delete"] ELSE point
      /\ UNCHANGED <<admission, plan, row, latest, schedule, firing, holder, unmarked>>
  BY Zenon DEF ClaimRestorePointDeletion
<1>3. p \in Points /\ request[r].type = "retention-cleanup"
  BY <1>1, <1>2, Zenon DEF RequestFits
<1>4. v \in {"create", "done"} /\ (ok <=> v = "create")
  BY Zenon
<1> HIDE DEF v
<1>5. /\ request' \in [Requesters -> RequestRecords] /\ request'[r].at = v
      /\ request'[r].type = request[r].type /\ request'[r].point = p
      /\ \A q \in Requesters \ {r} : request'[q] = request[q]
  BY <1>1, <1>2, <1>4, RequestAt, Zenon DEF AdmissionTypes
<1>6. /\ point' \in [Points -> {"available", "pending_delete", "deleting", "deleted"}]
      /\ \A q \in Points : point'[q] = point[q] \/ (q = p /\ ok /\ point'[p] = "pending_delete")
      /\ ok => point'[p] = "pending_delete"
  <2>1. point \in [Points -> {"available", "pending_delete", "deleting", "deleted"}]
    BY <1>1, Zenon DEF AdmissionTypes
  <2> QED  BY <1>2, <1>3, <2>1, Zenon
<1>7. AdmissionTypes'
  BY <1>1, <1>2, <1>5, <1>6, Zenon DEF AdmissionTypes
<1>8. ASSUME NEW q \in Requesters PROVE RequestFits(q)'
  <2>1. CASE q = r
    BY <1>3, <1>4, <1>5, <2>1, Zenon DEF RequestFits
  <2>2. CASE q # r
    <3>1. RequestFits(q) /\ request'[q] = request[q]
      BY <1>5, <2>2, Zenon DEF AdmissionInv
    <3> QED  BY <3>1, Zenon DEF RequestFits
  <2> QED  BY <2>1, <2>2
<1>9. \A k \in DOMAIN row : row[k].type \in OfPoint /\ isActiveTaskStatus(k) => point'[row[k].point] = point[row[k].point]
  <2> SUFFICES ASSUME NEW k \in DOMAIN row, row[k].type \in OfPoint, isActiveTaskStatus(k)
               PROVE  point'[row[k].point] = point[row[k].point]
    BY Zenon
  <2>1. row[k].point \in Points
    BY <1>1, Zenon DEF ClaimsHold, CleaningFits, RowsHavePoints
  <2>2. ok => row[k].point # p
    <3>1. CASE row[k].type = "retention-cleanup"
      BY <1>1, <3>1, Zenon DEF ClaimsHold, CleaningFits, CleaningIsKept, Cleans
    <3>2. CASE row[k].type \in Recoveries
      BY <3>2, Zenon DEF pointBusy
    <3> QED  BY <3>1, <3>2, Zenon DEF OfPoint
  <2> QED  BY <1>6, <2>1, <2>2, Zenon
<1>10. /\ OneSyncPerPlan' /\ UseIsExclusive' /\ LatestIsNewest' /\ FiresOncePerTime'
       /\ CleaningFits'
  BY <1>2, <1>9, RowsStand, Zenon
<1>11. \A q \in Requesters : Claims(q)' => \/ q = r /\ ok
                                           \/ q # r /\ Claims(q) /\ request'[q] = request[q]
  BY <1>4, <1>5, Zenon DEF Claims
<1>12. \A q \in Requesters : Claims(q) => request[q].point \in Points /\ point[request[q].point] = "pending_delete"
  <2> SUFFICES ASSUME NEW q \in Requesters, Claims(q)
               PROVE request[q].point \in Points /\ point[request[q].point] = "pending_delete"
    OBVIOUS
  <2>1. RequestFits(q)
    BY Zenon DEF AdmissionInv
  <2> QED  BY <1>1, <2>1, Zenon DEF ClaimsHold, ClaimIsKept, Claims, RequestFits, OfPoint
<1>13. ClaimIsKept'
  <2> SUFFICES ASSUME NEW q \in Requesters, Claims(q)' PROVE point'[request'[q].point] = "pending_delete"
    BY Zenon DEF ClaimIsKept
  <2>1. CASE q = r /\ ok
    BY <1>5, <1>6, <2>1, Zenon
  <2>2. CASE q # r /\ Claims(q) /\ request'[q] = request[q]
    BY <1>6, <1>12, <2>2, Zenon
  <2> QED  BY <1>11, <2>1, <2>2, Zenon
<1>14. ClaimIsOne'
  <2> SUFFICES ASSUME NEW q \in Requesters, NEW s \in Requesters, Claims(q)', Claims(s)',
                      request'[q].point = request'[s].point
               PROVE  q = s
    BY Zenon DEF ClaimIsOne
  <2>1. ASSUME NEW x \in Requesters, x # r, Claims(x), request'[x] = request[x], ok PROVE request'[x].point # p
    BY <1>12, <2>1, Zenon
  <2>2. CASE q # r /\ s # r
    BY <1>1, <1>11, <2>2, Zenon DEF ClaimsHold, ClaimIsOne
  <2>3. CASE q = r /\ s # r
    BY <1>5, <1>11, <2>1, <2>3, Zenon
  <2>4. CASE q # r /\ s = r
    BY <1>5, <1>11, <2>1, <2>4, Zenon
  <2> QED  BY <2>2, <2>3, <2>4, Zenon
<1>15. TicksFit'
  BY <1>1, <1>2, Zenon DEF TicksFit, Marking
<1> QED  BY <1>7, <1>8, <1>10, <1>13, <1>14, <1>15, Zenon DEF AdmissionInv, ClaimsHold

LEMMA Appended ==
  ASSUME row \in Seq(RowRecords), NEW d \in RowRecords, row' = Append(row, d)
  PROVE  /\ row' \in Seq(RowRecords) /\ NextRow \in Nat /\ NextRow \notin DOMAIN row
         /\ DOMAIN row' = DOMAIN row \cup {NextRow} /\ row'[NextRow] = d
         /\ \A k \in DOMAIN row : row'[k] = row[k] /\ k \in Nat /\ k <= NextRow
<1>1. row' \in Seq(RowRecords) /\ Len(row) \in Nat /\ DOMAIN row = 1..Len(row) /\ DOMAIN row' = 1..(Len(row) + 1)
  OBVIOUS
<1>2. row'[Len(row) + 1] = d /\ \A k \in 1..Len(row) : row'[k] = row[k]
  OBVIOUS
<1>3. 1..(Len(row) + 1) = 1..Len(row) \cup {Len(row) + 1}
  BY <1>1, SMT
<1>4. Len(row) + 1 \notin 1..Len(row) /\ Len(row) + 1 \in Nat /\ \A k \in 1..Len(row) : k \in Nat /\ k <= Len(row) + 1
  BY <1>1, SMT
<1> QED  BY <1>1, <1>2, <1>3, <1>4, Zenon DEF NextRow

\* A task that CreateTask admits is the newest, is the only sync if it is one, and has its
\* point to itself.
LEMMA TaskCreated ==
  ASSUME AdmissionInv, NEW type \in TaskTypes, NEW app \in Apps, NEW p \in Points \cup {"none"}, NEW slot \in Nat,
         CreateTask(type, app, p, slot), ~Refused(type, app, p), UNCHANGED <<schedule, unmarked>>,
         type \in OfPoint => p \in Points, type = "retention-cleanup" => point[p] = "pending_delete",
         slot \notin unmarked \cup {0} => \A k \in DOMAIN row : row[k].slot # slot
  PROVE  /\ row' \in Seq(RowRecords) /\ latest' \in [sync : Nat, recovery : Nat]
         /\ point' \in [Points -> {"available", "pending_delete", "deleting", "deleted"}]
         /\ OneSyncPerPlan' /\ UseIsExclusive' /\ LatestIsNewest' /\ FiresOncePerTime' /\ CleaningFits'
         /\ \A k \in DOMAIN row' : (k \in DOMAIN row /\ row'[k] = row[k]) \/ row'[k].slot = slot
         /\ \A q \in Points : point'[q] = point[q] \/ (type = "retention-cleanup" /\ q = p)
<1> DEFINE d == [type |-> type, app |-> app, point |-> p, slot |-> slot, status |-> "active"]
           n == NextRow
<1>1. AdmissionTypes /\ ClaimsHold /\ OneSyncPerPlan /\ UseIsExclusive /\ LatestIsNewest /\ FiresOncePerTime
  BY Zenon DEF AdmissionInv
<1>2. /\ row' = Append(row, d) /\ Publish(type)
      /\ point' = IF type = "retention-cleanup" /\ point[p] # "deleted" THEN [point EXCEPT ![p] = "deleting"] ELSE point
  BY Zenon DEF CreateTask
<1>3. d \in RowRecords /\ d.type = type /\ d.point = p /\ d.slot = slot /\ d.status = "active"
  BY Zenon DEF RowRecords
<1> HIDE DEF d
<1>4. /\ row' \in Seq(RowRecords) /\ n \in Nat /\ n \notin DOMAIN row
      /\ DOMAIN row' = DOMAIN row \cup {n} /\ row'[n] = d
      /\ \A k \in DOMAIN row : row'[k] = row[k] /\ k \in Nat /\ k <= n
  BY <1>1, <1>2, <1>3, Appended, Zenon DEF AdmissionTypes
<1>5. latest' = [latest EXCEPT !.sync = IF type = "backup" THEN n ELSE latest.sync,
                               !.recovery = IF type \in Recoveries THEN n ELSE latest.recovery]
  BY <1>2, Zenon DEF Publish
<1> HIDE DEF n
<1>6. /\ point' \in [Points -> {"available", "pending_delete", "deleting", "deleted"}]
      /\ \A q \in Points : point'[q] = point[q] \/ (type = "retention-cleanup" /\ q = p)
      /\ type = "retention-cleanup" => point'[p] = "deleting"
      /\ type # "retention-cleanup" => point' = point
  <2>1. point \in [Points -> {"available", "pending_delete", "deleting", "deleted"}]
    BY <1>1, Zenon DEF AdmissionTypes
  <2>2. CASE type = "retention-cleanup"
    <3>1. point' = [point EXCEPT ![p] = "deleting"] /\ p \in Points
      BY <1>2, <2>2, Zenon DEF OfPoint
    <3> QED  BY <2>1, <2>2, <3>1, Zenon
  <2>3. CASE type # "retention-cleanup"
    BY <1>2, <2>1, <2>3, Zenon
  <2> QED  BY <2>2, <2>3
<1>7. \A k \in DOMAIN row' : (k \in DOMAIN row /\ row'[k] = row[k]) \/ (k = n /\ row'[k] = d)
  BY <1>4, Zenon
<1>8. OneSyncPerPlan'
  <2> SUFFICES ASSUME NEW j \in DOMAIN row', NEW k \in DOMAIN row', row'[j].type = "backup", row'[k].type = "backup",
                      row'[j].status = "active", row'[k].status = "active"
               PROVE  j = k
    BY Zenon DEF OneSyncPerPlan, Running, isActiveTaskStatus
  <2>1. CASE j \in DOMAIN row /\ row'[j] = row[j] /\ k \in DOMAIN row /\ row'[k] = row[k]
    BY <1>1, <2>1, Zenon DEF OneSyncPerPlan, Running, isActiveTaskStatus
  <2>2. ASSUME NEW x \in DOMAIN row, row[x].type = "backup", row[x].status = "active" PROVE type # "backup"
    BY <2>2, Zenon DEF Refused, SyncBusy, isActiveTaskStatus
  <2> QED  BY <1>3, <1>7, <2>1, <2>2, Zenon
<1>9. UseIsExclusive'
  <2>1. \A k \in DOMAIN row' : row'[k].type \in Recoveries => row'[k].point \in Points
    <3>1. \A k \in DOMAIN row : row[k].type \in Recoveries => row[k].point \in Points
      BY <1>1, Zenon DEF ClaimsHold, CleaningFits, RowsHavePoints, OfPoint
    <3> QED  BY <1>3, <1>7, <3>1, Zenon DEF OfPoint
  <2>2. ASSUME NEW x \in DOMAIN row, row[x].type \in Recoveries, row[x].status = "active", type \in OfPoint
        PROVE  row[x].point # p
    <3>1. CASE type \in Recoveries
      BY <2>2, <3>1, Zenon DEF Refused, pointBusy, isActiveTaskStatus
    <3>2. CASE type = "retention-cleanup"
      BY <2>2, <3>2, Zenon DEF Refused, pointBusy, isActiveTaskStatus
    <3> QED  BY <2>2, <3>1, <3>2, Zenon DEF OfPoint
  <2>3. ASSUME NEW j \in DOMAIN row', NEW k \in DOMAIN row', row'[j].type \in Recoveries, row'[k].type \in Recoveries,
               row'[j].status = "active", row'[k].status = "active", row'[j].point = row'[k].point
        PROVE  j = k
    <3>1. CASE j \in DOMAIN row /\ row'[j] = row[j] /\ k \in DOMAIN row /\ row'[k] = row[k]
      BY <1>1, <2>3, <3>1, Zenon DEF UseIsExclusive, Running, isActiveTaskStatus
    <3>2. CASE j = n /\ row'[j] = d /\ k \in DOMAIN row /\ row'[k] = row[k]
      BY <1>3, <2>2, <2>3, <3>2, Zenon DEF OfPoint
    <3>3. CASE k = n /\ row'[k] = d /\ j \in DOMAIN row /\ row'[j] = row[j]
      BY <1>3, <2>2, <2>3, <3>3, Zenon DEF OfPoint
    <3> QED  BY <1>7, <3>1, <3>2, <3>3, Zenon
  <2>4. ASSUME NEW k \in DOMAIN row', row'[k].type \in Recoveries, row'[k].status = "active"
        PROVE  point'[row'[k].point] = "available"
    <3>1. CASE k \in DOMAIN row /\ row'[k] = row[k]
      <4>1. point[row[k].point] = "available" /\ row[k].point \in Points
        BY <1>1, <2>1, <2>4, <3>1, Zenon DEF UseIsExclusive, Running, isActiveTaskStatus
      <4>2. type = "retention-cleanup" => row[k].point # p
        BY <2>2, <2>4, <3>1, Zenon DEF OfPoint
      <4> QED  BY <1>6, <3>1, <4>1, <4>2, Zenon
    <3>2. CASE row'[k] = d
      <4>1. type \in Recoveries /\ row'[k].point = p
        BY <1>3, <2>4, <3>2, Zenon
      <4>2. type # "retention-cleanup" /\ point[p] = "available"
        BY <4>1, Zenon DEF Recoveries, Refused
      <4> QED  BY <1>6, <4>1, <4>2, Zenon
    <3> QED  BY <1>7, <3>1, <3>2, Zenon
  <2> QED  BY <2>3, <2>4, Zenon DEF UseIsExclusive, Running, isActiveTaskStatus
<1>10. latest' \in [sync : Nat, recovery : Nat] /\ LatestIsNewest'
  <2> DEFINE a == IF type = "backup" THEN n ELSE latest.sync
             b == IF type \in Recoveries THEN n ELSE latest.recovery
  <2>1. latest \in [sync : Nat, recovery : Nat] /\ latest.sync \in Nat /\ latest.recovery \in Nat
    BY <1>1, Zenon DEF AdmissionTypes
  <2>2. a \in Nat /\ b \in Nat /\ (type = "backup" => a = n) /\ (type # "backup" => a = latest.sync)
        /\ (type \in Recoveries => b = n) /\ (type \notin Recoveries => b = latest.recovery)
    BY <1>4, <2>1, Zenon
  <2>3. latest' = [latest EXCEPT !.sync = a, !.recovery = b]
    BY <1>5, Zenon
  <2> HIDE DEF a, b
  <2>4. latest' \in [sync : Nat, recovery : Nat] /\ latest'.sync = a /\ latest'.recovery = b
    BY <2>1, <2>2, <2>3, Zenon
  <2>5. n >= n
    BY <1>4, SMT
  <2>6. ASSUME NEW k \in DOMAIN row' PROVE /\ row'[k].type = "backup" => latest'.sync >= k
                                           /\ row'[k].type \in Recoveries => latest'.recovery >= k
    <3>1. CASE k \in DOMAIN row /\ row'[k] = row[k]
      <4>1. /\ row[k].type = "backup" => latest.sync >= k
            /\ row[k].type \in Recoveries => latest.recovery >= k
        BY <1>1, <3>1, Zenon DEF LatestIsNewest
      <4>2. n >= k
        <5>1. k \in Nat /\ k <= n /\ n \in Nat
          BY <1>4, <3>1, Zenon
        <5> QED  BY <5>1, SMT
      <4> QED  BY <2>2, <2>4, <3>1, <4>1, <4>2, Zenon
    <3>2. CASE k = n /\ row'[k] = d
      BY <1>3, <2>2, <2>4, <2>5, <3>2, Zenon
    <3> QED  BY <1>7, <3>1, <3>2, Zenon
  <2> QED  BY <2>4, <2>6, Zenon DEF LatestIsNewest
<1>11. FiresOncePerTime'
  <2> SUFFICES ASSUME NEW j \in DOMAIN row', NEW k \in DOMAIN row', row'[j].slot = row'[k].slot,
                      row'[j].slot \notin unmarked \cup {0}
               PROVE  j = k
    BY Zenon DEF FiresOncePerTime
  <2>1. CASE j \in DOMAIN row /\ row'[j] = row[j] /\ k \in DOMAIN row /\ row'[k] = row[k]
    BY <1>1, <2>1, Zenon DEF FiresOncePerTime
  <2>2. CASE j = n /\ row'[j] = d /\ k \in DOMAIN row /\ row'[k] = row[k]
    BY <1>3, <2>2, Zenon
  <2>3. CASE k = n /\ row'[k] = d /\ j \in DOMAIN row /\ row'[j] = row[j]
    BY <1>3, <2>3, Zenon
  <2> QED  BY <1>7, <2>1, <2>2, <2>3, Zenon
<1>12. RowsHavePoints'
  <2>1. \A k \in DOMAIN row : row[k].type \in OfPoint => row[k].point \in Points
    BY <1>1, Zenon DEF ClaimsHold, CleaningFits, RowsHavePoints
  <2> QED  BY <1>3, <1>7, <2>1, Zenon DEF RowsHavePoints
<1>13. \A k \in DOMAIN row' : Cleans(k)' => \/ k \in DOMAIN row /\ row'[k] = row[k] /\ Cleans(k)
                                            \/ k = n /\ row'[k] = d /\ type = "retention-cleanup"
  BY <1>3, <1>7, Zenon DEF Cleans, isActiveTaskStatus
<1>14. \A k \in DOMAIN row : Cleans(k) => /\ row[k].point \in Points /\ point[row[k].point] = "deleting"
                                          /\ type = "retention-cleanup" => row[k].point # p
  BY <1>1, Zenon DEF ClaimsHold, CleaningFits, RowsHavePoints, CleaningIsKept, Cleans, OfPoint
<1>15. CleaningIsKept'
  <2> SUFFICES ASSUME NEW k \in DOMAIN row', Cleans(k)' PROVE point'[row'[k].point] = "deleting"
    BY Zenon DEF CleaningIsKept
  <2> QED  BY <1>3, <1>6, <1>13, <1>14, Zenon
<1>16. CleaningIsOne'
  <2> SUFFICES ASSUME NEW j \in DOMAIN row', NEW k \in DOMAIN row', Cleans(j)', Cleans(k)', row'[j].point = row'[k].point
               PROVE  j = k
    BY Zenon DEF CleaningIsOne
  <2>1. CASE j \in DOMAIN row /\ row'[j] = row[j] /\ Cleans(j) /\ k \in DOMAIN row /\ row'[k] = row[k] /\ Cleans(k)
    BY <1>1, <2>1, Zenon DEF ClaimsHold, CleaningFits, CleaningIsOne
  <2>2. CASE j = n /\ row'[j] = d /\ type = "retention-cleanup" /\ k \in DOMAIN row /\ row'[k] = row[k] /\ Cleans(k)
    BY <1>3, <1>14, <2>2, Zenon
  <2>3. CASE k = n /\ row'[k] = d /\ type = "retention-cleanup" /\ j \in DOMAIN row /\ row'[j] = row[j] /\ Cleans(j)
    BY <1>3, <1>14, <2>3, Zenon
  <2> QED  BY <1>13, <2>1, <2>2, <2>3, Zenon
<1>17. \A k \in DOMAIN row' : (k \in DOMAIN row /\ row'[k] = row[k]) \/ row'[k].slot = slot
  BY <1>3, <1>7, Zenon
<1> QED  BY <1>4, <1>6, <1>8, <1>9, <1>10, <1>11, <1>12, <1>15, <1>16, <1>17, Zenon DEF CleaningFits

LEMMA TaskSubmitted ==
  ASSUME AdmissionInv, NEW r \in Requesters, SubmitTask(r)
  PROVE  AdmissionInv'
<1> DEFINE type == request[r].type
           p == request[r].point
           app == request[r].app
<1>1. AdmissionTypes /\ RequestFits(r) /\ ClaimsHold /\ TicksFit
  BY Zenon DEF AdmissionInv
<1>2. /\ request[r].at = "create" /\ CreateTask(type, app, p, 0) /\ request' = [request EXCEPT ![r].at = "done"]
      /\ UNCHANGED <<admission, plan, schedule, firing, holder, unmarked>>
  BY Zenon DEF SubmitTask
<1>3. type \in TaskTypes /\ app \in Apps /\ p \in Points \cup {"none"} /\ (type \in OfPoint => p \in Points)
  <2>1. request[r] \in RequestRecords
    BY <1>1, Zenon DEF AdmissionTypes
  <2>2. type \in TaskTypes \cup {"none"} /\ app \in Apps /\ p \in Points \cup {"none"}
    BY <2>1, Zenon DEF RequestRecords
  <2> QED  BY <1>1, <1>2, <2>2, Zenon DEF RequestFits
<1>4. type = "retention-cleanup" => point[p] = "pending_delete"
  BY <1>1, <1>2, Zenon DEF ClaimsHold, ClaimIsKept, Claims
<1>5. type = "retention-cleanup" => \A q \in Requesters \ {r} : Claims(q) => request[q].point # p
  BY <1>1, <1>2, Zenon DEF ClaimsHold, ClaimIsOne, Claims
<1> HIDE DEF type, p, app
<1>6. /\ request' \in [Requesters -> RequestRecords] /\ request'[r].at = "done"
      /\ \A q \in Requesters \ {r} : request'[q] = request[q]
  BY <1>1, <1>2, RequestAt, Zenon DEF AdmissionTypes
<1>7. 0 \in Nat
  BY SMT
<1>8. /\ row' \in Seq(RowRecords) /\ latest' \in [sync : Nat, recovery : Nat]
      /\ point' \in [Points -> {"available", "pending_delete", "deleting", "deleted"}]
      /\ OneSyncPerPlan' /\ UseIsExclusive' /\ LatestIsNewest' /\ FiresOncePerTime' /\ CleaningFits'
      /\ \A k \in DOMAIN row' : (k \in DOMAIN row /\ row'[k] = row[k]) \/ row'[k].slot = 0
      /\ \A q \in Points : point'[q] = point[q] \/ (type = "retention-cleanup" /\ q = p)
  <2>1. CASE Refused(type, app, p)
    <3>1. UNCHANGED <<row, latest, point>>
      BY <1>2, <2>1, Zenon DEF CreateTask
    <3>2. /\ OneSyncPerPlan' /\ UseIsExclusive' /\ LatestIsNewest' /\ FiresOncePerTime' /\ CleaningFits'
      BY <1>2, <3>1, RowsStand, Zenon
    <3> QED  BY <1>1, <3>1, <3>2, Zenon DEF AdmissionTypes
  <2>2. CASE ~Refused(type, app, p)
    BY <1>2, <1>3, <1>4, <1>7, <2>2, TaskCreated, Zenon
  <2> QED  BY <2>1, <2>2
<1>9. AdmissionTypes'
  BY <1>1, <1>2, <1>6, <1>8, Zenon DEF AdmissionTypes
<1>10. ASSUME NEW q \in Requesters PROVE RequestFits(q)'
  <2>1. CASE q = r
    BY <1>6, <2>1, Zenon DEF RequestFits
  <2>2. CASE q # r
    <3>1. RequestFits(q) /\ request'[q] = request[q]
      BY <1>6, <2>2, Zenon DEF AdmissionInv
    <3> QED  BY <3>1, Zenon DEF RequestFits
  <2> QED  BY <2>1, <2>2
<1>11. \A q \in Requesters : Claims(q)' => q # r /\ Claims(q) /\ request'[q] = request[q]
  BY <1>6, Zenon DEF Claims
<1>12. ClaimIsKept'
  <2> SUFFICES ASSUME NEW q \in Requesters, Claims(q)' PROVE point'[request'[q].point] = "pending_delete"
    BY Zenon DEF ClaimIsKept
  <2>1. q # r /\ Claims(q) /\ request'[q] = request[q] /\ RequestFits(q)
    BY <1>11, Zenon DEF AdmissionInv
  <2>2. request[q].point \in Points /\ point[request[q].point] = "pending_delete"
    BY <1>1, <2>1, Zenon DEF RequestFits, ClaimsHold, ClaimIsKept, Claims, OfPoint
  <2> QED  BY <1>5, <1>8, <2>1, <2>2, Zenon
<1>13. ClaimIsOne'
  <2> SUFFICES ASSUME NEW q \in Requesters, NEW s \in Requesters, Claims(q)', Claims(s)',
                      request'[q].point = request'[s].point
               PROVE  q = s
    BY Zenon DEF ClaimIsOne
  <2> QED  BY <1>1, <1>11, Zenon DEF ClaimsHold, ClaimIsOne
<1>14. TicksFit'
  <2>1. 0 <= schedule.slot
    <3>1. schedule.slot \in Nat
      BY <1>1, Zenon DEF AdmissionTypes, ScheduleRecords
    <3> QED  BY <3>1, SMT
  <2> QED  BY <1>1, <1>2, <1>8, <2>1, Zenon DEF TicksFit, Marking
<1> QED  BY <1>8, <1>9, <1>10, <1>12, <1>13, <1>14, Zenon DEF AdmissionInv, ClaimsHold

\* A step of the schedulers or of the plan that touches no task, point or request.
LEMMA TickMoves ==
  ASSUME AdmissionInv, UNCHANGED <<point, row, latest, request>>, admission' \in AdmissionRecords,
         plan' \in {"active", "inactive", "cleanup_running", "removed"}, schedule' \in ScheduleRecords,
         firing' \in [Instances -> {"idle", "read", "create", "mark"}], holder' \in Instances \cup {0},
         unmarked' \in SUBSET Nat, unmarked \subseteq unmarked', TicksFit'
  PROVE  AdmissionInv'
<1>1. AdmissionTypes /\ ClaimsHold
  BY Zenon DEF AdmissionInv
<1>2. AdmissionTypes'
  BY <1>1, Zenon DEF AdmissionTypes
<1>3. ASSUME NEW q \in Requesters PROVE RequestFits(q)' /\ (Claims(q)' <=> Claims(q))
  <2>1. RequestFits(q)
    BY Zenon DEF AdmissionInv
  <2> QED  BY <2>1, Zenon DEF RequestFits, Claims
<1>4. /\ OneSyncPerPlan' /\ UseIsExclusive' /\ LatestIsNewest' /\ FiresOncePerTime' /\ CleaningFits'
  BY RowsStand, Zenon
<1>5. ClaimIsKept' /\ ClaimIsOne'
  BY <1>1, <1>3, Zenon DEF ClaimsHold, ClaimIsKept, ClaimIsOne
<1> QED  BY <1>2, <1>3, <1>4, <1>5, Zenon DEF AdmissionInv, ClaimsHold

LEMMA TickLeft ==
  ASSUME AdmissionInv, NEW i \in Instances, firing[i] # "idle", Leave(i)
  PROVE  /\ firing' \in [Instances -> {"idle", "read", "create", "mark"}] /\ holder' = 0
         /\ \A j \in Instances : firing'[j] = "idle" /\ (j # i => firing[j] = "idle")
<1>1. firing \in [Instances -> {"idle", "read", "create", "mark"}] /\ TicksFit
  BY Zenon DEF AdmissionInv, AdmissionTypes
<1>2. holder = i /\ \A j \in Instances : j # i => firing[j] = "idle"
  BY <1>1, Zenon DEF TicksFit
<1>3. firing' = [firing EXCEPT ![i] = "idle"] /\ holder' = 0
  BY <1>2, Zenon DEF Leave, Step
<1> QED  BY <1>1, <1>2, <1>3, Zenon

\* A time of the schedule that a tick is about has no row yet, unless it lost its mark.
LEMMA TimeIsFree ==
  ASSUME AdmissionInv, NEW i \in Instances, firing[i] \in {"read", "create"}
  PROVE  /\ schedule.due /\ holder = i /\ \A j \in Instances : j # i => firing[j] = "idle"
         /\ \A k \in DOMAIN row : row[k].slot = schedule.slot => row[k].slot \in unmarked \cup {0}
<1>1. TicksFit /\ firing[i] # "idle" /\ firing[i] # "mark"
  BY Zenon DEF AdmissionInv
<1>2. schedule.due /\ holder = i /\ \A j \in Instances : j # i => firing[j] = "idle"
  BY <1>1, Zenon DEF TicksFit
<1>3. ~Marking
  BY <1>1, <1>2, Zenon DEF Marking
<1> QED  BY <1>1, <1>2, <1>3, Zenon DEF TicksFit

LEMMA TickBegins ==
  ASSUME AdmissionInv, NEW i \in Instances, BeginTick(i)
  PROVE  AdmissionInv'
<1>1. AdmissionTypes /\ TicksFit
  BY Zenon DEF AdmissionInv
<1>2. firing[i] = "idle" /\ holder = 0 /\ UNCHANGED <<admission, plan, point, row, latest, request, unmarked>>
  BY Zenon DEF BeginTick, RunSchedulerExclusive
<1>3. \A j \in Instances : firing[j] = "idle"
  BY <1>1, <1>2, InstancesAssumption, Zenon DEF TicksFit
<1>4. ~Marking
  BY <1>3, Zenon DEF Marking
<1>5. CASE schedule' = [schedule EXCEPT !.enabled = TRUE, !.due = FALSE] /\ UNCHANGED <<firing, holder>>
  <2>1. schedule' \in ScheduleRecords /\ schedule'.due = FALSE /\ schedule'.slot = schedule.slot
    BY <1>1, <1>5, Zenon DEF AdmissionTypes, ScheduleRecords
  <2>2. TicksFit'
    BY <1>1, <1>2, <1>3, <1>5, <2>1, Zenon DEF TicksFit
  <2> QED  BY <1>1, <1>2, <1>5, <2>1, <2>2, TickMoves, Zenon DEF AdmissionTypes
<1>6. CASE /\ schedule.due /\ UNCHANGED schedule /\ firing' = [firing EXCEPT ![i] = "read"] /\ holder' = i
  <2>1. firing' \in [Instances -> {"idle", "read", "create", "mark"}] /\ \A j \in Instances : j # i => firing'[j] = "idle"
    BY <1>1, <1>3, <1>6, Zenon DEF AdmissionTypes
  <2>2. TicksFit'
    BY <1>1, <1>2, <1>4, <1>6, <2>1, Zenon DEF TicksFit
  <2> QED  BY <1>1, <1>2, <1>6, <2>1, <2>2, TickMoves, Zenon DEF AdmissionTypes
<1> QED  BY <1>5, <1>6, Zenon DEF BeginTick

LEMMA TickFires ==
  ASSUME AdmissionInv, NEW i \in Instances, fireProtectionPlanSchedule(i)
  PROVE  AdmissionInv'
<1>1. AdmissionTypes /\ TicksFit
  BY Zenon DEF AdmissionInv
<1>2. firing[i] = "read" /\ firing[i] # "idle" /\ UNCHANGED <<admission, plan, point, row, latest, request, unmarked>>
  BY Zenon DEF fireProtectionPlanSchedule
<1>3. /\ schedule.due /\ holder = i /\ \A j \in Instances : j # i => firing[j] = "idle"
      /\ \A k \in DOMAIN row : row[k].slot = schedule.slot => row[k].slot \in unmarked \cup {0}
  BY <1>2, TimeIsFree, Zenon
<1>4. CASE schedule' = [schedule EXCEPT !.enabled = FALSE] /\ Leave(i)
  <2>1. schedule' \in ScheduleRecords /\ schedule'.slot = schedule.slot
    BY <1>1, <1>4, Zenon DEF AdmissionTypes, ScheduleRecords
  <2>2. /\ firing' \in [Instances -> {"idle", "read", "create", "mark"}] /\ holder' = 0
        /\ \A j \in Instances : firing'[j] = "idle"
    BY <1>2, <1>4, TickLeft, Zenon
  <2>3. TicksFit'
    BY <1>1, <1>2, <1>3, <2>1, <2>2, Zenon DEF TicksFit
  <2> QED  BY <1>1, <1>2, <2>1, <2>2, <2>3, TickMoves, Zenon DEF AdmissionTypes
<1>5. ASSUME NEW v \in {"mark", "create"}, Step(i, v), UNCHANGED <<schedule, holder>> PROVE AdmissionInv'
  <2>1. firing' \in [Instances -> {"idle", "read", "create", "mark"}] /\ \A j \in Instances : j # i => firing'[j] = "idle"
    BY <1>1, <1>3, <1>5, Zenon DEF AdmissionTypes, Step
  <2>2. TicksFit'
    BY <1>1, <1>2, <1>3, <1>5, <2>1, Zenon DEF TicksFit
  <2> QED  BY <1>1, <1>2, <1>5, <2>1, <2>2, TickMoves, Zenon DEF AdmissionTypes
<1> QED  BY <1>4, <1>5, Zenon DEF fireProtectionPlanSchedule

LEMMA TickCreates ==
  ASSUME AdmissionInv, NEW i \in Instances, createScheduledBackupTask(i)
  PROVE  AdmissionInv'
<1>1. AdmissionTypes /\ TicksFit /\ ClaimsHold
  BY Zenon DEF AdmissionInv
<1>2. /\ firing[i] = "create" /\ firing[i] # "idle" /\ CreateTask("backup", "a", "none", schedule.slot)
      /\ UNCHANGED <<admission, plan, request, schedule, unmarked>>
  BY Zenon DEF createScheduledBackupTask
<1>3. /\ schedule.due /\ holder = i /\ \A j \in Instances : j # i => firing[j] = "idle"
      /\ \A k \in DOMAIN row : row[k].slot = schedule.slot => row[k].slot \in unmarked \cup {0}
  BY <1>2, TimeIsFree, Zenon
<1>4. CASE Refused("backup", "a", "none")
  <2>1. UNCHANGED <<row, latest, point>> /\ Leave(i)
    BY <1>2, <1>4, Zenon DEF createScheduledBackupTask, CreateTask
  <2>2. /\ firing' \in [Instances -> {"idle", "read", "create", "mark"}] /\ holder' = 0
        /\ \A j \in Instances : firing'[j] = "idle"
    BY <1>2, <2>1, TickLeft, Zenon
  <2>3. TicksFit'
    BY <1>1, <1>2, <1>3, <2>1, <2>2, Zenon DEF TicksFit
  <2> QED  BY <1>1, <1>2, <2>1, <2>2, <2>3, TickMoves, Zenon DEF AdmissionTypes
<1>5. CASE ~Refused("backup", "a", "none")
  <2>1. firing' = [firing EXCEPT ![i] = "mark"] /\ UNCHANGED holder
    BY <1>5, Zenon DEF createScheduledBackupTask, Step
  <2>2. /\ firing' \in [Instances -> {"idle", "read", "create", "mark"}] /\ firing'[i] = "mark"
        /\ \A j \in Instances : j # i => firing'[j] = "idle"
    BY <1>1, <1>3, <2>1, Zenon DEF AdmissionTypes
  <2>3. /\ "backup" \in TaskTypes /\ "a" \in Apps /\ "backup" \notin OfPoint /\ "backup" # "retention-cleanup"
    BY Zenon DEF TaskTypes, Apps, OfPoint, Recoveries
  <2>4. schedule.slot \in Nat /\ "none" \in Points \cup {"none"}
    BY <1>1, Zenon DEF AdmissionTypes, ScheduleRecords
  <2>5. schedule.slot \notin unmarked \cup {0} => \A k \in DOMAIN row : row[k].slot # schedule.slot
    BY <1>3, Zenon
  <2>6. /\ row' \in Seq(RowRecords) /\ latest' \in [sync : Nat, recovery : Nat]
        /\ point' \in [Points -> {"available", "pending_delete", "deleting", "deleted"}]
        /\ OneSyncPerPlan' /\ UseIsExclusive' /\ LatestIsNewest' /\ FiresOncePerTime' /\ CleaningFits'
        /\ \A k \in DOMAIN row' : (k \in DOMAIN row /\ row'[k] = row[k]) \/ row'[k].slot = schedule.slot
        /\ \A q \in Points : point'[q] = point[q]
    <3> DEFINE z == schedule.slot
    <3>1. /\ CreateTask("backup", "a", "none", z) /\ UNCHANGED <<schedule, unmarked>> /\ z \in Nat
          /\ z \notin unmarked \cup {0} => \A k \in DOMAIN row : row[k].slot # z
      BY <1>2, <2>4, <2>5, Zenon
    <3>2. ("backup" \in OfPoint => "none" \in Points) /\ ("backup" = "retention-cleanup" => point["none"] = "pending_delete")
      BY <2>3, Zenon
    <3> HIDE DEF z
    <3>3. /\ row' \in Seq(RowRecords) /\ latest' \in [sync : Nat, recovery : Nat]
          /\ point' \in [Points -> {"available", "pending_delete", "deleting", "deleted"}]
          /\ OneSyncPerPlan' /\ UseIsExclusive' /\ LatestIsNewest' /\ FiresOncePerTime' /\ CleaningFits'
          /\ \A k \in DOMAIN row' : (k \in DOMAIN row /\ row'[k] = row[k]) \/ row'[k].slot = z
          /\ \A q \in Points : point'[q] = point[q] \/ ("backup" = "retention-cleanup" /\ q = "none")
      BY <1>5, <2>3, <2>4, <3>1, <3>2, TaskCreated, Zenon
    <3> QED  BY <2>3, <3>3, Zenon DEF z
  <2>7. AdmissionTypes'
    BY <1>1, <1>2, <2>1, <2>2, <2>6, Zenon DEF AdmissionTypes
  <2>8. ASSUME NEW q \in Requesters PROVE /\ RequestFits(q)' /\ (Claims(q)' <=> Claims(q))
                                          /\ Claims(q) => request[q].point \in Points
    <3>1. RequestFits(q)
      BY Zenon DEF AdmissionInv
    <3> QED  BY <1>2, <3>1, Zenon DEF RequestFits, Claims, OfPoint
  <2>9. ClaimIsKept' /\ ClaimIsOne'
    BY <1>1, <1>2, <2>6, <2>8, Zenon DEF ClaimsHold, ClaimIsKept, ClaimIsOne
  <2>10. TicksFit'
    <3>1. Marking'
      BY <2>2, Zenon DEF Marking
    <3>2. schedule.slot <= schedule.slot
      BY <2>4, SMT
    <3> QED  BY <1>1, <1>2, <1>3, <2>1, <2>2, <2>6, <3>1, <3>2, Zenon DEF TicksFit
  <2> QED  BY <2>6, <2>7, <2>8, <2>9, <2>10, Zenon DEF AdmissionInv, ClaimsHold
<1> QED  BY <1>4, <1>5

\* What is left of the bounds goes down.
LEMMA FaultUsed ==
  ASSUME admission \in AdmissionRecords, admission.faults > 0, admission' = [admission EXCEPT !.faults = admission.faults - 1]
  PROVE  admission' \in AdmissionRecords
<1> DEFINE f == admission.faults - 1
<1>1. admission.faults \in Nat
  BY Zenon DEF AdmissionRecords
<1>2. f \in Nat /\ admission' = [admission EXCEPT !.faults = f]
  BY <1>1, SMT
<1> HIDE DEF f
<1> QED  BY <1>2, Zenon DEF AdmissionRecords

LEMMA TickEnds ==
  ASSUME AdmissionInv, NEW i \in Instances, MarkProtectionPlanScheduleFired(i) \/ StopInstance(i)
  PROVE  AdmissionInv'
<1>1. AdmissionTypes /\ TicksFit
  BY Zenon DEF AdmissionInv
<1>2. firing[i] # "idle" /\ Leave(i) /\ UNCHANGED <<plan, point, row, latest, request>>
  BY Zenon DEF MarkProtectionPlanScheduleFired, StopInstance
<1>3. /\ firing' \in [Instances -> {"idle", "read", "create", "mark"}] /\ holder' = 0
      /\ \A j \in Instances : firing'[j] = "idle"
  BY <1>2, TickLeft, Zenon
<1>4. CASE schedule' = [schedule EXCEPT !.due = FALSE] /\ UNCHANGED <<admission, unmarked>>
  <2>1. schedule' \in ScheduleRecords /\ schedule'.slot = schedule.slot /\ schedule'.due = FALSE
    BY <1>1, <1>4, Zenon DEF AdmissionTypes, ScheduleRecords
  <2>2. TicksFit'
    BY <1>1, <1>2, <1>3, <1>4, <2>1, Zenon DEF TicksFit
  <2> QED  BY <1>1, <1>2, <1>3, <1>4, <2>1, <2>2, TickMoves, Zenon DEF AdmissionTypes
<1>5. CASE /\ admission.faults > 0 /\ admission' = [admission EXCEPT !.faults = admission.faults - 1]
           /\ unmarked' = unmarked \cup {schedule.slot} /\ UNCHANGED schedule
  <2>1. admission' \in AdmissionRecords
    BY <1>1, <1>5, FaultUsed, Zenon DEF AdmissionTypes
  <2>2. unmarked' \in SUBSET Nat /\ unmarked \subseteq unmarked' /\ schedule.slot \in unmarked'
    <3>1. schedule.slot \in Nat /\ unmarked \in SUBSET Nat
      BY <1>1, Zenon DEF AdmissionTypes, ScheduleRecords
    <3> QED  BY <1>5, <3>1, Zenon
  <2>3. TicksFit'
    BY <1>1, <1>2, <1>3, <1>5, <2>2, Zenon DEF TicksFit
  <2> QED  BY <1>1, <1>2, <1>3, <1>5, <2>1, <2>2, <2>3, TickMoves, Zenon DEF AdmissionTypes
<1> QED  BY <1>4, <1>5, Zenon DEF MarkProtectionPlanScheduleFired, StopInstance

LEMMA TimeComes ==
  ASSUME AdmissionInv, ComeDue
  PROVE  AdmissionInv'
<1> DEFINE n == schedule.slot + 1
<1>1. AdmissionTypes /\ TicksFit /\ schedule.slot \in Nat /\ row \in Seq(RowRecords)
  BY Zenon DEF AdmissionInv, AdmissionTypes, ScheduleRecords
<1>2. /\ ~schedule.due /\ schedule' = [schedule EXCEPT !.due = TRUE, !.slot = n]
      /\ UNCHANGED <<admission, plan, point, row, latest, request, firing, holder, unmarked>>
  BY Zenon DEF ComeDue
<1>3. \A j \in Instances : firing[j] = "idle"
  BY <1>1, <1>2, Zenon DEF TicksFit
<1>4. n \in Nat
  BY <1>1, SMT
<1>5. \A k \in DOMAIN row : row[k].slot <= n /\ row[k].slot # n
  <2> SUFFICES ASSUME NEW k \in DOMAIN row PROVE row[k].slot <= n /\ row[k].slot # n
    OBVIOUS
  <2>1. row[k] \in RowRecords
    BY <1>1
  <2>2. row[k].slot \in Nat /\ row[k].slot <= schedule.slot
    BY <1>1, <2>1, Zenon DEF RowRecords, TicksFit
  <2> QED  BY <1>1, <2>2, SMT
<1> HIDE DEF n
<1>6. schedule' \in ScheduleRecords /\ schedule'.slot = n
  BY <1>1, <1>2, <1>4, Zenon DEF AdmissionTypes, ScheduleRecords
<1>7. TicksFit'
  BY <1>2, <1>3, <1>5, <1>6, Zenon DEF TicksFit
<1> QED  BY <1>1, <1>2, <1>6, <1>7, TickMoves, Zenon DEF AdmissionTypes

LEMMA PlanChanges ==
  ASSUME AdmissionInv, ChangePlan
  PROVE  AdmissionInv'
<1> DEFINE c == admission.changes - 1
<1>1. AdmissionTypes /\ TicksFit
  BY Zenon DEF AdmissionInv
<1>2. /\ admission.changes > 0 /\ admission' = [admission EXCEPT !.changes = c] /\ plan' \in PlanMoves[plan]
      /\ UNCHANGED <<point, row, latest, request, schedule, firing, holder, unmarked>>
  BY Zenon DEF ChangePlan
<1>3. c \in Nat
  <2>1. admission.changes \in Nat
    BY <1>1, Zenon DEF AdmissionTypes, AdmissionRecords
  <2> QED  BY <1>2, <2>1, SMT
<1> HIDE DEF c
<1>4. admission' \in AdmissionRecords
  BY <1>1, <1>2, <1>3, Zenon DEF AdmissionTypes, AdmissionRecords
<1>5. plan' \in {"active", "inactive", "cleanup_running", "removed"}
  <2>1. /\ PlanMoves["active"] = {"inactive", "cleanup_running"} /\ PlanMoves["inactive"] = {"active"}
        /\ PlanMoves["cleanup_running"] = {"removed"} /\ PlanMoves["removed"] = {"removed"}
    BY DEF PlanMoves
  <2>2. plan \in {"active", "inactive", "cleanup_running", "removed"}
    BY <1>1, Zenon DEF AdmissionTypes
  <2> QED  BY <1>2, <2>1, <2>2, Zenon
<1>6. TicksFit'
  BY <1>1, <1>2, Zenon DEF TicksFit, Marking
<1> QED  BY <1>1, <1>2, <1>4, <1>5, <1>6, TickMoves, Zenon DEF AdmissionTypes

LEMMA TaskEnded ==
  ASSUME AdmissionInv, NEW k \in Rows, EndTask(k)
  PROVE  AdmissionInv'
<1>1. AdmissionTypes /\ TicksFit /\ ClaimsHold /\ OneSyncPerPlan /\ UseIsExclusive /\ LatestIsNewest /\ FiresOncePerTime
  BY Zenon DEF AdmissionInv
<1>2. /\ k \in DOMAIN row /\ row[k].status = "active"
      /\ UNCHANGED <<admission, plan, latest, request, schedule, firing, holder, unmarked>>
  BY Zenon DEF EndTask, isActiveTaskStatus
<1>3. PICK end \in {"succeeded", "failed"} :
        /\ row' = [row EXCEPT ![k].status = end]
        /\ point' = IF row[k].type # "retention-cleanup" THEN point
                    ELSE [point EXCEPT ![row[k].point] = IF end = "succeeded" THEN "deleted" ELSE "available"]
  BY Zenon DEF EndTask
<1> DEFINE d == [row[k] EXCEPT !.status = end]
           v == IF end = "succeeded" THEN "deleted" ELSE "available"
<1>4. row \in Seq(RowRecords) /\ row[k] \in RowRecords
  <2>1. row \in Seq(RowRecords)
    BY <1>1, Zenon DEF AdmissionTypes
  <2> QED  BY <1>2, <2>1
<1>5. /\ d \in RowRecords /\ d.type = row[k].type /\ d.app = row[k].app /\ d.point = row[k].point
      /\ d.slot = row[k].slot /\ d.status = end
  BY <1>4, Zenon DEF RowRecords
<1>6. row' = [row EXCEPT ![k] = d]
  BY <1>3, ZenonT(30)
<1> HIDE DEF d
<1>7. /\ row' \in Seq(RowRecords) /\ DOMAIN row' = DOMAIN row /\ row'[k] = d
      /\ \A j \in DOMAIN row : j # k => row'[j] = row[j]
  <2>1. row' \in Seq(RowRecords)
    BY <1>2, <1>4, <1>5, <1>6
  <2>2. DOMAIN row' = DOMAIN row /\ row'[k] = d /\ \A j \in DOMAIN row : j # k => row'[j] = row[j]
    BY <1>2, <1>6, Zenon
  <2> QED  BY <2>1, <2>2
<1>8. \A j \in DOMAIN row : /\ row'[j].type = row[j].type /\ row'[j].point = row[j].point /\ row'[j].slot = row[j].slot
                            /\ row'[j].status = "active" => j # k /\ row[j].status = "active"
  BY <1>5, <1>7, Zenon
<1>9. v \in {"deleted", "available"}
  BY Zenon
<1>10. /\ point' \in [Points -> {"available", "pending_delete", "deleting", "deleted"}]
       /\ \A q \in Points : point'[q] = point[q] \/ (row[k].type = "retention-cleanup" /\ q = row[k].point)
       /\ row[k].type = "retention-cleanup" => row[k].point \in Points /\ point[row[k].point] = "deleting"
  <2>1. point \in [Points -> {"available", "pending_delete", "deleting", "deleted"}]
    BY <1>1, Zenon DEF AdmissionTypes
  <2>2. CASE row[k].type # "retention-cleanup"
    BY <1>3, <2>1, <2>2, Zenon
  <2>3. CASE row[k].type = "retention-cleanup"
    <3>1. point' = [point EXCEPT ![row[k].point] = v]
      BY <1>3, <2>3, Zenon
    <3> HIDE DEF v
    <3>2. row[k].point \in Points /\ point[row[k].point] = "deleting"
      BY <1>1, <1>2, <2>3, Zenon DEF ClaimsHold, CleaningFits, RowsHavePoints, CleaningIsKept, Cleans, isActiveTaskStatus, OfPoint
    <3> QED  BY <1>9, <2>1, <2>3, <3>1, <3>2, Zenon
  <2> QED  BY <2>2, <2>3
<1>11. AdmissionTypes'
  BY <1>1, <1>2, <1>7, <1>10, Zenon DEF AdmissionTypes
<1>12. OneSyncPerPlan'
  <2> SUFFICES ASSUME NEW i \in DOMAIN row, NEW j \in DOMAIN row, row'[i].type = "backup", row'[j].type = "backup",
                      row'[i].status = "active", row'[j].status = "active"
               PROVE  i = j
    BY <1>7, Zenon DEF OneSyncPerPlan, Running, isActiveTaskStatus
  <2> QED  BY <1>1, <1>8, ZenonT(60) DEF OneSyncPerPlan, Running, isActiveTaskStatus
<1>13. UseIsExclusive'
  <2>1. ASSUME NEW i \in DOMAIN row, NEW j \in DOMAIN row, row'[i].type \in Recoveries, row'[j].type \in Recoveries,
               row'[i].status = "active", row'[j].status = "active", row'[i].point = row'[j].point
        PROVE  i = j
    <3>1. i \in Running(Recoveries) /\ j \in Running(Recoveries)
      BY <1>8, <2>1, Zenon DEF Running, isActiveTaskStatus
    <3>2. row[i].point = row[j].point
      BY <1>8, <2>1, Zenon
    <3> QED  BY <1>1, <3>1, <3>2, Zenon DEF UseIsExclusive
  <2>2. ASSUME NEW j \in DOMAIN row, row'[j].type \in Recoveries, row'[j].status = "active"
        PROVE  point'[row'[j].point] = "available"
    <3>1. point[row[j].point] = "available" /\ row[j].point \in Points
      <4>1. point[row[j].point] = "available"
        BY <1>1, <1>8, <2>2, Zenon DEF UseIsExclusive, Running, isActiveTaskStatus
      <4>2. row[j].point \in Points
        BY <1>1, <1>8, <2>2, Zenon DEF ClaimsHold, CleaningFits, RowsHavePoints, OfPoint
      <4> QED  BY <4>1, <4>2
    <3>2. row[k].type = "retention-cleanup" => row[j].point # row[k].point
      BY <1>10, <3>1, Zenon
    <3> QED  BY <1>8, <1>10, <3>1, <3>2, Zenon
  <2> QED  BY <1>7, <2>1, <2>2, Zenon DEF UseIsExclusive, Running, isActiveTaskStatus
<1>14. LatestIsNewest' /\ FiresOncePerTime'
  BY <1>1, <1>2, <1>7, <1>8, Zenon DEF LatestIsNewest, FiresOncePerTime
<1>15. \A j \in DOMAIN row : Cleans(j)' => Cleans(j) /\ j # k
  BY <1>8, Zenon DEF Cleans, isActiveTaskStatus
<1>16. CleaningFits'
  <2>1. RowsHavePoints'
    BY <1>1, <1>7, <1>8, Zenon DEF ClaimsHold, CleaningFits, RowsHavePoints
  <2>2. CleaningIsKept'
    <3> SUFFICES ASSUME NEW j \in DOMAIN row, Cleans(j)' PROVE point'[row'[j].point] = "deleting"
      BY <1>7, Zenon DEF CleaningIsKept
    <3>1. Cleans(j) /\ j # k /\ row'[j].point = row[j].point
      BY <1>8, <1>15, Zenon
    <3>2. point[row[j].point] = "deleting" /\ row[j].point \in Points
      BY <1>1, <3>1, Zenon DEF ClaimsHold, CleaningFits, CleaningIsKept, RowsHavePoints, Cleans, OfPoint
    <3>3. row[k].type = "retention-cleanup" => row[j].point # row[k].point
      BY <1>1, <1>2, <3>1, Zenon DEF ClaimsHold, CleaningFits, CleaningIsOne, Cleans, isActiveTaskStatus
    <3> QED  BY <1>10, <3>1, <3>2, <3>3, Zenon
  <2>3. CleaningIsOne'
    <3> SUFFICES ASSUME NEW i \in DOMAIN row, NEW j \in DOMAIN row, Cleans(i)', Cleans(j)', row'[i].point = row'[j].point
                 PROVE  i = j
      BY <1>7, Zenon DEF CleaningIsOne
    <3>1. Cleans(i) /\ Cleans(j) /\ row[i].point = row[j].point
      BY <1>8, <1>15, Zenon
    <3> QED  BY <1>1, <3>1, Zenon DEF ClaimsHold, CleaningFits, CleaningIsOne
  <2> QED  BY <2>1, <2>2, <2>3, Zenon DEF CleaningFits
<1>17. ASSUME NEW q \in Requesters PROVE /\ RequestFits(q)' /\ (Claims(q)' <=> Claims(q))
                                         /\ Claims(q) => request[q].point \in Points
  <2>1. RequestFits(q)
    BY Zenon DEF AdmissionInv
  <2> QED  BY <1>2, <2>1, Zenon DEF RequestFits, Claims, OfPoint
<1>18. ClaimIsKept'
  <2> SUFFICES ASSUME NEW q \in Requesters, Claims(q) PROVE point'[request[q].point] = "pending_delete"
    BY <1>2, <1>17, Zenon DEF ClaimIsKept
  <2>1. request[q].point \in Points /\ point[request[q].point] = "pending_delete"
    BY <1>1, <1>17, Zenon DEF ClaimsHold, ClaimIsKept
  <2> QED  BY <1>10, <2>1, Zenon
<1>19. ClaimIsOne'
  BY <1>1, <1>2, <1>17, Zenon DEF ClaimsHold, ClaimIsOne
<1>20. TicksFit'
  BY <1>1, <1>2, <1>7, <1>8, Zenon DEF TicksFit, Marking
<1> QED  BY <1>11, <1>12, <1>13, <1>14, <1>16, <1>17, <1>18, <1>19, <1>20, Zenon DEF AdmissionInv, ClaimsHold

LEMMA AdmissionStep ==
  ASSUME AdmissionInv, [AdmissionNext]_admVars
  PROVE  AdmissionInv'
<1>1. CASE UNCHANGED admVars
  <2>1. UNCHANGED <<admission, plan, point, row, latest, request, schedule, firing, holder, unmarked>>
    BY <1>1, Zenon DEF admVars
  <2>2. AdmissionTypes /\ TicksFit
    BY Zenon DEF AdmissionInv
  <2>3. TicksFit'
    BY <2>1, <2>2, Zenon DEF TicksFit, Marking
  <2> QED  BY <2>1, <2>2, <2>3, TickMoves, Zenon DEF AdmissionTypes
<1>2. ASSUME NEW i \in Instances, TickStep(i) \/ StopInstance(i) PROVE AdmissionInv'
  BY <1>2, TickBegins, TickFires, TickCreates, TickEnds, Zenon DEF TickStep
<1>3. ASSUME NEW r \in Requesters,
             \/ createBackupTask(r) \/ ClaimRestorePointDeletion(r) \/ SubmitTask(r)
             \/ \E app \in Apps : createAppBackupTask(r, app)
             \/ \E p \in Points : deleteRestorePoints(r, p) \/ \E t \in Recoveries : createRecoveryTask(r, t, p)
             \/ \E k \in Rows : retryRecoveryTask(r, k)
      PROVE  AdmissionInv'
  BY <1>3, HandlerLooks, PointClaimed, TaskSubmitted, Zenon
<1> QED  BY <1>1, <1>2, <1>3, TimeComes, PlanChanges, TaskEnded, Zenon DEF AdmissionNext

LEMMA AdmissionBegins == AdmissionInit => AdmissionInv
<1> SUFFICES ASSUME AdmissionInit PROVE AdmissionInv
  OBVIOUS
<1>1. /\ admission \in Admissions /\ plan = "active" /\ point = [p \in Points |-> "available"]
      /\ row = <<>> /\ latest = [sync |-> 0, recovery |-> 0]
      /\ schedule = [enabled |-> TRUE, due |-> FALSE, slot |-> 0]
      /\ firing = [i \in Instances |-> "idle"] /\ holder = 0 /\ unmarked = {}
  BY Zenon DEF AdmissionInit
<1>2. row \in Seq(RowRecords) /\ DOMAIN row = {} /\ 0 \in Nat
  BY <1>1
<1>3. request \in [Requesters -> RequestRecords] /\ \A r \in Requesters : request[r].at \in {"done", "ready"}
  <2> DEFINE v(r) == IF admission.want[r] = "none" THEN "done" ELSE "ready"
  <2>1. request = [r \in Requesters |-> [Idle EXCEPT !.at = v(r)]]
    BY Zenon DEF AdmissionInit
  <2>2. \A r \in Requesters : v(r) \in {"done", "ready"}
    BY Zenon
  <2> HIDE DEF v
  <2>3. ASSUME NEW r \in Requesters PROVE [Idle EXCEPT !.at = v(r)] \in RequestRecords /\ [Idle EXCEPT !.at = v(r)].at = v(r)
    <3>1. v(r) \in {"idle", "ready", "claim", "create", "done"} /\ "a" \in Apps
      BY <2>2, Zenon DEF Apps
    <3>2. Idle \in RequestRecords
      BY <3>1, Zenon DEF Idle, RequestRecords
    <3> HIDE DEF Idle
    <3> QED  BY <3>1, <3>2, Zenon DEF RequestRecords
  <2> QED  BY <2>1, <2>2, <2>3, Zenon
<1>4. AdmissionTypes
  <2>1. admission \in AdmissionRecords
    BY <1>1, AdmissionAssumption, Zenon DEF AdmissionRecords
  <2>2. schedule \in ScheduleRecords /\ latest \in [sync : Nat, recovery : Nat]
    BY <1>1, <1>2, Zenon DEF ScheduleRecords
  <2> QED  BY <1>1, <1>2, <1>3, <2>1, <2>2, Zenon DEF AdmissionTypes
<1>5. \A r \in Requesters : RequestFits(r) /\ ~Claims(r)
  BY <1>3, Zenon DEF RequestFits, Claims
<1>6. ClaimsHold
  BY <1>2, <1>5, Zenon DEF ClaimsHold, ClaimIsKept, ClaimIsOne, CleaningFits, RowsHavePoints, CleaningIsKept, CleaningIsOne
<1>7. TicksFit
  BY <1>1, <1>2, Zenon DEF TicksFit
<1>8. OneSyncPerPlan /\ UseIsExclusive /\ LatestIsNewest /\ FiresOncePerTime
  BY <1>2, Zenon DEF OneSyncPerPlan, UseIsExclusive, LatestIsNewest, FiresOncePerTime, Running
<1> QED  BY <1>4, <1>5, <1>6, <1>7, <1>8, Zenon DEF AdmissionInv

\* For any number of requests, points, platform processes and tasks: a plan has one sync, a
\* point one use, the latest tasks are the newest, and a time of the schedule gives one sync,
\* although CreateTask is the only place where handlers and schedulers meet under a lock.
THEOREM TasksAreAdmitted == AdmissionSpec => []AdmissionSafety
<1>1. AdmissionInit => AdmissionInv
  BY AdmissionBegins
<1>2. AdmissionInv /\ [AdmissionNext]_admVars => AdmissionInv'
  BY AdmissionStep
<1>3. AdmissionInv => AdmissionSafety
  BY AdmissionInvSuffices
<1> QED  BY <1>1, <1>2, <1>3, PTL DEF AdmissionSpec
=============================================================================
