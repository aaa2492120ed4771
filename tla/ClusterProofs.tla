--------------------------- MODULE ClusterProofs ---------------------------
(***************************************************************************)
(* Proofs about clusters: the order in which one is removed                *)
(* (ClusterRemoval), and what is shown of an upgrade of its components     *)
(* (ComponentUpgrade).                                                     *)
(***************************************************************************)
EXTENDS ClusterRemoval, ComponentUpgrade, TLAPS

-----------------------------------------------------------------------------
(* The removal of a cluster *)

Threads == [at : Steps, task : 0..2, consent : BOOLEAN, todo : SUBSET Plans,
            repos : SUBSET Repos, next : Steps, clean : BOOLEAN, rel : BOOLEAN]
Estate == [plans : SUBSET Plans, repos : SUBSET Repos, foreign : SUBSET Repos,
           points : BOOLEAN, requests : SUBSET Requests, restarts : Nat,
           drops : Nat, late : BOOLEAN, force : BOOLEAN]
Uninstaller == [got : SUBSET Tasks, task : 0..2, lost : SUBSET Tasks,
                at : {"idle", "working", "failing", "reporting", "gone"}]

\* A request that may still create its task.
Pending(q) == IF doing[q].at \in {"idle", "plans", "create"} THEN 1 ELSE 0

\* The repositories of the cluster hold nothing of it, unless a backup has begun.
Emptied == backup = "none" => objects \cap estate.repos = {}

\* What each thread has reached: a request deletes rows only by force, a worker is past the
\* repositories only when they are empty, and the reader deletes rows only for an agent that
\* has finished.
RequestOK(q) ==
  /\ doing[q].at \in {"idle", "plans", "create", "send", "mark", "close", "delete", "refused"}
  /\ doing[q].at = "plans" => doing[q].next \in {"create", "close"}
  /\ doing[q].at \in {"close", "delete"} \/ (doing[q].at = "plans" /\ doing[q].next = "close") => forced
  /\ doing[q].at = "create" \/ (doing[q].at = "plans" /\ doing[q].next = "create") => doing[q].repos = estate.repos
  /\ doing[q].at \in {"send", "mark"} => doing[q].task \in DOMAIN unreg
WorkerOK(w) ==
  /\ doing[w].at \in {"idle", "begin", "clean", "list", "plans", "save", "send", "mark"}
  /\ doing[w].at = "plans" => doing[w].next = "save"
  /\ doing[w].at = "clean" => (backup = "none" => objects \cap estate.repos \subseteq doing[w].repos)
  /\ doing[w].at \in {"list", "plans", "save", "send", "mark"} => Emptied
  /\ doing[w].at # "idle" => doing[w].task \in DOMAIN unreg
ReaderOK ==
  /\ doing["reader"].at \in {"idle", "close", "delete", "succeed"}
  /\ doing["reader"].at # "idle" => uninstall.at \in {"reporting", "gone"}
RedispatchOK ==
  /\ doing["redispatch"].at \in {"idle", "send", "mark"}
  /\ doing["redispatch"].at # "idle" => doing["redispatch"].task \in DOMAIN listed.tasks

\* The parts of the invariant: every task is about the repositories of the audit, and the
\* marker, the agent's commands and the list of a redispatch carry the fact that they are empty.
RowsInv ==
  /\ unreg \in Seq(UnregisterTasks)
  /\ \A t \in DOMAIN unreg : unreg[t].repos = estate.repos /\ (unreg[t].ready => Emptied)
ThreadsInv ==
  /\ doing \in [Removers -> Threads]
  /\ (\A q \in Requests : RequestOK(q)) /\ (\A w \in Workers : WorkerOK(w)) /\ ReaderOK /\ RedispatchOK
RoomInv == Len(unreg) + Pending("q1") + Pending("q2") <= 2
CommandInv ==
  /\ uninstall \in Uninstaller
  /\ \A t \in uninstall.got : t \in DOMAIN unreg /\ (unreg[t].clean => Emptied)
  /\ uninstall.at \in {"working", "failing", "reporting"} =>
       uninstall.task \in DOMAIN unreg /\ (unreg[uninstall.task].clean => Emptied)
ListedInv ==
  /\ listed \in [tasks : Seq(UnregisterTasks), todo : SUBSET Tasks]
  /\ listed.todo \subseteq DOMAIN listed.tasks /\ DOMAIN listed.tasks \subseteq DOMAIN unreg
  /\ \A t \in DOMAIN listed.tasks : listed.tasks[t].clean = unreg[t].clean /\ (listed.tasks[t].ready => Emptied)
EstateInv ==
  /\ estate \in Estates /\ left \in [restarts : Nat, drops : Nat]
  /\ row \in BOOLEAN /\ plans \subseteq Plans /\ objects \subseteq Repos
  /\ backup \in {"none", "active", "ended"} /\ online \in BOOLEAN /\ forced \in BOOLEAN
  /\ CleanupIsAllOrNothing /\ RowOutlivesAgent
RemovalInv == RowsInv /\ ThreadsInv /\ RoomInv /\ CommandInv /\ ListedInv /\ EstateInv

\* What no step takes back.
Onward ==
  /\ estate' = estate /\ (forced => forced')
  /\ DOMAIN unreg \subseteq DOMAIN unreg' /\ \A t \in DOMAIN unreg : unreg'[t].clean = unreg[t].clean
  /\ uninstall.at \in {"reporting", "gone"} => uninstall'.at \in {"reporting", "gone"}
  /\ backup' = "none" => backup = "none" /\ objects' \subseteq objects

LEMMA RemovalInvSuffices == RemovalInv => RemovalSafety
<1> SUFFICES ASSUME RemovalInv PROVE RemovalSafety
  OBVIOUS
<1>1. Len(unreg) <= 2
  <2>1. Len(unreg) \in Nat /\ Pending("q1") \in 0..1 /\ Pending("q2") \in 0..1
    BY DEF RemovalInv, RowsInv, Pending
  <2>2. Len(unreg) + Pending("q1") + Pending("q2") <= 2
    BY Zenon DEF RemovalInv, RoomInv
  <2> HIDE DEF Pending
  <2> QED  BY <2>1, <2>2, SMT
<1>2. UninstallFollowsCleanup
  BY Zenon DEF RemovalInv, CommandInv, RowsInv, UninstallFollowsCleanup, Emptied
<1> QED
  BY <1>1, <1>2, Zenon DEF RemovalInv, RowsInv, ThreadsInv, CommandInv, ListedInv, EstateInv, RemovalSafety,
     RemovalTypeOK, Threads, Uninstaller

LEMMA EmptiedStays == Onward /\ Emptied => Emptied'
BY Zenon DEF Onward, Emptied

\* The threads that do not move.
LEMMA ThreadsStand ==
  ASSUME ThreadsInv, Onward, DOMAIN listed.tasks \subseteq DOMAIN listed'.tasks
  PROVE  /\ \A q \in Requests : doing'[q] = doing[q] => RequestOK(q)'
         /\ \A w \in Workers : doing'[w] = doing[w] => WorkerOK(w)'
         /\ doing'["reader"] = doing["reader"] => ReaderOK'
         /\ doing'["redispatch"] = doing["redispatch"] => RedispatchOK'
<1>1. ASSUME NEW q \in Requests, doing'[q] = doing[q] PROVE RequestOK(q)'
  BY <1>1, Zenon DEF ThreadsInv, RequestOK, Onward
<1>2. ASSUME NEW w \in Workers, doing'[w] = doing[w] PROVE WorkerOK(w)'
  <2>1. doing[w].at = "clean" => (backup' = "none" => objects' \cap estate'.repos \subseteq doing[w].repos)
    BY Zenon DEF ThreadsInv, WorkerOK, Onward
  <2> QED  BY <1>2, <2>1, EmptiedStays, Zenon DEF ThreadsInv, WorkerOK, Onward
<1>3. ASSUME doing'["reader"] = doing["reader"] PROVE ReaderOK'
  BY <1>3, Zenon DEF ThreadsInv, ReaderOK, Onward
<1>4. ASSUME doing'["redispatch"] = doing["redispatch"] PROVE RedispatchOK'
  BY <1>4, Zenon DEF ThreadsInv, RedispatchOK
<1> QED  BY <1>1, <1>2, <1>3, <1>4, Zenon

LEMMA RoomKeeps ==
  ASSUME RowsInv, RoomInv, Len(unreg') = Len(unreg),
         \A q \in Requests : doing'[q].at \in {"idle", "plans", "create"} => doing[q].at \in {"idle", "plans", "create"}
  PROVE  RoomInv'
<1>1. /\ Pending("q1")' \in 0..1 /\ Pending("q2")' \in 0..1 /\ Pending("q1") \in 0..1 /\ Pending("q2") \in 0..1
      /\ Len(unreg) \in Nat
  BY DEF Pending, RowsInv
<1>2. Pending("q1")' <= Pending("q1") /\ Pending("q2")' <= Pending("q2")
  BY DEF Pending, Requests
<1>3. Len(unreg) + Pending("q1") + Pending("q2") <= 2
  BY Zenon DEF RoomInv
<1>4. Len(unreg') + Pending("q1")' + Pending("q2")' <= 2
  <2> HIDE DEF Pending
  <2> QED  BY <1>1, <1>2, <1>3, SMT
<1> QED  BY <1>4, Zenon DEF RoomInv

LEMMA CommandsStand == CommandInv /\ Onward /\ UNCHANGED uninstall => CommandInv'
BY EmptiedStays, Zenon DEF CommandInv, Onward

LEMMA ListStands == ListedInv /\ Onward /\ UNCHANGED listed => ListedInv'
BY EmptiedStays, Zenon DEF ListedInv, Onward

\* The rows of a step that keeps what the tasks are about.
LEMMA RowsMap ==
  ASSUME RowsInv, estate' = estate, Emptied => Emptied', DOMAIN unreg' = DOMAIN unreg,
         unreg' = [t \in DOMAIN unreg |-> unreg'[t]],
         \A t \in DOMAIN unreg : /\ unreg'[t] \in UnregisterTasks /\ unreg'[t].repos = unreg[t].repos
                                 /\ unreg'[t].ready => unreg[t].ready \/ Emptied'
  PROVE  RowsInv' /\ Len(unreg') = Len(unreg)
<1>1. Len(unreg) \in Nat /\ DOMAIN unreg = 1..Len(unreg)
  BY DEF RowsInv
<1>2. unreg' \in [1..Len(unreg) -> UnregisterTasks]
  BY <1>1, Zenon
<1>3. unreg' \in Seq(UnregisterTasks) /\ Len(unreg') = Len(unreg)
  BY <1>1, <1>2
<1> QED  BY <1>3, Zenon DEF RowsInv

LEMMA RowsStand == RowsInv /\ estate' = estate /\ (Emptied => Emptied') /\ UNCHANGED unreg => RowsInv'
BY Zenon DEF RowsInv

\* UpdateTaskStatus changes nothing but the status.
LEMMA StatusSet ==
  ASSUME RowsInv, NEW t, NEW s \in {"queued", "running", "dispatched", "finalizing", "succeeded", "failed"}
  PROVE  /\ DOMAIN SetTask(t, s) = DOMAIN unreg /\ SetTask(t, s) = [k \in DOMAIN unreg |-> SetTask(t, s)[k]]
         /\ \A k \in DOMAIN unreg : /\ SetTask(t, s)[k] \in UnregisterTasks
                                    /\ SetTask(t, s)[k].repos = unreg[k].repos
                                    /\ SetTask(t, s)[k].clean = unreg[k].clean
                                    /\ SetTask(t, s)[k].ready = unreg[k].ready
<1> DEFINE set(r) == [r EXCEPT !.st = IF r.st \in Ended THEN r.st ELSE s]
<1>1. \A r \in UnregisterTasks : /\ set(r) \in UnregisterTasks /\ set(r).repos = r.repos
                                 /\ set(r).clean = r.clean /\ set(r).ready = r.ready
  BY Zenon DEF UnregisterTasks, Ended
<1>2. SetTask(t, s) = [k \in DOMAIN unreg |-> IF k = t THEN set(unreg[k]) ELSE unreg[k]]
  BY Zenon DEF SetTask
<1> HIDE DEF set
<1>3. DOMAIN SetTask(t, s) = DOMAIN unreg /\ SetTask(t, s) = [k \in DOMAIN unreg |-> SetTask(t, s)[k]]
  BY <1>2, Zenon
<1>4. ASSUME NEW k \in DOMAIN unreg
      PROVE  /\ SetTask(t, s)[k] \in UnregisterTasks /\ SetTask(t, s)[k].repos = unreg[k].repos
             /\ SetTask(t, s)[k].clean = unreg[k].clean /\ SetTask(t, s)[k].ready = unreg[k].ready
  <2>1. SetTask(t, s)[k] = set(unreg[k]) \/ SetTask(t, s)[k] = unreg[k]
    BY <1>2, Zenon
  <2>2. unreg[k] \in UnregisterTasks
    BY DEF RowsInv
  <2> QED  BY <1>1, <2>1, <2>2, Zenon
<1> QED  BY <1>3, <1>4, Zenon

LEMMA RowsSet ==
  ASSUME RowsInv, NEW t, NEW s \in {"queued", "running", "dispatched", "finalizing", "succeeded", "failed"},
         unreg' = SetTask(t, s), estate' = estate, Emptied => Emptied'
  PROVE  /\ RowsInv' /\ Len(unreg') = Len(unreg) /\ DOMAIN unreg' = DOMAIN unreg
         /\ \A k \in DOMAIN unreg : unreg'[k].clean = unreg[k].clean
<1>1. /\ DOMAIN unreg' = DOMAIN unreg /\ unreg' = [k \in DOMAIN unreg |-> unreg'[k]]
      /\ \A k \in DOMAIN unreg : /\ unreg'[k] \in UnregisterTasks /\ unreg'[k].repos = unreg[k].repos
                                 /\ unreg'[k].clean = unreg[k].clean /\ unreg'[k].ready = unreg[k].ready
  <2>1. /\ DOMAIN SetTask(t, s) = DOMAIN unreg /\ SetTask(t, s) = [k \in DOMAIN unreg |-> SetTask(t, s)[k]]
        /\ \A k \in DOMAIN unreg : /\ SetTask(t, s)[k] \in UnregisterTasks
                                   /\ SetTask(t, s)[k].repos = unreg[k].repos
                                   /\ SetTask(t, s)[k].clean = unreg[k].clean
                                   /\ SetTask(t, s)[k].ready = unreg[k].ready
    BY StatusSet, Zenon
  <2> QED  BY <2>1
<1>2. RowsInv' /\ Len(unreg') = Len(unreg)
  BY <1>1, RowsMap, Zenon
<1> QED  BY <1>1, <1>2, Zenon

Statuses == {"queued", "running", "dispatched", "finalizing", "succeeded", "failed"}

\* A step that changes at most the status of a task.
LEMMA QuietStep ==
  ASSUME RowsInv, UNCHANGED <<estate, objects, backup>>, forced => forced',
         uninstall.at \in {"reporting", "gone"} => uninstall'.at \in {"reporting", "gone"},
         unreg' = unreg \/ \E t \in 0..2 : \E s \in Statuses : unreg' = SetTask(t, s)
  PROVE  Onward /\ RowsInv' /\ Len(unreg') = Len(unreg) /\ DOMAIN unreg' = DOMAIN unreg
<1>1. Emptied => Emptied'
  BY Zenon DEF Emptied
<1>2. /\ RowsInv' /\ Len(unreg') = Len(unreg) /\ DOMAIN unreg' = DOMAIN unreg
      /\ \A k \in DOMAIN unreg : unreg'[k].clean = unreg[k].clean
  <2>1. CASE unreg' = unreg
    BY <1>1, <2>1, RowsStand, Zenon
  <2>2. ASSUME NEW t \in 0..2, NEW s \in Statuses, unreg' = SetTask(t, s)
        PROVE  /\ RowsInv' /\ Len(unreg') = Len(unreg) /\ DOMAIN unreg' = DOMAIN unreg
               /\ \A k \in DOMAIN unreg : unreg'[k].clean = unreg[k].clean
    BY <1>1, <2>2, RowsSet, Zenon DEF Statuses
  <2> QED  BY <2>1, <2>2, Zenon
<1> QED  BY <1>2, Zenon DEF Onward

LEMMA EstateStands ==
  ASSUME EstateInv, UNCHANGED <<estate, row, objects, backup>>, forced' \in BOOLEAN, forced => forced',
         left' \in [restarts : Nat, drops : Nat], plans' \subseteq Plans, online' \in BOOLEAN,
         uninstall.at \in {"reporting", "gone"} => uninstall'.at \in {"reporting", "gone"}
  PROVE  EstateInv'
BY Zenon DEF EstateInv, CleanupIsAllOrNothing, RowOutlivesAgent

\* One thread moves; the others and what they rely on stay.
LEMMA ThreadMoves ==
  ASSUME RemovalInv, NEW x \in Removers, NEW d \in Threads, doing' = [doing EXCEPT ![x] = d],
         Onward, RowsInv', Len(unreg') = Len(unreg), EstateInv', CommandInv', ListedInv',
         DOMAIN listed.tasks \subseteq DOMAIN listed'.tasks,
         x \in Requests => RequestOK(x)', x \in Workers => WorkerOK(x)',
         x = "reader" => ReaderOK', x = "redispatch" => RedispatchOK',
         x \in Requests /\ d.at \in {"idle", "plans", "create"} => doing[x].at \in {"idle", "plans", "create"}
  PROVE  RemovalInv'
<1>1. /\ doing' \in [Removers -> Threads] /\ doing'[x] = d
      /\ \A y \in Removers : y # x => doing'[y] = doing[y]
  BY Zenon DEF RemovalInv, ThreadsInv
<1>2. Requests \subseteq Removers /\ Workers \subseteq Removers /\ "reader" \in Removers /\ "redispatch" \in Removers
  BY Zenon DEF Removers
<1>3. /\ \A q \in Requests : doing'[q] = doing[q] => RequestOK(q)'
      /\ \A w \in Workers : doing'[w] = doing[w] => WorkerOK(w)'
      /\ doing'["reader"] = doing["reader"] => ReaderOK'
      /\ doing'["redispatch"] = doing["redispatch"] => RedispatchOK'
  BY ThreadsStand, Zenon DEF RemovalInv
<1>4. ThreadsInv'
  <2>1. \A q \in Requests : RequestOK(q)'
    BY <1>1, <1>2, <1>3, Zenon
  <2>2. \A w \in Workers : WorkerOK(w)'
    BY <1>1, <1>2, <1>3, Zenon
  <2>3. ReaderOK' /\ RedispatchOK'
    BY <1>1, <1>2, <1>3, Zenon
  <2> QED  BY <1>1, <2>1, <2>2, <2>3, Zenon DEF ThreadsInv
<1>5. \A q \in Requests : doing'[q].at \in {"idle", "plans", "create"} => doing[q].at \in {"idle", "plans", "create"}
  BY <1>1, <1>2, Zenon
<1>6. RoomInv'
  BY <1>5, RoomKeeps, Zenon DEF RemovalInv
<1> QED  BY <1>4, <1>6, Zenon DEF RemovalInv

\* No thread moves.
LEMMA NoThreadMoves ==
  ASSUME RemovalInv, UNCHANGED doing, Onward, RowsInv', Len(unreg') = Len(unreg), EstateInv', CommandInv', ListedInv',
         DOMAIN listed.tasks \subseteq DOMAIN listed'.tasks
  PROVE  RemovalInv'
<1>1. ThreadsInv'
  BY ThreadsStand, Zenon DEF RemovalInv, ThreadsInv
<1>2. RoomInv'
  BY RoomKeeps, Zenon DEF RemovalInv
<1> QED  BY <1>1, <1>2, Zenon DEF RemovalInv

LEMMA NothingIsThread ==
  /\ Nothing \in Threads /\ Nothing.at = "idle" /\ [Nothing EXCEPT !.at = "refused"] \in Threads
  /\ [Nothing EXCEPT !.at = "refused"].at = "refused"
  /\ \A a \in Steps, t \in 0..2 : /\ [Nothing EXCEPT !.at = a, !.task = t] \in Threads
                                  /\ [Nothing EXCEPT !.at = a, !.task = t].at = a
                                  /\ [Nothing EXCEPT !.at = a, !.task = t].task = t
<1>1. 0 \in 0..2 /\ {} \subseteq Plans /\ {} \subseteq Repos
  BY SMT
<1>2. Nothing \in Threads /\ Nothing.at = "idle"
  BY <1>1, Zenon DEF Nothing, Threads, Steps
<1> HIDE DEF Nothing
<1>3. [Nothing EXCEPT !.at = "refused"] \in Threads /\ [Nothing EXCEPT !.at = "refused"].at = "refused"
  BY <1>2, Zenon DEF Threads, Steps
<1>4. ASSUME NEW a \in Steps, NEW t \in 0..2
      PROVE  /\ [Nothing EXCEPT !.at = a, !.task = t] \in Threads
             /\ [Nothing EXCEPT !.at = a, !.task = t].at = a /\ [Nothing EXCEPT !.at = a, !.task = t].task = t
  BY <1>2, Zenon DEF Threads
<1> QED  BY <1>2, <1>3, <1>4, Zenon

\* What each kind of thread must satisfy.
ThreadOK(x) ==
  /\ x \in Requests => RequestOK(x)
  /\ x \in Workers => WorkerOK(x)
  /\ x = "reader" => ReaderOK
  /\ x = "redispatch" => RedispatchOK

\* A thread moves and at most the status of one task changes.
LEMMA QuietMove ==
  ASSUME RemovalInv, NEW x \in Removers, NEW d \in Threads, doing' = [doing EXCEPT ![x] = d],
         UNCHANGED <<estate, row, objects, backup, uninstall, listed>>, forced' \in BOOLEAN, forced => forced',
         left' \in [restarts : Nat, drops : Nat], plans' \subseteq Plans, online' \in BOOLEAN,
         unreg' = unreg \/ \E t \in 0..2 : \E s \in Statuses : unreg' = SetTask(t, s),
         x \in Requests /\ d.at \in {"idle", "plans", "create"} => doing[x].at \in {"idle", "plans", "create"},
         Onward /\ DOMAIN unreg' = DOMAIN unreg /\ doing'[x] = d => ThreadOK(x)'
  PROVE  RemovalInv'
<1>1. Onward /\ RowsInv' /\ Len(unreg') = Len(unreg) /\ DOMAIN unreg' = DOMAIN unreg
  BY QuietStep, Zenon DEF RemovalInv
<1>2. CommandInv' /\ ListedInv'
  BY <1>1, CommandsStand, ListStands, Zenon DEF RemovalInv
<1>3. EstateInv'
  BY EstateStands, Zenon DEF RemovalInv
<1>4. doing'[x] = d
  BY Zenon DEF RemovalInv, ThreadsInv
<1>5. ThreadOK(x)'
  BY <1>1, <1>4, Zenon
<1>6. /\ x \in Requests => RequestOK(x)'
      /\ x \in Workers => WorkerOK(x)'
      /\ x = "reader" => ReaderOK'
      /\ x = "redispatch" => RedispatchOK'
  BY <1>5, Zenon DEF ThreadOK
<1> QED  BY <1>1, <1>2, <1>3, <1>6, ThreadMoves, Zenon

\* How a thread ends: the request is answered, the others are gone.
Rest(x) == IF x \in Requests THEN [Nothing EXCEPT !.at = "refused"] ELSE Nothing

LEMMA RestIsQuiet ==
  ASSUME NEW x \in Removers
  PROVE  /\ Rest(x) \in Threads /\ ~(x \in Requests /\ Rest(x).at \in {"idle", "plans", "create"})
         /\ doing'[x] = Rest(x) => ThreadOK(x)'
<1>1. x \in Requests => ~(x \in Workers) /\ x # "reader" /\ x # "redispatch"
  BY Zenon DEF Requests, Workers
<1>2. /\ x \in Requests => Rest(x) = [Nothing EXCEPT !.at = "refused"]
      /\ ~(x \in Requests) => Rest(x) = Nothing
  BY Zenon DEF Rest
<1>3. /\ Rest(x) \in Threads
      /\ x \in Requests => Rest(x).at = "refused"
      /\ ~(x \in Requests) => Rest(x).at = "idle"
  BY <1>2, NothingIsThread, Zenon
<1>4. ASSUME doing'[x] = Rest(x) PROVE ThreadOK(x)'
  <2>1. CASE x \in Requests
    <3>1. doing'[x].at = "refused"
      BY <1>3, <1>4, <2>1, Zenon
    <3>2. RequestOK(x)'
      BY <3>1, Zenon DEF RequestOK
    <3> QED  BY <1>1, <2>1, <3>2, Zenon DEF ThreadOK
  <2>2. CASE ~(x \in Requests)
    <3>1. doing'[x].at = "idle"
      BY <1>3, <1>4, <2>2, Zenon
    <3>2. WorkerOK(x)'
      BY <3>1, Zenon DEF WorkerOK
    <3>3. x = "reader" => ReaderOK'
      BY <3>1, Zenon DEF ReaderOK
    <3>4. x = "redispatch" => RedispatchOK'
      BY <3>1, Zenon DEF RedispatchOK
    <3> QED  BY <2>2, <3>2, <3>3, <3>4, Zenon DEF ThreadOK
  <2> QED  BY <2>1, <2>2
<1> QED  BY <1>3, <1>4, Zenon

\* A thread ends, and at most the status of a task changes.
LEMMA QuietEnd ==
  ASSUME RemovalInv, NEW x \in Removers, doing' = [doing EXCEPT ![x] = Rest(x)],
         UNCHANGED <<estate, row, objects, backup, uninstall, listed, forced, plans, online>>,
         left' \in [restarts : Nat, drops : Nat],
         unreg' = unreg \/ \E t \in 0..2 : \E s \in Statuses : unreg' = SetTask(t, s)
  PROVE  RemovalInv'
<1>1. /\ Rest(x) \in Threads /\ ~(x \in Requests /\ Rest(x).at \in {"idle", "plans", "create"})
      /\ doing'[x] = Rest(x) => ThreadOK(x)'
  BY RestIsQuiet, Zenon
<1>2. forced \in BOOLEAN /\ plans \subseteq Plans /\ online \in BOOLEAN
  BY Zenon DEF RemovalInv, EstateInv
<1> HIDE DEF Rest
<1> QED  BY <1>1, <1>2, QuietMove, Zenon

\* A field or two of a thread change.
LEMMA FieldsOf ==
  ASSUME NEW d \in Threads, NEW a \in Steps
  PROVE  /\ [d EXCEPT !.at = a] \in Threads /\ [d EXCEPT !.at = a].at = a
         /\ [d EXCEPT !.at = a].task = d.task /\ [d EXCEPT !.at = a].next = d.next
         /\ [d EXCEPT !.at = a].repos = d.repos
BY Zenon DEF Threads

\* The request: the audit, a forced removal, and the relationships one by one.
LEMMA RequestSteps ==
  ASSUME RemovalInv, NEW q \in Requests,
         ForceCleanup(q) \/ \E consent \in BOOLEAN : Audit(q, consent)
  PROVE  RemovalInv'
<1>1. /\ q \in Removers /\ ~(q \in Workers) /\ q # "reader" /\ q # "redispatch"
  BY Zenon DEF Requests, Workers, Removers
<1>2. /\ left \in [restarts : Nat, drops : Nat] /\ plans \subseteq Plans /\ online \in BOOLEAN
      /\ forced \in BOOLEAN /\ estate \in Estates
  BY Zenon DEF RemovalInv, EstateInv
<1>3. estate.repos \subseteq Repos
  BY <1>2, EstateAssumption, Zenon
<1>4. CASE ForceCleanup(q)
  <2> DEFINE a == IF plans # {} THEN "plans" ELSE "close"
             d == [Nothing EXCEPT !.at = a, !.next = "close", !.todo = plans]
  <2>1. /\ d \in Threads /\ d.at \in {"plans", "close"} /\ d.next = "close"
    <3>1. a \in {"plans", "close"} /\ a \in Steps /\ "close" \in Steps
      BY Zenon DEF Steps
    <3>2. Nothing \in Threads
      BY NothingIsThread, Zenon
    <3> HIDE DEF a
    <3> QED  BY <1>2, <3>1, <3>2, Zenon DEF Threads
  <2>2. /\ doing' = [doing EXCEPT ![q] = d] /\ doing[q].at = "idle" /\ forced' = TRUE
        /\ UNCHANGED <<estate, left, row, plans, objects, unreg, backup, online, uninstall, listed>>
    BY <1>4, Zenon DEF ForceCleanup
  <2> HIDE DEF d
  <2>3. doing'[q] = d => ThreadOK(q)'
    BY <1>1, <2>1, <2>2, Zenon DEF ThreadOK, RequestOK
  <2> QED  BY <1>1, <1>2, <2>1, <2>2, <2>3, QuietMove, Zenon
<1>5. ASSUME NEW consent \in BOOLEAN, Audit(q, consent) PROVE RemovalInv'
  <2>1. /\ doing[q].at = "idle"
        /\ UNCHANGED <<estate, left, row, plans, objects, unreg, backup, online, uninstall, listed, forced>>
    BY <1>5, Zenon DEF Audit
  <2> DEFINE go(a, todo, clean, rel) ==
        [at |-> a, next |-> "create", task |-> 0, consent |-> consent, todo |-> todo,
         repos |-> estate.repos, clean |-> clean, rel |-> rel]
  <2>2. \/ doing' = [doing EXCEPT ![q] = Rest(q)]
        \/ \E a \in {"plans", "create"}, todo \in SUBSET Plans, clean \in BOOLEAN, rel \in BOOLEAN :
             doing' = [doing EXCEPT ![q] = go(a, todo, clean, rel)]
    <3> DEFINE clean == estate.repos # {} /\ (~estate.points \/ consent)
               rel   == consent /\ plans # {}
               a     == IF rel /\ ~clean THEN "plans" ELSE "create"
               todo  == IF rel /\ ~clean THEN plans ELSE {}
    <3>1. \/ doing' = [doing EXCEPT ![q] = [Nothing EXCEPT !.at = "refused"]]
          \/ doing' = [doing EXCEPT ![q] = go(a, todo, clean, rel)]
      BY <1>5, Zenon DEF Audit
    <3>2. a \in {"plans", "create"} /\ todo \in SUBSET Plans /\ clean \in BOOLEAN /\ rel \in BOOLEAN
      BY <1>2, Zenon
    <3> HIDE DEF a, todo, clean, rel, go
    <3> QED  BY <3>1, <3>2, Zenon DEF Rest
  <2>3. CASE doing' = [doing EXCEPT ![q] = Rest(q)]
    BY <1>1, <1>2, <2>1, <2>3, QuietEnd, Zenon
  <2>4. ASSUME NEW a \in {"plans", "create"}, NEW todo \in SUBSET Plans, NEW clean \in BOOLEAN, NEW rel \in BOOLEAN,
               doing' = [doing EXCEPT ![q] = go(a, todo, clean, rel)]
        PROVE  RemovalInv'
    <3> DEFINE d == go(a, todo, clean, rel)
    <3>1. 0 \in 0..2
      BY SMT
    <3>2. /\ d \in Threads /\ d.at = a /\ d.next = "create" /\ d.repos = estate.repos
      BY <1>3, <3>1, Zenon DEF Threads, Steps
    <3> HIDE DEF d
    <3>3. doing'[q] = d => ThreadOK(q)'
      BY <1>1, <2>1, <3>2, Zenon DEF ThreadOK, RequestOK
    <3>4. doing' = [doing EXCEPT ![q] = d]
      BY <2>4, Zenon DEF d
    <3> QED  BY <1>1, <1>2, <2>1, <3>2, <3>3, <3>4, QuietMove, Zenon
  <2> HIDE DEF go
  <2> QED  BY <2>2, <2>3, <2>4, Zenon
<1> QED  BY <1>4, <1>5, Zenon

\* A relationship goes, or the thread ends on one that has changed.
LEMMA RelationshipStep ==
  ASSUME RemovalInv, NEW x \in Removers, NEW p \in Plans, RemoveRelationship(x, p)
  PROVE  RemovalInv'
<1>1. /\ doing \in [Removers -> Threads] /\ doing[x] \in Threads
  BY Zenon DEF RemovalInv, ThreadsInv
<1>2. /\ left \in [restarts : Nat, drops : Nat] /\ plans \subseteq Plans /\ online \in BOOLEAN /\ forced \in BOOLEAN
  BY Zenon DEF RemovalInv, EstateInv
<1>3. /\ doing[x].at = "plans"
      /\ UNCHANGED <<estate, left, row, objects, backup, online, uninstall, listed, forced>>
  BY Zenon DEF RemoveRelationship
<1>4. ThreadOK(x)
  BY Zenon DEF RemovalInv, ThreadsInv, ThreadOK
<1>5. CASE /\ plans' = Unlink(p) /\ UNCHANGED unreg
           /\ doing' = [doing EXCEPT ![x].todo = @ \ {p}, ![x].at = IF doing[x].todo = {p} THEN doing[x].next ELSE @]
  <2> DEFINE a == IF doing[x].todo = {p} THEN doing[x].next ELSE doing[x].at
             d == [doing[x] EXCEPT !.todo = doing[x].todo \ {p}, !.at = a]
  <2>1. a \in Steps /\ a \in {"plans", doing[x].next} /\ doing[x].todo \ {p} \subseteq Plans
    BY <1>1, <1>3, Zenon DEF Threads
  <2>2. doing' = [doing EXCEPT ![x] = d]
    BY <1>1, <1>5, ZenonT(30) DEF Threads
  <2> HIDE DEF a
  <2>3. /\ d \in Threads /\ d.at = a /\ d.next = doing[x].next /\ d.task = doing[x].task /\ d.repos = doing[x].repos
    BY <1>1, <2>1, Zenon DEF Threads
  <2> HIDE DEF d
  <2>4. ASSUME Onward, DOMAIN unreg' = DOMAIN unreg, doing'[x] = d PROVE ThreadOK(x)'
    <3>1. x \in Requests => RequestOK(x)'
      BY <1>3, <1>4, <2>1, <2>3, <2>4, Zenon DEF ThreadOK, RequestOK
    <3>2. x \in Workers => WorkerOK(x)'
      BY <1>3, <1>4, <2>1, <2>3, <2>4, EmptiedStays, Zenon DEF ThreadOK, WorkerOK
    <3>3. x # "reader" /\ x # "redispatch"
      BY <1>3, <1>4, Zenon DEF ThreadOK, ReaderOK, RedispatchOK
    <3> QED  BY <3>1, <3>2, <3>3, Zenon DEF ThreadOK
  <2>5. plans' \subseteq Plans
    BY <1>2, <1>5, Zenon DEF Unlink
  <2>6. x \in Requests /\ d.at \in {"idle", "plans", "create"} => doing[x].at \in {"idle", "plans", "create"}
    BY <1>3, Zenon
  <2> QED  BY <1>2, <1>3, <1>5, <2>2, <2>3, <2>4, <2>5, <2>6, QuietMove, Zenon
<1>6. CASE /\ doing' = [doing EXCEPT ![x] = Rest(x)] /\ UNCHANGED plans
           /\ unreg' = (IF x \in Workers THEN SetTask(doing[x].task, "failed") ELSE unreg)
  <2>1. unreg' = unreg \/ \E t \in 0..2 : \E s \in Statuses : unreg' = SetTask(t, s)
    <3>1. doing[x].task \in 0..2 /\ "failed" \in Statuses
      BY <1>1, Zenon DEF Threads, Statuses
    <3> HIDE DEF Statuses
    <3> QED  BY <1>6, <3>1, Zenon
  <2> QED  BY <1>2, <1>3, <1>6, <2>1, QuietEnd, Zenon
<1> QED  BY <1>5, <1>6, Zenon DEF RemoveRelationship, Rest

\* The task is created: there is room for it, and it names the repositories of the audit.
LEMMA CreationStep ==
  ASSUME RemovalInv, NEW q \in Requests, CreateUnregister(q)
  PROVE  RemovalInv'
<1> DEFINE n == [st |-> "queued", clean |-> doing[q].clean, ready |-> FALSE, rel |-> doing[q].rel, repos |-> doing[q].repos]
           t == Len(unreg) + 1
<1>1. /\ q \in Removers /\ ~(q \in Workers) /\ q # "reader" /\ q # "redispatch" /\ q \in {"q1", "q2"}
  BY Zenon DEF Requests, Workers, Removers
<1>2. /\ left \in [restarts : Nat, drops : Nat] /\ plans \subseteq Plans /\ online \in BOOLEAN /\ forced \in BOOLEAN
  BY Zenon DEF RemovalInv, EstateInv
<1>3. /\ doing \in [Removers -> Threads] /\ doing[q] \in Threads /\ RequestOK(q)
  BY <1>1, Zenon DEF RemovalInv, ThreadsInv
<1>4. /\ doing[q].at = "create"
      /\ UNCHANGED <<estate, left, row, plans, objects, backup, online, uninstall, listed, forced>>
  BY Zenon DEF CreateUnregister
<1>5. CASE UNCHANGED unreg /\ doing' = [doing EXCEPT ![q].at = "refused"]
  <2> DEFINE d == [doing[q] EXCEPT !.at = "refused"]
  <2>1. doing' = [doing EXCEPT ![q] = d]
    BY <1>3, <1>5, Zenon
  <2>2. d \in Threads /\ d.at = "refused"
    BY <1>3, FieldsOf, Zenon DEF Steps
  <2> HIDE DEF d
  <2>3. doing'[q] = d => ThreadOK(q)'
    BY <1>1, <2>2, Zenon DEF ThreadOK, RequestOK
  <2>4. ~(d.at \in {"idle", "plans", "create"})
    BY <2>2, Zenon
  <2> QED  BY <1>1, <1>2, <1>4, <1>5, <2>1, <2>2, <2>3, <2>4, QuietMove, Zenon
<1>6. CASE /\ unreg' = Append(unreg, n)
           /\ doing' = IF doing[q].clean
                       THEN [doing EXCEPT ![q] = [Nothing EXCEPT !.at = "refused"],
                                          ![WorkerOf(t)] = [Nothing EXCEPT !.at = "begin", !.task = t]]
                       ELSE [doing EXCEPT ![q].at = "send", ![q].task = t]
  <2>1. n \in UnregisterTasks /\ n.ready = FALSE /\ n.repos = estate.repos
    BY <1>3, <1>4, Zenon DEF UnregisterTasks, Threads, RequestOK
  <2>2. unreg \in Seq(UnregisterTasks)
    BY Zenon DEF RemovalInv, RowsInv
  <2> HIDE DEF n
  <2>3. /\ unreg' \in Seq(UnregisterTasks) /\ Len(unreg') = t /\ DOMAIN unreg' = DOMAIN unreg \cup {t}
        /\ unreg'[t] = n /\ \A k \in DOMAIN unreg : unreg'[k] = unreg[k]
    BY <1>6, <2>1, <2>2
  <2>4. Onward
    BY <1>4, <2>3, Zenon DEF Onward
  <2>5. RowsInv'
    <3>1. ASSUME NEW k \in DOMAIN unreg' PROVE unreg'[k].repos = estate'.repos /\ (unreg'[k].ready => Emptied')
      BY <1>4, <2>1, <2>3, <2>4, EmptiedStays, Zenon DEF RemovalInv, RowsInv
    <3> QED  BY <2>3, <3>1, Zenon DEF RowsInv
  <2>6. CommandInv' /\ ListedInv'
    BY <1>4, <2>4, CommandsStand, ListStands, Zenon DEF RemovalInv
  <2>7. EstateInv'
    BY <1>2, <1>4, EstateStands, Zenon DEF RemovalInv
  <2>8. t \in 1..2
    <3>1. /\ Len(unreg) \in Nat /\ Pending("q1") \in 0..1 /\ Pending("q2") \in 0..1
      BY <2>2 DEF Pending
    <3>2. Len(unreg) + Pending("q1") + Pending("q2") <= 2
      BY Zenon DEF RemovalInv, RoomInv
    <3>3. Pending("q1") = 1 \/ Pending("q2") = 1
      BY <1>1, <1>4 DEF Pending
    <3> HIDE DEF Pending
    <3> QED  BY <3>1, <3>2, <3>3, SMT
  <2>9. /\ doing' \in [Removers -> Threads] /\ doing'[q].at \in {"refused", "send"}
        /\ doing'[q].at = "send" => doing'[q].task = t
        /\ \A y \in Removers : \/ y = q \/ doing'[y] = doing[y]
                               \/ y \in Workers /\ doing'[y].at = "begin" /\ doing'[y].task = t
    <3>1. t \in 0..2
      BY <2>8, SMT
    <3> HIDE DEF t
    <3>2. CASE doing[q].clean
      <4>1. WorkerOf(t) \in Workers /\ WorkerOf(t) \in Removers /\ WorkerOf(t) # q
        BY <1>1, Zenon DEF WorkerOf, Workers, Removers, Requests
      <4> DEFINE w == WorkerOf(t)
                 b == [Nothing EXCEPT !.at = "begin", !.task = t]
                 e == [Nothing EXCEPT !.at = "refused"]
      <4>2. b \in Threads /\ b.at = "begin" /\ b.task = t /\ e \in Threads /\ e.at = "refused"
        <5>1. "begin" \in Steps
          BY Zenon DEF Steps
        <5> QED  BY <3>1, <5>1, NothingIsThread, Zenon
      <4>3. doing' = [doing EXCEPT ![q] = e, ![w] = b]
        BY <1>6, <3>2, Zenon
      <4> HIDE DEF w, b, e
      <4>4. w \in Workers /\ w \in Removers /\ w # q
        BY <4>1, Zenon DEF w
      <4> QED  BY <1>1, <1>3, <4>2, <4>3, <4>4, Zenon
    <3>3. CASE ~doing[q].clean
      <4> DEFINE d == [doing[q] EXCEPT !.at = "send", !.task = t]
      <4>1. doing' = [doing EXCEPT ![q] = d]
        <5>1. doing' = [doing EXCEPT ![q].at = "send", ![q].task = t]
          BY <1>6, <3>3, Zenon
        <5> QED  BY <1>3, <5>1, ZenonT(30)
      <4>2. d \in Threads /\ d.at = "send" /\ d.task = t
        BY <1>3, <3>1, Zenon DEF Threads, Steps
      <4> HIDE DEF d
      <4> QED  BY <1>1, <1>3, <4>1, <4>2, Zenon
    <3> QED  BY <3>2, <3>3
  <2> HIDE DEF t
  <2>10. ThreadsInv'
    <3>0. Requests \subseteq Removers /\ Workers \subseteq Removers /\ "reader" \in Removers /\ "redispatch" \in Removers
      BY Zenon DEF Removers
    <3>1. ASSUME NEW y \in Requests PROVE RequestOK(y)'
      <4>1. CASE y = q
        BY <2>3, <2>9, <4>1, Zenon DEF RequestOK
      <4>2. CASE y # q
        <5>1. y \in Removers /\ ~(y \in Workers)
          BY Zenon DEF Requests, Workers, Removers
        <5> QED  BY <1>4, <2>4, <2>9, <4>2, <5>1, ThreadsStand, Zenon DEF RemovalInv
      <4> QED  BY <4>1, <4>2
    <3>2. ASSUME NEW y \in Workers PROVE WorkerOK(y)'
      <4>1. y \in Removers /\ y # q
        BY <1>1, <3>0, Zenon
      <4>2. CASE doing'[y] = doing[y]
        BY <1>4, <2>4, <4>2, ThreadsStand, Zenon DEF RemovalInv
      <4>3. CASE doing'[y].at = "begin" /\ doing'[y].task = t
        BY <2>3, <4>3, Zenon DEF WorkerOK
      <4> QED  BY <2>9, <4>1, <4>2, <4>3, Zenon
    <3>3. ~("reader" \in Workers) /\ ~("redispatch" \in Workers)
      BY Zenon DEF Workers
    <3>4. ReaderOK' /\ RedispatchOK'
      BY <1>1, <1>4, <2>4, <2>9, <3>0, <3>3, ThreadsStand, Zenon DEF RemovalInv
    <3> QED  BY <2>9, <3>1, <3>2, <3>4, Zenon DEF ThreadsInv
  <2>11. RoomInv'
    <3>1. Pending(q) = 1 /\ Pending(q)' = 0
      BY <1>4, <2>9 DEF Pending
    <3>2. \A y \in Requests : y # q => Pending(y)' = Pending(y)
      <4>1. ASSUME NEW y \in Requests, y # q PROVE doing'[y] = doing[y]
        BY <2>9, <4>1, Zenon DEF Requests, Workers, Removers
      <4> QED  BY <4>1, Zenon DEF Pending
    <3>3. /\ Len(unreg) \in Nat /\ Pending("q1") \in 0..1 /\ Pending("q2") \in 0..1 /\ Len(unreg') = Len(unreg) + 1
      BY <2>2, <2>3 DEF Pending, t
    <3>4. Len(unreg) + Pending("q1") + Pending("q2") <= 2
      BY Zenon DEF RemovalInv, RoomInv
    <3>5. "q1" \in Requests /\ "q2" \in Requests
      BY Zenon DEF Requests
    <3> HIDE DEF Pending
    <3>6. Len(unreg') + Pending("q1")' + Pending("q2")' <= 2
      BY <1>1, <3>1, <3>2, <3>3, <3>4, <3>5, SMT
    <3> QED  BY <3>6, Zenon DEF RoomInv
  <2> QED  BY <2>5, <2>6, <2>7, <2>10, <2>11, Zenon DEF RemovalInv
<1> QED  BY <1>5, <1>6, Zenon DEF CreateUnregister, Goto

\* The worker: it is past the repositories when they are empty, and the marker says so.
LEMMA WorkerSteps ==
  ASSUME RemovalInv, NEW w \in Workers,
         \/ BeginCleanup(w) \/ ListRelationships(w) \/ CleanupFails(w)
  PROVE  RemovalInv'
<1>1. /\ w \in Removers /\ ~(w \in Requests) /\ w # "reader" /\ w # "redispatch"
  BY Zenon DEF Requests, Workers, Removers
<1>2. /\ left \in [restarts : Nat, drops : Nat] /\ plans \subseteq Plans /\ online \in BOOLEAN /\ forced \in BOOLEAN
  BY Zenon DEF RemovalInv, EstateInv
<1>3. /\ doing \in [Removers -> Threads] /\ doing[w] \in Threads /\ WorkerOK(w) /\ doing[w].task \in 0..2
  BY <1>1, Zenon DEF RemovalInv, ThreadsInv, Threads
<1>4. Rest(w) = Nothing
  BY <1>1, Zenon DEF Rest
<1>5. CASE BeginCleanup(w)
  <2> DEFINE t == doing[w].task
             d == [doing[w] EXCEPT !.at = "clean", !.repos = unreg[t].repos, !.rel = unreg[t].rel]
  <2>1. /\ doing[w].at = "begin"
        /\ UNCHANGED <<estate, left, row, plans, objects, backup, online, uninstall, listed, forced>>
    BY <1>5, Zenon DEF BeginCleanup
  <2>2. /\ unreg[t] \in UnregisterTasks /\ unreg[t].repos = estate.repos /\ t \in DOMAIN unreg
    <3>1. t \in DOMAIN unreg
      BY <1>3, <2>1, Zenon DEF WorkerOK
    <3> HIDE DEF t
    <3>2. unreg[t] \in UnregisterTasks
      BY <3>1 DEF RemovalInv, RowsInv
    <3> QED  BY <3>1, <3>2, Zenon DEF RemovalInv, RowsInv
  <2>3. CASE /\ unreg' = SetTask(t, "running")
             /\ doing' = [doing EXCEPT ![w].at = "clean", ![w].repos = unreg[t].repos, ![w].rel = unreg[t].rel]
    <3>1. doing' = [doing EXCEPT ![w] = d]
      BY <1>3, <2>3, ZenonT(30)
    <3>2. d \in Threads /\ d.at = "clean" /\ d.repos = estate.repos /\ d.task = t
      BY <1>3, <2>2, Zenon DEF Threads, Steps, UnregisterTasks
    <3> HIDE DEF d
    <3>3. ASSUME DOMAIN unreg' = DOMAIN unreg, doing'[w] = d PROVE ThreadOK(w)'
      <4>1. objects' \cap estate'.repos \subseteq doing'[w].repos
        BY <2>1, <3>2, <3>3, Zenon
      <4>2. WorkerOK(w)'
        BY <2>2, <3>2, <3>3, <4>1, Zenon DEF WorkerOK
      <4> QED  BY <1>1, <4>2, Zenon DEF ThreadOK
    <3>4. "running" \in Statuses
      BY Zenon DEF Statuses
    <3> HIDE DEF Statuses, t
    <3>5. t \in 0..2
      BY <1>3, Zenon DEF t
    <3>6. unreg' = unreg \/ \E k \in 0..2 : \E s \in Statuses : unreg' = SetTask(k, s)
      BY <2>3, <3>4, <3>5, Zenon
    <3> QED  BY <1>1, <1>2, <2>1, <3>1, <3>2, <3>3, <3>6, QuietMove, Zenon
  <2>4. CASE unreg' = unreg /\ doing' = [doing EXCEPT ![w] = Nothing]
    BY <1>1, <1>2, <1>4, <2>1, <2>4, QuietEnd, Zenon
  <2> QED  BY <1>5, <2>3, <2>4, Zenon DEF BeginCleanup
<1>6. CASE CleanupFails(w)
  <2>1. "failed" \in Statuses
    BY Zenon DEF Statuses
  <2> HIDE DEF Statuses
  <2>2. unreg' = unreg \/ \E k \in 0..2 : \E s \in Statuses : unreg' = SetTask(k, s)
    BY <1>3, <1>6, <2>1, Zenon DEF CleanupFails
  <2>3. /\ doing' = [doing EXCEPT ![w] = Rest(w)]
        /\ UNCHANGED <<estate, left, row, plans, objects, backup, online, uninstall, listed, forced>>
    BY <1>4, <1>6, Zenon DEF CleanupFails
  <2> QED  BY <1>1, <1>2, <2>2, <2>3, QuietEnd, Zenon
<1>7. CASE ListRelationships(w)
  <2> DEFINE todo == IF doing[w].rel THEN plans ELSE {}
             a == IF doing[w].rel /\ plans # {} THEN "plans" ELSE "save"
             d == [doing[w] EXCEPT !.todo = todo, !.next = "save", !.at = a]
  <2>1. /\ doing[w].at = "list" /\ doing' = [doing EXCEPT ![w].todo = todo, ![w].next = "save", ![w].at = a]
        /\ UNCHANGED <<estate, left, row, plans, objects, unreg, backup, online, uninstall, listed, forced>>
    BY <1>7, Zenon DEF ListRelationships
  <2>2. todo \subseteq Plans /\ a \in {"plans", "save"} /\ a \in Steps /\ "save" \in Steps
    BY <1>2, Zenon DEF Steps
  <2> HIDE DEF todo, a
  <2>3. doing' = [doing EXCEPT ![w] = d]
    BY <1>3, <2>1, ZenonT(30)
  <2>4. d \in Threads /\ d.at = a /\ d.next = "save" /\ d.task = doing[w].task
    BY <1>3, <2>2, Zenon DEF Threads
  <2> HIDE DEF d
  <2>5. ASSUME Onward, DOMAIN unreg' = DOMAIN unreg, doing'[w] = d PROVE ThreadOK(w)'
    <3>1. Emptied' /\ doing'[w].task \in DOMAIN unreg'
      BY <1>3, <2>1, <2>4, <2>5, EmptiedStays, Zenon DEF WorkerOK
    <3>2. WorkerOK(w)'
      BY <2>2, <2>4, <2>5, <3>1, Zenon DEF WorkerOK
    <3> QED  BY <1>1, <3>2, Zenon DEF ThreadOK
  <2> QED  BY <1>1, <1>2, <2>1, <2>3, <2>4, <2>5, QuietMove, ZenonT(60)
<1> QED  BY <1>5, <1>6, <1>7, Zenon

\* One repository is emptied.
LEMMA RepositoryStep ==
  ASSUME RemovalInv, NEW w \in Workers, NEW r \in Repos, CleanRepository(w, r)
  PROVE  RemovalInv'
<1>1. /\ w \in Removers /\ ~(w \in Requests) /\ w # "reader" /\ w # "redispatch"
  BY Zenon DEF Requests, Workers, Removers
<1>2. /\ doing \in [Removers -> Threads] /\ doing[w] \in Threads /\ WorkerOK(w)
  BY <1>1, Zenon DEF RemovalInv, ThreadsInv
<1> DEFINE a == IF doing[w].repos = {r} THEN "list" ELSE doing[w].at
           d == [doing[w] EXCEPT !.repos = doing[w].repos \ {r}, !.at = a]
<1>3. /\ doing[w].at = "clean" /\ CheckRepositories(w) /\ objects' = objects \ {r}
      /\ UNCHANGED <<estate, left, row, plans, unreg, backup, online, uninstall, listed, forced>>
      /\ doing' = [doing EXCEPT ![w].repos = @ \ {r}, ![w].at = IF doing[w].repos = {r} THEN "list" ELSE @]
  BY Zenon DEF CleanRepository
<1>4. doing' = [doing EXCEPT ![w] = d]
  BY <1>2, <1>3, ZenonT(30)
<1>5. a \in Steps /\ doing[w].repos \ {r} \subseteq Repos /\ a \in {"list", "clean"} /\ (a = "list" => doing[w].repos = {r})
  BY <1>2, <1>3, Zenon DEF Threads, Steps
<1> HIDE DEF a
<1>6. d \in Threads /\ d.at = a /\ d.repos = doing[w].repos \ {r} /\ d.task = doing[w].task
  BY <1>2, <1>5, Zenon DEF Threads
<1> HIDE DEF d
<1>7. Onward
  BY <1>3, Zenon DEF Onward
<1>8. RowsInv' /\ Len(unreg') = Len(unreg)
  BY <1>3, <1>7, EmptiedStays, RowsStand, Zenon DEF RemovalInv
<1>9. CommandInv' /\ ListedInv'
  BY <1>3, <1>7, CommandsStand, ListStands, Zenon DEF RemovalInv
<1>10. EstateInv'
  <2>1. estate.repos \cap estate.foreign = {}
    BY <1>2, <1>3, Zenon DEF CheckRepositories, RemovalInv, RowsInv, WorkerOK
  <2>2. CleanupIsAllOrNothing'
    BY <1>3, <2>1, Zenon DEF CleanupIsAllOrNothing
  <2>3. objects' \subseteq Repos
    BY <1>3, Zenon DEF RemovalInv, EstateInv
  <2> QED  BY <1>3, <2>2, <2>3, Zenon DEF RemovalInv, EstateInv, RowOutlivesAgent
<1>11. WorkerOK(w)'
  <2>1. doing'[w] = d
    BY <1>1, <1>2, <1>4, Zenon
  <2>2. backup' = "none" => objects' \cap estate'.repos \subseteq doing[w].repos \ {r}
    BY <1>2, <1>3, Zenon DEF WorkerOK
  <2>3. a = "list" => Emptied'
    BY <1>5, <2>2, Zenon DEF Emptied
  <2> QED  BY <1>2, <1>3, <1>5, <1>6, <2>1, <2>2, <2>3, Zenon DEF WorkerOK
<1> QED  BY <1>1, <1>3, <1>4, <1>6, <1>7, <1>8, <1>9, <1>10, <1>11, ThreadMoves, Zenon

\* The marker is saved by a worker that has emptied the repositories.
LEMMA MarkerStep ==
  ASSUME RemovalInv, NEW w \in Workers, SaveMarker(w)
  PROVE  RemovalInv'
<1> DEFINE t == doing[w].task
<1>1. /\ w \in Removers /\ ~(w \in Requests) /\ w # "reader" /\ w # "redispatch"
  BY Zenon DEF Requests, Workers, Removers
<1>2. /\ doing \in [Removers -> Threads] /\ doing[w] \in Threads /\ WorkerOK(w)
      /\ left \in [restarts : Nat, drops : Nat] /\ plans \subseteq Plans /\ online \in BOOLEAN /\ forced \in BOOLEAN
  BY <1>1, Zenon DEF RemovalInv, ThreadsInv, EstateInv
<1>3. /\ doing[w].at = "save" /\ unreg' = [SetTask(t, "queued") EXCEPT ![t].ready = Active(t)]
      /\ UNCHANGED <<estate, left, row, plans, objects, backup, online, uninstall, listed, forced>>
      /\ \/ doing' = [doing EXCEPT ![w].at = "send"]
         \/ doing' = [doing EXCEPT ![w] = Nothing]
  BY Zenon DEF SaveMarker
<1>4. Emptied /\ t \in DOMAIN unreg
  BY <1>2, <1>3, Zenon DEF WorkerOK
<1> HIDE DEF t
<1>5. /\ DOMAIN unreg' = DOMAIN unreg /\ unreg' = [k \in DOMAIN unreg |-> unreg'[k]]
      /\ \A k \in DOMAIN unreg : /\ unreg'[k] \in UnregisterTasks /\ unreg'[k].repos = unreg[k].repos
                                 /\ unreg'[k].clean = unreg[k].clean
  <2> DEFINE S == SetTask(t, "queued")
  <2>1. /\ DOMAIN S = DOMAIN unreg /\ S = [k \in DOMAIN unreg |-> S[k]]
        /\ \A k \in DOMAIN unreg : /\ S[k] \in UnregisterTasks /\ S[k].repos = unreg[k].repos
                                   /\ S[k].clean = unreg[k].clean
    <3>1. "queued" \in {"queued", "running", "dispatched", "finalizing", "succeeded", "failed"} /\ RowsInv
      BY Zenon DEF RemovalInv
    <3> QED  BY <3>1, StatusSet
  <2>2. unreg' = [S EXCEPT ![t].ready = Active(t)]
    BY <1>3, Zenon
  <2>3. Active(t) \in BOOLEAN
    BY Zenon DEF Active
  <2> HIDE DEF S
  <2>4. unreg' = [k \in DOMAIN unreg |-> IF k = t THEN [S[k] EXCEPT !.ready = Active(t)] ELSE S[k]]
    BY <2>1, <2>2, Zenon
  <2>5. \A u \in UnregisterTasks : /\ [u EXCEPT !.ready = Active(t)] \in UnregisterTasks
                                   /\ [u EXCEPT !.ready = Active(t)].repos = u.repos
                                   /\ [u EXCEPT !.ready = Active(t)].clean = u.clean
    BY <2>3, Zenon DEF UnregisterTasks
  <2> QED  BY <2>1, <2>4, <2>5, Zenon
<1>6. Onward
  BY <1>3, <1>5, Zenon DEF Onward
<1>7. RowsInv' /\ Len(unreg') = Len(unreg)
  <2>1. Emptied'
    BY <1>4, <1>6, EmptiedStays, Zenon
  <2>2. \A k \in DOMAIN unreg : /\ unreg'[k] \in UnregisterTasks /\ unreg'[k].repos = unreg[k].repos
                                /\ unreg'[k].ready => unreg[k].ready \/ Emptied'
    BY <1>5, <2>1, Zenon
  <2> QED  BY <1>3, <1>5, <2>1, <2>2, RowsMap, Zenon DEF RemovalInv
<1>8. CommandInv' /\ ListedInv'
  BY <1>3, <1>6, CommandsStand, ListStands, Zenon DEF RemovalInv
<1>9. EstateInv'
  BY <1>2, <1>3, EstateStands, Zenon DEF RemovalInv
<1>10. CASE doing' = [doing EXCEPT ![w].at = "send"]
  <2> DEFINE d == [doing[w] EXCEPT !.at = "send"]
  <2>1. doing' = [doing EXCEPT ![w] = d]
    BY <1>2, <1>10, Zenon
  <2>2. "send" \in Steps
    BY Zenon DEF Steps
  <2>3. d \in Threads /\ d.at = "send" /\ d.task = doing[w].task
    BY <1>2, <2>2, FieldsOf, Zenon
  <2> HIDE DEF d
  <2>4. doing'[w] = d
    BY <1>1, <1>2, <2>1, Zenon
  <2>5. WorkerOK(w)'
    BY <1>4, <1>5, <1>6, <2>3, <2>4, EmptiedStays, Zenon DEF WorkerOK, t
  <2> QED  BY <1>1, <1>3, <1>6, <1>7, <1>8, <1>9, <2>1, <2>3, <2>5, ThreadMoves, Zenon
<1>11. CASE doing' = [doing EXCEPT ![w] = Nothing]
  <2>1. Rest(w) = Nothing
    BY <1>1, Zenon DEF Rest
  <2>2. doing'[w] = Nothing
    BY <1>1, <1>2, <1>11, Zenon
  <2>3. Nothing \in Threads /\ ThreadOK(w)'
    <3> HIDE DEF Nothing, Rest
    <3>1. doing'[w] = Rest(w)
      BY <2>1, <2>2, Zenon
    <3>2. Rest(w) \in Threads /\ (doing'[w] = Rest(w) => ThreadOK(w)')
      BY <1>1, RestIsQuiet, Zenon
    <3> QED  BY <2>1, <3>1, <3>2, Zenon
  <2>4. WorkerOK(w)'
    BY <2>3, Zenon DEF ThreadOK
  <2> HIDE DEF Nothing
  <2> QED  BY <1>1, <1>3, <1>6, <1>7, <1>8, <1>9, <1>11, <2>3, <2>4, ThreadMoves, Zenon
<1> QED  BY <1>3, <1>10, <1>11, Zenon

LEMMA TasksAreFew == RemovalInv => DOMAIN unreg \subseteq Tasks
<1> SUFFICES ASSUME RemovalInv PROVE DOMAIN unreg \subseteq Tasks
  OBVIOUS
<1>1. RemovalSafety
  BY RemovalInvSuffices
<1>2. Len(unreg) <= 2 /\ unreg \in Seq(UnregisterTasks)
  BY <1>1, Zenon DEF RemovalSafety, RemovalTypeOK
<1> QED  BY <1>2 DEF Tasks

LEMMA InvReads ==
  ASSUME RemovalInv, NEW x \in Removers
  PROVE  /\ doing \in [Removers -> Threads] /\ doing[x] \in Threads /\ doing[x].task \in 0..2 /\ ThreadOK(x)
         /\ left \in [restarts : Nat, drops : Nat] /\ plans \subseteq Plans /\ online \in BOOLEAN /\ forced \in BOOLEAN
BY Zenon DEF RemovalInv, ThreadsInv, EstateInv, ThreadOK, Threads

\* A task is sent: its repositories are empty, or it was not to empty them.
LEMMA SendStep ==
  ASSUME RemovalInv, NEW x \in Removers, Send(x)
  PROVE  RemovalInv'
<1> DEFINE t == doing[x].task
           task == IF x = "redispatch" THEN listed.tasks[t] ELSE unreg[t]
<1>1. /\ doing \in [Removers -> Threads] /\ doing[x] \in Threads /\ t \in 0..2 /\ ThreadOK(x)
      /\ left \in [restarts : Nat, drops : Nat] /\ plans \subseteq Plans /\ online \in BOOLEAN /\ forced \in BOOLEAN
  BY InvReads, Zenon
<1>2. /\ doing[x].at = "send"
      /\ UNCHANGED <<estate, left, row, plans, objects, backup, online, listed, forced>>
  BY Zenon DEF Send
<1>3. t \in DOMAIN unreg /\ (x = "redispatch" => t \in DOMAIN listed.tasks) /\ x # "reader"
  <2>1. x \in Requests => t \in DOMAIN unreg
    BY <1>1, <1>2, Zenon DEF ThreadOK, RequestOK
  <2>2. x \in Workers => t \in DOMAIN unreg
    BY <1>1, <1>2, Zenon DEF ThreadOK, WorkerOK
  <2>3. x # "reader"
    BY <1>1, <1>2, Zenon DEF ThreadOK, ReaderOK
  <2>4. x = "redispatch" => t \in DOMAIN listed.tasks
    BY <1>1, <1>2, Zenon DEF ThreadOK, RedispatchOK
  <2>5. DOMAIN listed.tasks \subseteq DOMAIN unreg
    BY Zenon DEF RemovalInv, ListedInv
  <2> QED  BY <2>1, <2>2, <2>3, <2>4, <2>5, Zenon DEF Removers
<1>4. CASE /\ uninstall' = [uninstall EXCEPT !.got = @ \cup {t}] /\ unreg' = unreg
           /\ doing' = [doing EXCEPT ![x].at = "mark"] /\ Dispatchable(task)
  <2> HIDE DEF task
  <2>1. t \in Tasks
    BY <1>3, TasksAreFew, Zenon
  <2>2. unreg[t].clean => Emptied
    <3>1. CASE x = "redispatch"
      <4>1. task = listed.tasks[t]
        BY <3>1, Zenon DEF task
      <4> QED  BY <1>3, <1>4, <3>1, <4>1, Zenon DEF Dispatchable, RemovalInv, ListedInv
    <3>2. CASE x # "redispatch"
      <4>1. task = unreg[t]
        BY <3>2, Zenon DEF task
      <4> QED  BY <1>3, <1>4, <4>1, Zenon DEF Dispatchable, RemovalInv, RowsInv
    <3> QED  BY <3>1, <3>2
  <2>3. /\ uninstall' \in Uninstaller /\ uninstall'.at = uninstall.at /\ uninstall'.task = uninstall.task
        /\ uninstall'.got = uninstall.got \cup {t}
    <3>1. uninstall \in Uninstaller /\ uninstall.got \cup {t} \subseteq Tasks
      BY <2>1, Zenon DEF RemovalInv, CommandInv, Uninstaller
    <3> HIDE DEF t
    <3>2. uninstall' = [uninstall EXCEPT !.got = uninstall.got \cup {t}]
      BY <1>4, Zenon
    <3> QED  BY <3>1, <3>2, Zenon DEF Uninstaller
  <2>4. Onward /\ RowsInv' /\ Len(unreg') = Len(unreg)
    BY <1>2, <1>4, <2>3, QuietStep, Zenon DEF RemovalInv
  <2>5. CommandInv'
    <3>1. ASSUME NEW k \in uninstall'.got PROVE k \in DOMAIN unreg' /\ (unreg'[k].clean => Emptied')
      <4>1. CASE k = t
        BY <1>3, <1>4, <2>2, <2>4, <4>1, EmptiedStays, Zenon
      <4>2. CASE k \in uninstall.got
        BY <1>4, <2>4, <4>2, EmptiedStays, Zenon DEF RemovalInv, CommandInv
      <4> HIDE DEF t
      <4> QED  BY <2>3, <3>1, <4>1, <4>2, Zenon
    <3>2. uninstall'.at \in {"working", "failing", "reporting"} =>
            uninstall'.task \in DOMAIN unreg' /\ (unreg'[uninstall'.task].clean => Emptied')
      BY <1>4, <2>3, <2>4, EmptiedStays, Zenon DEF RemovalInv, CommandInv
    <3> QED  BY <2>3, <3>1, <3>2, Zenon DEF CommandInv
  <2>6. ListedInv'
    BY <1>2, <2>4, ListStands, Zenon DEF RemovalInv
  <2>7. EstateInv'
    BY <1>1, <1>2, <2>3, EstateStands, Zenon DEF RemovalInv
  <2> DEFINE d == [doing[x] EXCEPT !.at = "mark"]
  <2>8. doing' = [doing EXCEPT ![x] = d]
    BY <1>1, <1>4, Zenon
  <2>9. "mark" \in Steps
    BY Zenon DEF Steps
  <2>10. d \in Threads /\ d.at = "mark" /\ d.task = t
    BY <1>1, <2>9, FieldsOf, Zenon
  <2> HIDE DEF d
  <2>11. doing'[x] = d
    BY <1>1, <2>8, Zenon
  <2>12. x \in Requests => RequestOK(x)'
    BY <1>3, <1>4, <2>10, <2>11, Zenon DEF RequestOK
  <2>13. x \in Workers => WorkerOK(x)'
    BY <1>1, <1>2, <1>3, <1>4, <2>4, <2>10, <2>11, EmptiedStays, Zenon DEF WorkerOK, ThreadOK
  <2>14. x = "redispatch" => RedispatchOK'
    BY <1>2, <1>3, <2>10, <2>11, Zenon DEF RedispatchOK
  <2> QED
    BY <1>2, <1>3, <2>4, <2>5, <2>6, <2>7, <2>8, <2>10, <2>12, <2>13, <2>14, ThreadMoves, Zenon
<1>5. CASE /\ uninstall' = uninstall /\ unreg' = SetTask(t, "queued")
           /\ doing' = [doing EXCEPT ![x] = Rest(x)]
  <2>1. "queued" \in Statuses
    BY Zenon DEF Statuses
  <2> HIDE DEF Statuses, t
  <2>2. unreg' = unreg \/ \E k \in 0..2 : \E s \in Statuses : unreg' = SetTask(k, s)
    BY <1>1, <1>5, <2>1, Zenon
  <2> QED  BY <1>1, <1>2, <1>5, <2>2, QuietEnd, Zenon
<1> QED  BY <1>4, <1>5, Zenon DEF Send, Goto, Rest

LEMMA MarkStep ==
  ASSUME RemovalInv, NEW x \in Removers, MarkDispatched(x)
  PROVE  RemovalInv'
<1>1. doing[x].task \in 0..2 /\ left \in [restarts : Nat, drops : Nat]
  BY InvReads, Zenon
<1>2. /\ doing' = [doing EXCEPT ![x] = Rest(x)] /\ unreg' = SetTask(doing[x].task, "dispatched")
      /\ UNCHANGED <<estate, left, row, plans, objects, backup, online, uninstall, listed, forced>>
  BY Zenon DEF MarkDispatched, Rest
<1>3. "dispatched" \in Statuses
  BY Zenon DEF Statuses
<1> HIDE DEF Statuses
<1>4. unreg' = unreg \/ \E k \in 0..2 : \E s \in Statuses : unreg' = SetTask(k, s)
  BY <1>1, <1>2, <1>3, Zenon
<1> QED  BY <1>1, <1>2, <1>4, QuietEnd, Zenon

\* The hub is closed, and the rows go.
LEMMA ClosingSteps ==
  ASSUME RemovalInv, NEW x \in Removers, CloseHub(x) \/ DeleteClusterRows(x) \/ DeletionFails(x)
  PROVE  RemovalInv'
<1>1. /\ doing \in [Removers -> Threads] /\ doing[x] \in Threads /\ doing[x].task \in 0..2 /\ ThreadOK(x)
      /\ left \in [restarts : Nat, drops : Nat] /\ plans \subseteq Plans /\ online \in BOOLEAN /\ forced \in BOOLEAN
  BY InvReads, Zenon
<1>2. /\ doing[x].at \in {"close", "delete"}
      /\ UNCHANGED <<estate, objects, backup, uninstall, listed, forced>>
  BY Zenon DEF CloseHub, DeleteClusterRows, DeletionFails
<1>3. /\ x \in Requests \/ x = "reader"
      /\ x \in Requests => forced /\ ~(x \in Workers) /\ x # "reader" /\ x # "redispatch"
      /\ x = "reader" => uninstall.at \in {"reporting", "gone"} /\ ~(x \in Workers) /\ x # "redispatch" /\ ~(x \in Requests)
  <2>1. ~(x \in Workers) /\ x # "redispatch"
    BY <1>1, <1>2, Zenon DEF ThreadOK, WorkerOK, RedispatchOK
  <2>2. x \in Requests => forced /\ x # "reader"
    BY <1>1, <1>2, Zenon DEF ThreadOK, RequestOK, Requests
  <2>3. x = "reader" => uninstall.at \in {"reporting", "gone"} /\ ~(x \in Requests)
    BY <1>1, <1>2, Zenon DEF ThreadOK, ReaderOK, Requests
  <2> QED  BY <2>1, <2>2, <2>3, Zenon DEF Removers
<1>4. \A a \in {"delete", "succeed", "refused"} : a \in Steps
  BY Zenon DEF Steps
<1>5. ASSUME NEW a \in {"delete", "succeed", "refused"}, doing' = [doing EXCEPT ![x].at = a],
             x \in Requests => a # "succeed", x = "reader" => a # "refused",
             EstateInv', UNCHANGED unreg
      PROVE  RemovalInv'
  <2> DEFINE d == [doing[x] EXCEPT !.at = a]
  <2>1. doing' = [doing EXCEPT ![x] = d]
    BY <1>1, <1>5, Zenon
  <2>2. d \in Threads /\ d.at = a
    BY <1>1, <1>4, FieldsOf, Zenon
  <2> HIDE DEF d
  <2>3. doing'[x] = d
    BY <1>1, <2>1, Zenon
  <2>4. x \in Requests => RequestOK(x)'
    BY <1>2, <1>3, <1>5, <2>2, <2>3, Zenon DEF RequestOK
  <2>5. x = "reader" => ReaderOK'
    BY <1>2, <1>3, <1>5, <2>2, <2>3, Zenon DEF ReaderOK
  <2>6. Onward /\ RowsInv' /\ Len(unreg') = Len(unreg)
    BY <1>2, <1>5, QuietStep, Zenon DEF RemovalInv
  <2>7. CommandInv' /\ ListedInv'
    BY <1>2, <2>6, CommandsStand, ListStands, Zenon DEF RemovalInv
  <2>8. ~(d.at \in {"idle", "plans", "create"})
    BY <2>2, Zenon
  <2> QED  BY <1>2, <1>3, <1>5, <2>1, <2>2, <2>4, <2>5, <2>6, <2>7, <2>8, ThreadMoves, Zenon
<1>6. CASE CloseHub(x)
  <2>1. EstateInv'
    BY <1>1, <1>6, EstateStands, Zenon DEF CloseHub, RemovalInv
  <2>2. doing' = [doing EXCEPT ![x].at = "delete"] /\ UNCHANGED unreg
    BY <1>6, Zenon DEF CloseHub, Goto
  <2> QED  BY <1>5, <2>1, <2>2, Zenon
<1>7. CASE DeleteClusterRows(x)
  <2> DEFINE a == IF x = "reader" THEN "succeed" ELSE "refused"
  <2>1. row' = FALSE /\ plans' = {} /\ doing' = [doing EXCEPT ![x].at = a] /\ UNCHANGED <<unreg, left, online>>
    BY <1>7, Zenon DEF DeleteClusterRows, Goto
  <2>2. EstateInv'
    <3>1. CleanupIsAllOrNothing' /\ RowOutlivesAgent'
      BY <1>2, <1>3, <2>1, Zenon DEF RemovalInv, EstateInv, CleanupIsAllOrNothing, RowOutlivesAgent
    <3> QED  BY <1>1, <1>2, <2>1, <3>1, Zenon DEF RemovalInv, EstateInv
  <2>3. a \in {"delete", "succeed", "refused"} /\ (x \in Requests => a # "succeed") /\ (x = "reader" => a # "refused")
    BY <1>3, Zenon
  <2> HIDE DEF a
  <2> QED  BY <1>5, <2>1, <2>2, <2>3, Zenon
<1>8. CASE DeletionFails(x)
  <2>1. /\ left' = [left EXCEPT !.drops = left.drops - 1] /\ left.drops > 0
        /\ UNCHANGED <<estate, row, plans, objects, backup, online, uninstall, listed, forced>>
    BY <1>8, Zenon DEF DeletionFails
  <2>2. left.drops - 1 \in Nat /\ left.restarts \in Nat
    BY <1>1, <2>1
  <2>3. left' \in [restarts : Nat, drops : Nat]
    BY <1>1, <2>1, <2>2, Zenon
  <2>4. EstateInv'
    BY <1>1, <2>1, <2>3, EstateStands, Zenon DEF RemovalInv
  <2>5. CASE x = "reader"
    <3>1. unreg' = SetTask(doing[x].task, "failed") /\ doing' = [doing EXCEPT ![x] = Rest(x)]
      BY <1>3, <1>8, <2>5, Zenon DEF DeletionFails, Rest
    <3>2. "failed" \in Statuses
      BY Zenon DEF Statuses
    <3> HIDE DEF Statuses
    <3>3. unreg' = unreg \/ \E k \in 0..2 : \E s \in Statuses : unreg' = SetTask(k, s)
      BY <1>1, <3>1, <3>2, Zenon
    <3> QED  BY <2>1, <2>3, <3>1, <3>3, QuietEnd, Zenon
  <2>6. CASE x # "reader"
    <3>1. UNCHANGED unreg /\ doing' = [doing EXCEPT ![x].at = "refused"]
      BY <1>8, <2>6, Zenon DEF DeletionFails, Goto
    <3> QED  BY <1>5, <2>4, <2>6, <3>1, Zenon
  <2> QED  BY <2>5, <2>6
<1> QED  BY <1>6, <1>7, <1>8

\* A stored task is looked at: it goes to its worker, or to the agent.
LEMMA RedispatchStep ==
  ASSUME RemovalInv, NEW t \in Tasks, Redispatch(t)
  PROVE  RemovalInv'
<1>1. t \in 0..2 /\ WorkerOf(t) \in Workers /\ WorkerOf(t) \in Removers /\ "redispatch" \in Removers
  BY DEF Tasks, WorkerOf, Workers, Removers
<1>2. /\ doing \in [Removers -> Threads]
      /\ left \in [restarts : Nat, drops : Nat] /\ plans \subseteq Plans /\ online \in BOOLEAN /\ forced \in BOOLEAN
  BY <1>1, InvReads, Zenon
<1>3. /\ UNCHANGED <<estate, left, row, plans, objects, unreg, backup, online, uninstall, forced>>
      /\ t \in listed.todo /\ listed' = [listed EXCEPT !.todo = listed.todo \ {t}]
  BY Zenon DEF Redispatch
<1>4. /\ listed' \in [tasks : Seq(UnregisterTasks), todo : SUBSET Tasks] /\ listed'.tasks = listed.tasks
      /\ listed'.todo \subseteq listed.todo
  <2>1. listed \in [tasks : Seq(UnregisterTasks), todo : SUBSET Tasks] /\ listed.todo \ {t} \subseteq Tasks
    BY Zenon DEF RemovalInv, ListedInv
  <2> QED  BY <1>3, <2>1, Zenon
<1>5. Onward /\ RowsInv' /\ Len(unreg') = Len(unreg)
  BY <1>3, QuietStep, Zenon DEF RemovalInv
<1>6. ListedInv'
  BY <1>3, <1>4, <1>5, EmptiedStays, Zenon DEF RemovalInv, ListedInv
<1>7. CommandInv' /\ EstateInv'
  BY <1>2, <1>3, <1>5, CommandsStand, EstateStands, Zenon DEF RemovalInv
<1>8. t \in DOMAIN listed.tasks /\ t \in DOMAIN unreg
  BY <1>3, Zenon DEF RemovalInv, ListedInv
<1> DEFINE b == [Nothing EXCEPT !.at = "begin", !.task = t]
           c == [Nothing EXCEPT !.at = "send", !.task = t]
<1>9. /\ b \in Threads /\ b.at = "begin" /\ b.task = t /\ c \in Threads /\ c.at = "send" /\ c.task = t
  <2>1. "begin" \in Steps /\ "send" \in Steps
    BY Zenon DEF Steps
  <2> QED  BY <1>1, <2>1, NothingIsThread, Zenon
<1>10. \/ doing' = doing
       \/ doing' = [doing EXCEPT ![WorkerOf(t)] = b]
       \/ doing' = [doing EXCEPT !["redispatch"] = c]
  <2>1. \/ doing' = doing
        \/ doing' = [doing EXCEPT ![WorkerOf(t)] = IF @.at = "idle" THEN b ELSE @]
        \/ doing' = [doing EXCEPT !["redispatch"] = c]
    BY Zenon DEF Redispatch
  <2> HIDE DEF b, c
  <2>2. ASSUME doing' = [doing EXCEPT ![WorkerOf(t)] = IF @.at = "idle" THEN b ELSE @]
        PROVE  doing' = doing \/ doing' = [doing EXCEPT ![WorkerOf(t)] = b]
    <3>1. CASE doing[WorkerOf(t)].at = "idle"
      BY <1>1, <1>2, <2>2, <3>1, Zenon
    <3>2. CASE doing[WorkerOf(t)].at # "idle"
      <4>1. doing' = [doing EXCEPT ![WorkerOf(t)] = doing[WorkerOf(t)]]
        BY <1>1, <1>2, <2>2, <3>2, Zenon
      <4> QED  BY <1>1, <1>2, <4>1, Zenon
    <3> QED  BY <3>1, <3>2
  <2> QED  BY <2>1, <2>2, Zenon
<1> HIDE DEF b, c
<1>11. CASE doing' = doing
  BY <1>4, <1>5, <1>6, <1>7, <1>11, NoThreadMoves, Zenon
<1>12. CASE doing' = [doing EXCEPT ![WorkerOf(t)] = b]
  <2> DEFINE w == WorkerOf(t)
  <2>1. w \in Workers /\ w \in Removers /\ ~(w \in Requests) /\ w # "reader" /\ w # "redispatch"
    BY <1>1, Zenon DEF Workers, Requests
  <2>2. doing' = [doing EXCEPT ![w] = b]
    BY <1>12, Zenon
  <2> HIDE DEF w
  <2>3. doing'[w] = b
    BY <1>2, <2>1, <2>2, Zenon
  <2>4. WorkerOK(w)'
    BY <1>3, <1>8, <1>9, <2>3, Zenon DEF WorkerOK
  <2> QED  BY <1>4, <1>5, <1>6, <1>7, <1>9, <2>1, <2>2, <2>4, ThreadMoves, Zenon
<1>13. CASE doing' = [doing EXCEPT !["redispatch"] = c]
  <2>1. doing'["redispatch"] = c
    BY <1>1, <1>2, <1>13, Zenon
  <2>2. RedispatchOK'
    BY <1>4, <1>8, <1>9, <2>1, Zenon DEF RedispatchOK
  <2>3. ~("redispatch" \in Requests) /\ ~("redispatch" \in Workers) /\ "redispatch" # "reader"
    BY Zenon DEF Requests, Workers
  <2> QED  BY <1>1, <1>4, <1>5, <1>6, <1>7, <1>9, <1>13, <2>2, <2>3, ThreadMoves, Zenon
<1> QED  BY <1>10, <1>11, <1>12, <1>13

\* The reader receives the completion, and completes the task.
LEMMA ReaderSteps ==
  ASSUME RemovalInv, ReceiveCompleted \/ CompleteUnregister
  PROVE  RemovalInv'
<1> DEFINE x == "reader"
<1>1. x \in Removers /\ ~(x \in Requests) /\ ~(x \in Workers) /\ x # "redispatch"
  BY Zenon DEF Requests, Workers, Removers
<1>2. /\ doing \in [Removers -> Threads] /\ doing[x].task \in 0..2 /\ ThreadOK(x)
      /\ left \in [restarts : Nat, drops : Nat] /\ plans \subseteq Plans /\ online \in BOOLEAN /\ forced \in BOOLEAN
  BY <1>1, InvReads, Zenon
<1>3. uninstall \in Uninstaller /\ uninstall.task \in 0..2
  BY Zenon DEF RemovalInv, CommandInv, Uninstaller
<1>4. CASE ReceiveCompleted
  <2> DEFINE d == [Nothing EXCEPT !.at = "close", !.task = uninstall.task]
  <2>1. /\ uninstall.at = "reporting" /\ unreg' = SetTask(uninstall.task, "finalizing") /\ doing' = [doing EXCEPT ![x] = d]
        /\ UNCHANGED <<estate, left, row, plans, objects, backup, online, uninstall, listed, forced>>
    BY <1>4, Zenon DEF ReceiveCompleted
  <2>2. "close" \in Steps /\ "finalizing" \in Statuses
    BY Zenon DEF Steps, Statuses
  <2>3. d \in Threads /\ d.at = "close"
    BY <1>3, <2>2, NothingIsThread, Zenon
  <2> HIDE DEF d, Statuses, x
  <2>4. unreg' = unreg \/ \E k \in 0..2 : \E s \in Statuses : unreg' = SetTask(k, s)
    BY <1>3, <2>1, <2>2, Zenon
  <2>5. doing'[x] = d => ThreadOK(x)'
    <3>1. ASSUME doing'[x] = d PROVE x = "reader" => ReaderOK'
      BY <2>1, <2>3, <3>1, Zenon DEF ReaderOK
    <3> QED  BY <1>1, <3>1, Zenon DEF ThreadOK
  <2> QED  BY <1>1, <1>2, <2>1, <2>3, <2>4, <2>5, QuietMove, Zenon
<1>5. CASE CompleteUnregister
  <2>1. /\ doing[x].at = "succeed" /\ unreg' = SetTask(doing[x].task, "succeeded") /\ doing' = [doing EXCEPT ![x] = Nothing]
        /\ uninstall' = [uninstall EXCEPT !.at = "gone"]
        /\ UNCHANGED <<estate, left, row, plans, objects, backup, online, listed, forced>>
    BY <1>5, Zenon DEF CompleteUnregister
  <2>2. uninstall' \in Uninstaller /\ uninstall'.at = "gone" /\ uninstall'.got = uninstall.got
    BY <1>3, <2>1, Zenon DEF Uninstaller
  <2>3. "succeeded" \in Statuses
    BY Zenon DEF Statuses
  <2>4. Rest(x) = Nothing
    BY <1>1, Zenon DEF Rest
  <2> HIDE DEF Statuses, x, Nothing, Rest
  <2>5. unreg' = unreg \/ \E k \in 0..2 : \E s \in Statuses : unreg' = SetTask(k, s)
    BY <1>2, <2>1, <2>3, Zenon
  <2>6. Onward /\ RowsInv' /\ Len(unreg') = Len(unreg) /\ DOMAIN unreg' = DOMAIN unreg
    BY <2>1, <2>2, <2>5, QuietStep, Zenon DEF RemovalInv
  <2>7. CommandInv'
    BY <2>2, <2>6, EmptiedStays, Zenon DEF RemovalInv, CommandInv, Onward
  <2>8. ListedInv' /\ EstateInv'
    BY <1>2, <2>1, <2>2, <2>6, ListStands, EstateStands, Zenon DEF RemovalInv
  <2>9. doing'[x] = Rest(x)
    BY <1>1, <1>2, <2>1, <2>4, Zenon
  <2>10. Rest(x) \in Threads /\ ThreadOK(x)'
    BY <1>1, <2>9, RestIsQuiet, Zenon
  <2>11. x = "reader" => ReaderOK'
    BY <2>10, Zenon DEF ThreadOK
  <2> QED  BY <1>1, <2>1, <2>4, <2>6, <2>7, <2>8, <2>10, <2>11, ThreadMoves, Zenon
<1> QED  BY <1>4, <1>5

\* The agent takes a command, runs it, and reports.
LEMMA AgentSteps ==
  ASSUME RemovalInv,
         (\E t \in Tasks : AcceptUnregister(t)) \/ RunUninstall \/ ReportFailed \/ AgentStops \/ RestartUninstaller
  PROVE  RemovalInv'
<1>0. "reader" \in Removers
  BY Zenon DEF Removers
<1>1. left \in [restarts : Nat, drops : Nat] /\ plans \subseteq Plans /\ online \in BOOLEAN /\ forced \in BOOLEAN
  BY <1>0, InvReads, Zenon
<1>2. uninstall \in Uninstaller /\ uninstall.task \in 0..2 /\ uninstall.got \subseteq Tasks /\ uninstall.lost \subseteq Tasks
  BY Zenon DEF RemovalInv, CommandInv, Uninstaller
<1>3. ASSUME UNCHANGED <<estate, row, plans, objects, backup, doing, listed, forced>>,
             left' \in [restarts : Nat, drops : Nat], online' \in BOOLEAN, uninstall' \in Uninstaller,
             uninstall.at \in {"reporting", "gone"} => uninstall'.at \in {"reporting", "gone"},
             unreg' = unreg \/ \E t \in 0..2 : \E s \in Statuses : unreg' = SetTask(t, s),
             uninstall'.got \subseteq uninstall.got,
             uninstall'.at \in {"working", "failing", "reporting"} =>
               \/ uninstall.at \in {"working", "failing", "reporting"} /\ uninstall'.task = uninstall.task
               \/ uninstall'.task \in uninstall.got
      PROVE  RemovalInv'
  <2>1. Onward /\ RowsInv' /\ Len(unreg') = Len(unreg) /\ DOMAIN unreg' = DOMAIN unreg
    BY <1>3, QuietStep, Zenon DEF RemovalInv
  <2>2. CommandInv'
    <3>1. \A k \in DOMAIN unreg : (unreg[k].clean => Emptied) => (unreg'[k].clean => Emptied')
      BY <2>1, EmptiedStays, Zenon DEF Onward
    <3>2. \A t \in uninstall'.got : t \in DOMAIN unreg' /\ (unreg'[t].clean => Emptied')
      BY <1>3, <2>1, <3>1, Zenon DEF RemovalInv, CommandInv
    <3>3. uninstall'.at \in {"working", "failing", "reporting"} =>
            uninstall'.task \in DOMAIN unreg' /\ (unreg'[uninstall'.task].clean => Emptied')
      BY <1>3, <2>1, <3>1, Zenon DEF RemovalInv, CommandInv
    <3> QED  BY <1>3, <3>2, <3>3, Zenon DEF CommandInv
  <2>3. ListedInv' /\ EstateInv'
    BY <1>1, <1>3, <2>1, ListStands, EstateStands, Zenon DEF RemovalInv
  <2> QED  BY <1>3, <2>1, <2>2, <2>3, NoThreadMoves, Zenon
<1>4. ASSUME NEW t \in Tasks, AcceptUnregister(t) PROVE RemovalInv'
  <2>1. /\ t \in uninstall.got /\ uninstall.at = "idle"
        /\ UNCHANGED <<estate, left, row, plans, objects, backup, online, doing, listed, forced>>
    BY <1>4, Zenon DEF AcceptUnregister
  <2>2. t \in 0..2 /\ "running" \in Statuses
    BY DEF Tasks, Statuses
  <2> HIDE DEF Statuses
  <2>3. CASE /\ uninstall' = [uninstall EXCEPT !.got = uninstall.got \ {t}, !.task = t, !.at = "working"]
             /\ unreg' = SetTask(t, "running")
    <3>1. uninstall' \in Uninstaller /\ uninstall'.got = uninstall.got \ {t} /\ uninstall'.task = t
      <4>1. uninstall.got \ {t} \subseteq Tasks
        BY <1>2, Zenon
      <4> QED  BY <1>2, <2>2, <2>3, <4>1, Zenon DEF Uninstaller
    <3>2. uninstall'.got \subseteq uninstall.got
      BY <3>1, Zenon
    <3>3. unreg' = unreg \/ \E k \in 0..2 : \E s \in Statuses : unreg' = SetTask(k, s)
      BY <2>2, <2>3, Zenon
    <3>4. ~(uninstall.at \in {"reporting", "gone"})
      BY <2>1, Zenon
    <3> QED  BY <1>1, <1>3, <2>1, <3>1, <3>2, <3>3, <3>4, Zenon
  <2>4. CASE uninstall' = [uninstall EXCEPT !.got = uninstall.got \ {t}] /\ unreg' = unreg
    <3>1. /\ uninstall' \in Uninstaller /\ uninstall'.got = uninstall.got \ {t} /\ uninstall'.at = uninstall.at
          /\ uninstall'.task = uninstall.task
      <4>1. uninstall.got \ {t} \subseteq Tasks
        BY <1>2, Zenon
      <4> QED  BY <1>2, <2>4, <4>1, Zenon DEF Uninstaller
    <3>2. uninstall'.got \subseteq uninstall.got
      BY <3>1, Zenon
    <3> QED  BY <1>1, <1>3, <2>1, <2>4, <3>1, <3>2, Zenon
  <2> QED  BY <1>4, <2>3, <2>4, Zenon DEF AcceptUnregister
<1>5. CASE RunUninstall
  <2>1. PICK a \in {"failing", "reporting"} : uninstall' = [uninstall EXCEPT !.at = a]
    BY <1>5, Zenon DEF RunUninstall
  <2>2. /\ uninstall.at = "working"
        /\ UNCHANGED <<estate, left, row, plans, objects, unreg, backup, online, doing, listed, forced>>
    BY <1>5, Zenon DEF RunUninstall
  <2>3. /\ uninstall' \in Uninstaller /\ uninstall'.got = uninstall.got /\ uninstall'.task = uninstall.task
    BY <1>2, <2>1, Zenon DEF Uninstaller
  <2> QED  BY <1>1, <1>3, <2>2, <2>3, Zenon
<1>6. CASE ReportFailed
  <2>1. /\ uninstall.at = "failing" /\ unreg' = SetTask(uninstall.task, "failed")
        /\ uninstall' = [uninstall EXCEPT !.at = "idle", !.task = 0]
        /\ UNCHANGED <<estate, left, row, plans, objects, backup, online, doing, listed, forced>>
    BY <1>6, Zenon DEF ReportFailed
  <2>2. "failed" \in Statuses /\ 0 \in 0..2
    BY SMT DEF Statuses
  <2>3. /\ uninstall' \in Uninstaller /\ uninstall'.got = uninstall.got /\ uninstall'.at = "idle"
    BY <1>2, <2>1, <2>2, Zenon DEF Uninstaller
  <2> HIDE DEF Statuses
  <2>4. unreg' = unreg \/ \E k \in 0..2 : \E s \in Statuses : unreg' = SetTask(k, s)
    BY <1>2, <2>1, <2>2, Zenon
  <2> QED  BY <1>1, <1>3, <2>1, <2>3, <2>4, Zenon
<1>7. CASE AgentStops
  <2>1. /\ uninstall' = [uninstall EXCEPT !.at = "gone"]
        /\ UNCHANGED <<estate, left, row, plans, objects, unreg, backup, online, doing, listed, forced>>
    BY <1>7, Zenon DEF AgentStops
  <2>2. /\ uninstall' \in Uninstaller /\ uninstall'.got = uninstall.got /\ uninstall'.at = "gone"
    BY <1>2, <2>1, Zenon DEF Uninstaller
  <2> QED  BY <1>1, <1>3, <2>1, <2>2, Zenon
<1>8. CASE RestartUninstaller
  <2>1. /\ uninstall.at = "working" /\ left.drops > 0 /\ left' = [left EXCEPT !.drops = left.drops - 1] /\ online' = FALSE
        /\ uninstall' = [got |-> {}, task |-> 0, lost |-> {uninstall.task}, at |-> "idle"]
        /\ UNCHANGED <<estate, row, plans, objects, unreg, backup, doing, listed, forced>>
    BY <1>8, Zenon DEF RestartUninstaller
  <2>2. left.drops - 1 \in Nat /\ 0 \in 0..2
    BY <1>1, <2>1
  <2>3. left' \in [restarts : Nat, drops : Nat]
    BY <1>1, <2>1, <2>2, Zenon
  <2>4. uninstall.task \in Tasks
    BY <2>1, TasksAreFew, Zenon DEF RemovalInv, CommandInv
  <2>5. /\ uninstall' \in Uninstaller /\ uninstall'.got = {} /\ uninstall'.at = "idle"
    BY <2>1, <2>2, <2>4, Zenon DEF Uninstaller
  <2>6. uninstall'.got \subseteq uninstall.got /\ online' \in BOOLEAN
    BY <2>1, <2>5, Zenon
  <2> QED  BY <1>3, <2>1, <2>3, <2>5, <2>6, Zenon
<1> QED  BY <1>4, <1>5, <1>6, <1>7, <1>8

\* The connection drops and comes back, the platform restarts, and a backup runs.
LEMMA SurroundingSteps ==
  ASSUME RemovalInv, DropConnection \/ Reconnect \/ StartBackup \/ FinishBackup
  PROVE  RemovalInv'
<1>0. "reader" \in Removers
  BY Zenon DEF Removers
<1>1. left \in [restarts : Nat, drops : Nat] /\ plans \subseteq Plans /\ online \in BOOLEAN /\ forced \in BOOLEAN
  BY <1>0, InvReads, Zenon
<1>2. CASE DropConnection
  <2>1. /\ left.drops > 0 /\ left' = [left EXCEPT !.drops = left.drops - 1] /\ online' = FALSE
        /\ UNCHANGED <<estate, row, plans, objects, unreg, backup, uninstall, doing, listed, forced>>
    BY <1>2, Zenon DEF DropConnection
  <2>2. left.drops - 1 \in Nat
    BY <1>1, <2>1
  <2>3. left' \in [restarts : Nat, drops : Nat] /\ online' \in BOOLEAN
    BY <1>1, <2>1, <2>2, Zenon
  <2>4. Onward /\ RowsInv' /\ Len(unreg') = Len(unreg)
    BY <2>1, QuietStep, Zenon DEF RemovalInv
  <2>5. EstateInv' /\ CommandInv' /\ ListedInv'
    BY <1>1, <2>1, <2>3, <2>4, EstateStands, CommandsStand, ListStands, Zenon DEF RemovalInv
  <2> QED  BY <2>1, <2>4, <2>5, NoThreadMoves, Zenon
<1>3. CASE Reconnect
  <2>1. /\ doing["redispatch"] = Nothing /\ online' = TRUE /\ listed' = [tasks |-> unreg, todo |-> DOMAIN unreg]
        /\ UNCHANGED <<estate, left, row, plans, objects, unreg, backup, uninstall, doing, forced>>
    BY <1>3, Zenon DEF Reconnect
  <2>2. Onward /\ RowsInv' /\ Len(unreg') = Len(unreg)
    BY <2>1, QuietStep, Zenon DEF RemovalInv
  <2>3. EstateInv' /\ CommandInv'
    BY <1>1, <2>1, <2>2, EstateStands, CommandsStand, Zenon DEF RemovalInv
  <2>4. listed'.tasks = unreg /\ listed'.todo = DOMAIN unreg
    BY <2>1, Zenon
  <2>5. ListedInv'
    <3>1. DOMAIN unreg \subseteq Tasks /\ unreg \in Seq(UnregisterTasks)
      BY TasksAreFew, Zenon DEF RemovalInv, RowsInv
    <3>2. listed' \in [tasks : Seq(UnregisterTasks), todo : SUBSET Tasks]
      BY <2>1, <3>1, Zenon
    <3> QED  BY <2>1, <2>2, <2>4, <3>2, Zenon DEF ListedInv, RowsInv
  <2>6. DOMAIN listed.tasks \subseteq DOMAIN listed'.tasks
    BY <2>4, Zenon DEF RemovalInv, ListedInv
  <2> QED  BY <2>1, <2>2, <2>3, <2>5, <2>6, NoThreadMoves, Zenon
<1>4. CASE StartBackup \/ FinishBackup
  <2>1. /\ backup' \in {"active", "ended"} /\ objects' \subseteq Repos /\ objects \subseteq objects'
        /\ UNCHANGED <<estate, left, row, plans, unreg, online, uninstall, doing, listed, forced>>
    <3>1. estate.repos \subseteq Repos
      BY EstateAssumption, Zenon DEF RemovalInv, EstateInv
    <3>2. objects \subseteq Repos
      BY Zenon DEF RemovalInv, EstateInv
    <3> QED  BY <1>4, <3>1, <3>2, Zenon DEF StartBackup, FinishBackup
  <2>2. Onward /\ Emptied'
    BY <2>1, Zenon DEF Onward, Emptied
  <2>3. RowsInv' /\ CommandInv' /\ ListedInv'
    BY <2>1, <2>2, RowsStand, CommandsStand, ListStands, Zenon DEF RemovalInv
  <2>4. EstateInv'
    BY <1>1, <2>1, Zenon DEF RemovalInv, EstateInv, CleanupIsAllOrNothing, RowOutlivesAgent
  <2> QED  BY <2>1, <2>2, <2>3, <2>4, NoThreadMoves, Zenon
<1> QED  BY <1>2, <1>3, <1>4

\* No thread survives a restart of the platform; the rows do.
LEMMA RestartStep ==
  ASSUME RemovalInv, RestartPlatform
  PROVE  RemovalInv'
<1>0. "reader" \in Removers
  BY Zenon DEF Removers
<1>1. /\ left \in [restarts : Nat, drops : Nat] /\ plans \subseteq Plans /\ online \in BOOLEAN /\ forced \in BOOLEAN
  BY <1>0, InvReads, Zenon
<1>2. /\ left.restarts > 0 /\ left' = [left EXCEPT !.restarts = left.restarts - 1]
      /\ online' = FALSE /\ listed' = [tasks |-> <<>>, todo |-> {}]
      /\ doing' = [x \in Removers |->
           IF x \in Requests /\ doing[x].at # "idle" THEN [Nothing EXCEPT !.at = "refused"] ELSE Nothing]
      /\ UNCHANGED <<estate, row, plans, objects, backup, uninstall, forced>>
  BY Zenon DEF RestartPlatform
<1>3. left.restarts - 1 \in Nat
  BY <1>1, <1>2
<1>4. left' \in [restarts : Nat, drops : Nat] /\ online' \in BOOLEAN
  BY <1>1, <1>2, <1>3, Zenon
<1>5. Emptied => Emptied'
  BY <1>2, Zenon DEF Emptied
<1>6. /\ DOMAIN unreg' = DOMAIN unreg /\ unreg' = [k \in DOMAIN unreg |-> unreg'[k]]
      /\ \A k \in DOMAIN unreg : /\ unreg'[k] \in UnregisterTasks /\ unreg'[k].repos = unreg[k].repos
                                 /\ unreg'[k].clean = unreg[k].clean /\ unreg'[k].ready = unreg[k].ready
  <2>1. /\ unreg = [k \in DOMAIN unreg |-> unreg[k]]
        /\ \A k \in DOMAIN unreg : unreg[k] \in UnregisterTasks
    BY DEF RemovalInv, RowsInv
  <2>2. CASE unreg' = unreg
    BY <2>1, <2>2
  <2>3. CASE unreg' = [t \in DOMAIN unreg |->
                         IF doing[WorkerOf(t)].at = "clean" THEN SetTask(t, "queued")[t] ELSE unreg[t]]
    <3>1. \A k \in DOMAIN unreg : /\ SetTask(k, "queued")[k] \in UnregisterTasks
                                  /\ SetTask(k, "queued")[k].repos = unreg[k].repos
                                  /\ SetTask(k, "queued")[k].clean = unreg[k].clean
                                  /\ SetTask(k, "queued")[k].ready = unreg[k].ready
      <4>1. "queued" \in {"queued", "running", "dispatched", "finalizing", "succeeded", "failed"} /\ RowsInv
        BY Zenon DEF RemovalInv
      <4> QED  BY <4>1, StatusSet
    <3>2. \A k \in DOMAIN unreg : unreg'[k] = SetTask(k, "queued")[k] \/ unreg'[k] = unreg[k]
      BY <2>3, Zenon
    <3>3. DOMAIN unreg' = DOMAIN unreg /\ unreg' = [k \in DOMAIN unreg |-> unreg'[k]]
      BY <2>3, Zenon
    <3> HIDE DEF SetTask
    <3>4. ASSUME NEW k \in DOMAIN unreg
          PROVE  /\ unreg'[k] \in UnregisterTasks /\ unreg'[k].repos = unreg[k].repos
                 /\ unreg'[k].clean = unreg[k].clean /\ unreg'[k].ready = unreg[k].ready
      <4>1. CASE unreg'[k] = unreg[k]
        BY <2>1, <4>1, SMT
      <4>2. CASE unreg'[k] = SetTask(k, "queued")[k]
        BY <3>1, <4>2, SMT
      <4> QED  BY <3>2, <4>1, <4>2
    <3> QED  BY <3>3, <3>4, Zenon
  <2> QED  BY <2>2, <2>3, Zenon DEF RestartPlatform
<1>7. RowsInv' /\ Len(unreg') = Len(unreg)
  <2>1. \A k \in DOMAIN unreg : /\ unreg'[k] \in UnregisterTasks /\ unreg'[k].repos = unreg[k].repos
                                /\ unreg'[k].ready => unreg[k].ready \/ Emptied'
    BY <1>6, Zenon
  <2> QED  BY <1>2, <1>5, <1>6, <2>1, RowsMap, Zenon DEF RemovalInv
<1>8. Onward
  BY <1>2, <1>6, Zenon DEF Onward
<1>9. EstateInv' /\ CommandInv'
  BY <1>1, <1>2, <1>4, <1>8, EstateStands, CommandsStand, Zenon DEF RemovalInv
<1>10. ListedInv'
  <2>1. <<>> \in Seq(UnregisterTasks) /\ DOMAIN <<>> = {}
    OBVIOUS
  <2>2. listed'.tasks = <<>> /\ listed'.todo = {} /\ listed' \in [tasks : Seq(UnregisterTasks), todo : SUBSET Tasks]
    BY <1>2, <2>1, Zenon
  <2>3. DOMAIN listed'.tasks = {}
    BY <2>1, <2>2
  <2> QED  BY <2>2, <2>3, Zenon DEF ListedInv
<1>11. /\ doing' \in [Removers -> Threads]
       /\ \A x \in Removers : \/ doing'[x].at = "idle" /\ (x \in Requests => doing[x].at = "idle")
                              \/ doing'[x].at = "refused" /\ x \in Requests
  BY <1>2, NothingIsThread, Zenon
<1>12. ThreadsInv'
  <2>0. Requests \subseteq Removers /\ Workers \subseteq Removers /\ "redispatch" \in Removers
        /\ ~("reader" \in Requests) /\ ~("redispatch" \in Requests) /\ \A w \in Workers : ~(w \in Requests)
    BY Zenon DEF Removers, Requests, Workers
  <2>1. \A q \in Requests : RequestOK(q)'
    BY <1>11, <2>0, Zenon DEF RequestOK
  <2>2. \A w \in Workers : WorkerOK(w)'
    BY <1>11, <2>0, Zenon DEF WorkerOK
  <2>3. ReaderOK' /\ RedispatchOK'
    BY <1>0, <1>11, <2>0, Zenon DEF ReaderOK, RedispatchOK
  <2> QED  BY <1>11, <2>1, <2>2, <2>3, Zenon DEF ThreadsInv
<1>13. RoomInv'
  <2>1. \A q \in Requests : doing'[q].at \in {"idle", "plans", "create"} => doing[q].at \in {"idle", "plans", "create"}
    BY <1>11, Zenon DEF Removers
  <2> QED  BY <1>7, <2>1, RoomKeeps, Zenon DEF RemovalInv
<1> QED  BY <1>7, <1>9, <1>10, <1>12, <1>13, Zenon DEF RemovalInv

\* Every step keeps the invariant.
LEMMA RemovalStep == RemovalInv /\ [RemovalNext]_remVars => RemovalInv'
<1> SUFFICES ASSUME RemovalInv, [RemovalNext]_remVars PROVE RemovalInv'
  OBVIOUS
<1>1. ASSUME NEW q \in Requests, ForceCleanup(q) \/ \E consent \in BOOLEAN : Audit(q, consent) PROVE RemovalInv'
  BY <1>1, RequestSteps, Zenon
<1>2. ASSUME NEW x \in Removers, ThreadStep(x) PROVE RemovalInv'
  <2>1. ASSUME NEW p \in Plans, RemoveRelationship(x, p) PROVE RemovalInv'
    BY <2>1, RelationshipStep, Zenon
  <2>2. CASE x \in Requests /\ CreateUnregister(x)
    BY <2>2, CreationStep, Zenon
  <2>3. CASE x \in Workers /\ (BeginCleanup(x) \/ ListRelationships(x) \/ CleanupFails(x))
    BY <2>3, WorkerSteps, Zenon
  <2>4. CASE x \in Workers /\ SaveMarker(x)
    BY <2>4, MarkerStep, Zenon
  <2>5. ASSUME x \in Workers, NEW r \in Repos, CleanRepository(x, r) PROVE RemovalInv'
    BY <2>5, RepositoryStep, Zenon
  <2>6. CASE Send(x)
    BY <2>6, SendStep, Zenon
  <2>7. CASE MarkDispatched(x)
    BY <2>7, MarkStep, Zenon
  <2>8. CASE CloseHub(x) \/ DeleteClusterRows(x) \/ DeletionFails(x)
    BY <2>8, ClosingSteps, Zenon
  <2>9. ASSUME NEW t \in Tasks, Redispatch(t) PROVE RemovalInv'
    BY <2>9, RedispatchStep, Zenon
  <2>10. CASE CompleteUnregister
    BY <2>10, ReaderSteps, Zenon
  <2> QED  BY <1>2, <2>1, <2>2, <2>3, <2>4, <2>5, <2>6, <2>7, <2>8, <2>9, <2>10, Zenon DEF ThreadStep
<1>3. CASE AgentStep \/ AgentStops \/ RestartUninstaller
  BY <1>3, AgentSteps, ReaderSteps, Zenon DEF AgentStep
<1>4. CASE DropConnection \/ Reconnect \/ StartBackup \/ FinishBackup
  BY <1>4, SurroundingSteps, Zenon
<1>5. CASE RestartPlatform
  BY <1>5, RestartStep, Zenon
<1>6. CASE UNCHANGED remVars
  <2>1. UNCHANGED <<estate, left, row, plans, objects, unreg, backup, online, uninstall, doing, listed, forced>>
    BY <1>6, Zenon DEF remVars
  <2>2. Onward /\ RowsInv' /\ Len(unreg') = Len(unreg)
    BY <2>1, QuietStep, Zenon DEF RemovalInv
  <2>3. left \in [restarts : Nat, drops : Nat] /\ plans \subseteq Plans /\ online \in BOOLEAN /\ forced \in BOOLEAN
    BY Zenon DEF RemovalInv, EstateInv
  <2>4. EstateInv' /\ CommandInv' /\ ListedInv'
    BY <2>1, <2>2, <2>3, EstateStands, CommandsStand, ListStands, Zenon DEF RemovalInv
  <2> QED  BY <2>1, <2>2, <2>4, NoThreadMoves, Zenon
<1> QED  BY <1>1, <1>2, <1>3, <1>4, <1>5, <1>6, Zenon DEF RemovalNext

LEMMA RemovalBegins == RemovalInit => RemovalInv
<1> SUFFICES ASSUME RemovalInit PROVE RemovalInv
  OBVIOUS
<1>1. /\ estate \in Estates /\ left = [restarts |-> estate.restarts, drops |-> estate.drops]
      /\ row = TRUE /\ plans = estate.plans /\ objects = (IF estate.points THEN estate.repos ELSE {})
      /\ unreg = <<>> /\ backup = "none" /\ online = TRUE /\ forced = FALSE
      /\ uninstall = [got |-> {}, task |-> 0, lost |-> {}, at |-> "idle"]
      /\ doing = [x \in Removers |-> Nothing] /\ listed = [tasks |-> <<>>, todo |-> {}]
  BY Zenon DEF RemovalInit
<1>2. estate \in Estate
  BY <1>1, EstateAssumption, Zenon DEF Estate
<1>3. RowsInv /\ Len(unreg) = 0
  BY <1>1 DEF RowsInv
<1>4. doing \in [Removers -> Threads] /\ \A x \in Removers : doing[x].at = "idle"
  BY <1>1, NothingIsThread, Zenon
<1>5. ThreadsInv
  <2>0. Requests \subseteq Removers /\ Workers \subseteq Removers /\ "redispatch" \in Removers /\ "reader" \in Removers
    BY Zenon DEF Removers
  <2>1. \A q \in Requests : RequestOK(q)
    BY <1>4, <2>0, Zenon DEF RequestOK
  <2>2. \A w \in Workers : WorkerOK(w)
    BY <1>4, <2>0, Zenon DEF WorkerOK
  <2>3. ReaderOK /\ RedispatchOK
    BY <1>4, <2>0, Zenon DEF ReaderOK, RedispatchOK
  <2> QED  BY <1>4, <2>1, <2>2, <2>3, Zenon DEF ThreadsInv
<1>6. RoomInv
  <2>1. Pending("q1") \in 0..1 /\ Pending("q2") \in 0..1
    BY DEF Pending
  <2> HIDE DEF Pending
  <2>2. Len(unreg) + Pending("q1") + Pending("q2") <= 2
    BY <1>3, <2>1, SMT
  <2> QED  BY <2>2, Zenon DEF RoomInv
<1>7. CommandInv
  <2>1. 0 \in 0..2
    BY SMT
  <2> QED  BY <1>1, <2>1, Zenon DEF CommandInv, Uninstaller
<1>8. ListedInv
  <2>1. <<>> \in Seq(UnregisterTasks) /\ DOMAIN <<>> = {}
    OBVIOUS
  <2>2. listed.tasks = <<>> /\ listed.todo = {} /\ listed \in [tasks : Seq(UnregisterTasks), todo : SUBSET Tasks]
    BY <1>1, <2>1, Zenon
  <2>3. DOMAIN listed.tasks = {}
    BY <2>1, <2>2
  <2> QED  BY <2>2, <2>3, Zenon DEF ListedInv
<1>9. EstateInv
  <2>1. left \in [restarts : Nat, drops : Nat] /\ plans \subseteq Plans /\ objects \subseteq Repos
    BY <1>1, <1>2, Zenon DEF Estate
  <2>2. CleanupIsAllOrNothing /\ RowOutlivesAgent
    BY <1>1, Zenon DEF CleanupIsAllOrNothing, RowOutlivesAgent
  <2> QED  BY <1>1, <2>1, <2>2, Zenon DEF EstateInv
<1> QED  BY <1>3, <1>5, <1>6, <1>7, <1>8, <1>9, Zenon DEF RemovalInv

\* Whatever the clusters, repositories, restarts, drops and requests: the agent never
\* uninstalls itself before the data of its task is gone, the objects go all or not at all,
\* and the row outlives the agent (cleanupAndDispatchUnregister, dispatchStoredTask,
\* finishUnregisterTask).
THEOREM RemovalsAreOrdered == RemovalSpec => []RemovalSafety
<1>1. RemovalInit => RemovalInv
  BY RemovalBegins
<1>2. RemovalInv /\ [RemovalNext]_remVars => RemovalInv'
  BY RemovalStep
<1>3. RemovalInv => RemovalSafety
  BY RemovalInvSuffices
<1> QED  BY <1>1, <1>2, <1>3, PTL DEF RemovalSpec

\* "A failed storage cleanup must leave the source plan ... usable for a retry": the worker of
\* a task takes a relationship away only after the last object.
THEOREM DataGoesFirst == RemovalSpec => RelationshipsOutliveData
<1> DEFINE After == \A w \in Workers :
             doing[w].at = "plans" /\ doing'[w] # doing[w] /\ plans' # plans /\ backup = "none"
               => objects \cap unreg[doing[w].task].repos = {}
<1>1. ASSUME RemovalInv PROVE After
  <2>1. SUFFICES ASSUME NEW w \in Workers, doing[w].at = "plans", backup = "none"
                 PROVE  objects \cap unreg[doing[w].task].repos = {}
    BY Zenon
  <2>2. WorkerOK(w)
    BY <1>1, Zenon DEF RemovalInv, ThreadsInv
  <2>3. Emptied /\ doing[w].task \in DOMAIN unreg
    BY <2>1, <2>2, Zenon DEF WorkerOK
  <2>4. unreg[doing[w].task].repos = estate.repos
    BY <1>1, <2>3, Zenon DEF RemovalInv, RowsInv
  <2> QED  BY <2>1, <2>3, <2>4, Zenon DEF Emptied
<1>2. RemovalInv /\ [RemovalNext]_remVars => [After]_remVars
  BY <1>1, Zenon
<1>3. RemovalInit => RemovalInv
  BY RemovalBegins
<1>4. RemovalInv /\ [RemovalNext]_remVars => RemovalInv'
  BY RemovalStep
<1>5. RemovalSpec => [][After]_remVars
  BY <1>2, <1>3, <1>4, PTL DEF RemovalSpec
<1> QED  BY <1>5 DEF RelationshipsOutliveData

-----------------------------------------------------------------------------
(* Upgrades of the components *)

UpgradeRows == [kind : {"agent", "velero"}, st : {"queued", "dispatched", "running"} \cup UpgradeOver]
Askings == [at : {"idle", "create", "send", "mark", "over"}, task : 0..2,
            kind : {"agent", "velero"}, conn : Nat, todo : SUBSET UpgradeTasks]
RolloutRecords == [kinds : SUBSET {"agent", "velero"}, clerks : SUBSET Clerks, from : 0..1,
                   repair : BOOLEAN, oadp : BOOLEAN, tagged : BOOLEAN, drops : Nat, restarts : Nat]
Pods == {"agent", "server"} \cup Nodes

\* A request that may still create its task.
Ahead(q) == IF asking[q].at \in {"idle", "create"} THEN 1 ELSE 0

\* What the clusters row and a heartbeat show of the target has run: nothing that is shown
\* is taken from a template, except the image of the velero Deployment.
ShownHasRun(snap) ==
  /\ snap.agent = Target => "agent" \in ran
  /\ snap.digest = Target => "server" \in ran
  /\ snap.nodeDigest = Target => Nodes \subseteq ran

\* The parts of the invariant.  Two requests create two tasks: each is counted from the
\* moment that it may still create one.
TasksInv   == upgrades \in Seq(UpgradeRows) /\ SucceededHasRun
SendersInv ==
  /\ asking \in [Senders -> Askings] /\ Len(upgrades) + Ahead("u1") + Ahead("u2") <= 2
  /\ \A x \in Senders : asking[x].at = "send" => asking[x].task \in UpgradeTasks
CarriedInv ==
  /\ rollout \in RolloutRecords /\ link \in [now : Nat, last : Nat] /\ inbox \subseteq UpgradeTasks
  /\ applying \in [UpgradeTasks -> {"none", "accepted", "prepared", "server", "nodes", "waiting", "completed",
                                    "failed"}]
RunningInv ==
  /\ declared \in [Workloads -> Versions] /\ running \in [Pods -> Versions]
  /\ observed \subseteq Workloads /\ ran \subseteq Pods
  /\ \A p \in Pods : running[p] = Target => p \in ran
ShownInv ==
  /\ reported \in Snapshots /\ beat \in [at : {"none", "sent", "agent", "velero"}, is : Snapshots]
  /\ ShownHasRun(reported) /\ ShownHasRun(beat.is)
UpgradeInv == TasksInv /\ SendersInv /\ CarriedInv /\ RunningInv /\ ShownInv

LEMMA UpgradeInvSuffices == UpgradeInv => ComponentSafety
<1> SUFFICES ASSUME UpgradeInv PROVE ComponentSafety
  OBVIOUS
<1>1. Len(upgrades) <= 2
  <2>1. Len(upgrades) \in Nat /\ Ahead("u1") \in 0..1 /\ Ahead("u2") \in 0..1
    BY DEF UpgradeInv, TasksInv, Ahead
  <2>2. Len(upgrades) + Ahead("u1") + Ahead("u2") <= 2
    BY Zenon DEF UpgradeInv, SendersInv
  <2> HIDE DEF Ahead
  <2> QED  BY <2>1, <2>2, SMT
<1>2. \A t \in DOMAIN upgrades : upgrades[t] \in UpgradeRows
  BY DEF UpgradeInv, TasksInv
<1> QED
  BY <1>1, <1>2, Zenon DEF UpgradeInv, TasksInv, SendersInv, CarriedInv, RunningInv, ShownInv, ComponentSafety,
     UpgradeTypeOK, UpgradeRows, Askings, RolloutRecords, Pods

\* What a heartbeat reports has run when it is sent.
LEMMA SnapshotHasRun == RunningInv => Snapshot \in Snapshots /\ ShownHasRun(Snapshot)
<1> SUFFICES ASSUME RunningInv PROVE Snapshot \in Snapshots /\ ShownHasRun(Snapshot)
  OBVIOUS
<1>1. ASSUME NEW pods, pods \subseteq Pods, pods # {}
      PROVE  /\ CommonDigest(pods) \in Versions
             /\ CommonDigest(pods) = Target => pods \subseteq ran
  <2>1. CASE \E v \in {0, 1} : \A p \in pods : running[p] = v
    <3>1. /\ CommonDigest(pods) \in {0, 1}
          /\ \A p \in pods : running[p] = CommonDigest(pods)
      BY <2>1, Zenon DEF CommonDigest
    <3> QED  BY <1>1, <3>1, Zenon DEF Versions, RunningInv
  <2>2. CASE ~\E v \in {0, 1} : \A p \in pods : running[p] = v
    <3>1. CommonDigest(pods) = Down /\ Down # Target
      BY <2>2 DEF CommonDigest, Down, Target
    <3> QED  BY <3>1, Zenon DEF Versions
  <2> QED  BY <2>1, <2>2
<1>2. /\ CommonDigest({"server"}) \in Versions /\ CommonDigest(Nodes) \in Versions
      /\ CommonDigest({"server"}) = Target => "server" \in ran
      /\ CommonDigest(Nodes) = Target => Nodes \subseteq ran
  BY <1>1, NodesAssumption, Zenon DEF Pods
<1>3. /\ PodImageStatus \in Versions /\ declared["server"] \in Versions
      /\ PodImageStatus = Target => "agent" \in ran
      /\ ServerStatusReady \in BOOLEAN /\ NodesStatusReady \in BOOLEAN
  BY Zenon DEF RunningInv, PodImageStatus, Pods, Workloads, ServerStatusReady, NodesStatusReady
<1> HIDE DEF CommonDigest, PodImageStatus, ServerStatusReady, NodesStatusReady, Versions, Target
<1>4. Snapshot \in Snapshots
  BY <1>2, <1>3, Zenon DEF Snapshot, Snapshots
<1>5. /\ Snapshot.agent = PodImageStatus /\ Snapshot.digest = CommonDigest({"server"})
      /\ Snapshot.nodeDigest = CommonDigest(Nodes)
  BY Zenon DEF Snapshot
<1> QED  BY <1>2, <1>3, <1>4, <1>5, Zenon DEF ShownHasRun

\* A task is set to a status other than success: nothing succeeds by it.
LEMMA SetKeeps ==
  ASSUME TasksInv, NEW t, NEW s \in {"queued", "dispatched", "running", "failed"},
         upgrades' = SetUpgrade(t, s), ran \subseteq ran', rollout'.tagged = rollout.tagged
  PROVE  TasksInv' /\ Len(upgrades') = Len(upgrades)
<1>0. /\ Len(upgrades) \in Nat /\ DOMAIN upgrades = 1..Len(upgrades)
      /\ \A k \in DOMAIN upgrades : upgrades[k] \in UpgradeRows
  BY DEF TasksInv
<1> DEFINE set(r) == [r EXCEPT !.st = IF r.st \in UpgradeOver THEN r.st ELSE s]
<1>1. \A r \in UpgradeRows : /\ set(r) \in UpgradeRows /\ set(r).kind = r.kind
                             /\ set(r).st = "succeeded" => r.st = "succeeded"
  BY DEF UpgradeRows, UpgradeOver
<1>2. upgrades' = [k \in DOMAIN upgrades |-> IF k = t THEN set(upgrades[k]) ELSE upgrades[k]]
  BY Zenon DEF SetUpgrade
<1> HIDE DEF set
<1>3. /\ upgrades' \in [1..Len(upgrades) -> UpgradeRows] /\ DOMAIN upgrades' = DOMAIN upgrades
      /\ \A k \in DOMAIN upgrades : /\ upgrades'[k].kind = upgrades[k].kind
                                    /\ upgrades'[k].st = "succeeded" => upgrades[k].st = "succeeded"
  <2>1. DOMAIN upgrades' = DOMAIN upgrades
    BY <1>2, Zenon
  <2>2. ASSUME NEW k \in DOMAIN upgrades
        PROVE  /\ upgrades'[k] \in UpgradeRows /\ upgrades'[k].kind = upgrades[k].kind
               /\ upgrades'[k].st = "succeeded" => upgrades[k].st = "succeeded"
    <3>1. upgrades'[k] = IF k = t THEN set(upgrades[k]) ELSE upgrades[k]
      BY <1>2, Zenon
    <3>2. upgrades'[k] = set(upgrades[k]) \/ upgrades'[k] = upgrades[k]
      BY <3>1, Zenon
    <3>3. upgrades[k] \in UpgradeRows
      BY <1>0
    <3> QED  BY <1>1, <3>2, <3>3, Zenon
  <2>3. upgrades' = [k \in 1..Len(upgrades) |-> upgrades'[k]]
    BY <1>0, <1>2, <2>1, Zenon
  <2> QED  BY <1>0, <2>1, <2>2, <2>3, Zenon
<1>4. upgrades' \in Seq(UpgradeRows) /\ Len(upgrades') = Len(upgrades)
  BY <1>0, <1>3
<1>5. ASSUME NEW k \in DOMAIN upgrades, upgrades'[k].st = "succeeded"
      PROVE  IF upgrades'[k].kind = "agent" THEN "agent" \in ran'
             ELSE rollout'.tagged \/ Nodes \cup {"server"} \subseteq ran'
  <2>1. upgrades'[k].kind = upgrades[k].kind /\ upgrades[k].st = "succeeded"
    BY <1>3, <1>5, Zenon
  <2>2. IF upgrades[k].kind = "agent" THEN "agent" \in ran
        ELSE rollout.tagged \/ Nodes \cup {"server"} \subseteq ran
    BY <2>1, Zenon DEF TasksInv, SucceededHasRun
  <2>3. CASE upgrades[k].kind = "agent"
    BY <2>1, <2>2, <2>3, Zenon
  <2>4. CASE upgrades[k].kind # "agent"
    BY <2>1, <2>2, <2>4, Zenon
  <2> QED  BY <2>3, <2>4, Zenon
<1> QED  BY <1>3, <1>4, <1>5, Zenon DEF TasksInv, SucceededHasRun

LEMMA TasksKeep ==
  ASSUME TasksInv, UNCHANGED upgrades, ran \subseteq ran', rollout'.tagged = rollout.tagged
  PROVE  TasksInv'
BY Zenon DEF TasksInv, SucceededHasRun

\* One thread moves on.
LEMMA SenderMoves ==
  ASSUME SendersInv, TasksInv, NEW x \in Senders, NEW a \in {"mark", "over"},
         asking' = [asking EXCEPT ![x].at = a], Len(upgrades') = Len(upgrades),
         asking[x].at \notin {"idle", "create"} \/ x = "again"
  PROVE  SendersInv'
<1>1. /\ asking' \in [Senders -> Askings]
      /\ \A y \in Senders : y # x => asking'[y] = asking[y]
      /\ asking'[x].at = a
  BY SMTT(30) DEF SendersInv, Askings
<1>2. Ahead("u1")' <= Ahead("u1") /\ Ahead("u2")' <= Ahead("u2")
  BY <1>1 DEF Ahead, Senders, Clerks
<1>3. Ahead("u1")' \in 0..1 /\ Ahead("u2")' \in 0..1 /\ Ahead("u1") \in 0..1 /\ Ahead("u2") \in 0..1
      /\ Len(upgrades) \in Nat
  BY DEF Ahead, TasksInv
<1>4. Len(upgrades') + Ahead("u1")' + Ahead("u2")' <= 2
  <2>1. Len(upgrades) + Ahead("u1") + Ahead("u2") <= 2
    BY Zenon DEF SendersInv
  <2> HIDE DEF Ahead
  <2> QED  BY <1>2, <1>3, <2>1, SMT
<1> QED  BY <1>1, <1>4, Zenon DEF SendersInv

LEMMA SendersKeep ==
  ASSUME SendersInv, UNCHANGED asking, Len(upgrades') = Len(upgrades)
  PROVE  SendersInv'
BY Zenon DEF SendersInv, Ahead

LEMMA RunningKeeps == RunningInv /\ UNCHANGED cluster => RunningInv' /\ ran \subseteq ran'
BY Zenon DEF RunningInv, cluster

LEMMA ShownKeeps ==
  ASSUME ShownInv, UNCHANGED reported, beat'.is = beat.is, ran \subseteq ran',
         beat' \in [at : {"none", "sent", "agent", "velero"}, is : Snapshots]
  PROVE  ShownInv'
BY Zenon DEF ShownInv, ShownHasRun

LEMMA CarriedKeeps == CarriedInv /\ UNCHANGED <<rollout, link, inbox, applying>> => CarriedInv'
BY Zenon DEF CarriedInv

\* A thread of the agent moves on with one command.
LEMMA CommandMoves ==
  ASSUME CarriedInv, NEW t \in UpgradeTasks,
         NEW a \in {"none", "accepted", "prepared", "server", "nodes", "waiting", "completed", "failed"},
         applying' = [applying EXCEPT ![t] = a], UNCHANGED <<rollout, link>>, inbox' \subseteq inbox
  PROVE  CarriedInv'
BY Zenon DEF CarriedInv

LEMMA RestingIsAsking == Resting \in Askings
<1>1. 0 \in 0..2 /\ 0 \in Nat
  BY SMT
<1> QED  BY <1>1, Zenon DEF Resting, Askings

\* A request that has been checked may create its task, or is over.
LEMMA CheckedKeeps ==
  ASSUME SendersInv, TasksInv, CarriedInv, NEW q \in Clerks, NEW kind \in {"agent", "velero"}, NEW current,
         asking[q].at = "idle", Checked(q, kind, current), UNCHANGED upgrades
  PROVE  SendersInv'
<1>1. link.now \in Nat /\ q \in Senders
  BY Zenon DEF CarriedInv, Senders
<1>2. PICK r \in Askings : asking' = [asking EXCEPT ![q] = r] /\ r.at # "send"
  <2>1. [Resting EXCEPT !.at = "over"] \in Askings /\ [Resting EXCEPT !.at = "over"].at # "send"
    BY RestingIsAsking, Zenon DEF Askings
  <2>2. /\ [Resting EXCEPT !.at = "create", !.kind = kind, !.conn = link.now] \in Askings
        /\ [Resting EXCEPT !.at = "create", !.kind = kind, !.conn = link.now].at # "send"
    BY <1>1, RestingIsAsking, Zenon DEF Askings
  <2> QED  BY <2>1, <2>2, Zenon DEF Checked
<1>3. /\ asking' \in [Senders -> Askings]
      /\ \A y \in Senders : y # q => asking'[y] = asking[y]
      /\ asking'[q].at # "send"
  BY <1>1, <1>2, Zenon DEF SendersInv
<1>4. /\ Ahead("u1")' \in 0..1 /\ Ahead("u2")' \in 0..1 /\ Ahead("u1") \in 0..1 /\ Ahead("u2") \in 0..1
      /\ Len(upgrades) \in Nat
  BY DEF Ahead, TasksInv
<1>5. Ahead(q) = 1
  BY Zenon DEF Ahead
<1>6. Ahead("u1")' <= Ahead("u1") /\ Ahead("u2")' <= Ahead("u2")
  <2>1. CASE q = "u1"
    <3>1. Ahead("u1") = 1 /\ Ahead("u2")' = Ahead("u2")
      BY <1>3, <1>5, <2>1, Zenon DEF Ahead, Senders, Clerks
    <3> HIDE DEF Ahead
    <3> QED  BY <1>4, <3>1, SMT
  <2>2. CASE q = "u2"
    <3>1. Ahead("u2") = 1 /\ Ahead("u1")' = Ahead("u1")
      BY <1>3, <1>5, <2>2, Zenon DEF Ahead, Senders, Clerks
    <3> HIDE DEF Ahead
    <3> QED  BY <1>4, <3>1, SMT
  <2> QED  BY <2>1, <2>2, Zenon DEF Clerks
<1>7. Len(upgrades') + Ahead("u1")' + Ahead("u2")' <= 2
  <2>1. Len(upgrades) + Ahead("u1") + Ahead("u2") <= 2 /\ upgrades' = upgrades
    BY Zenon DEF SendersInv
  <2> HIDE DEF Ahead
  <2> QED  BY <1>4, <1>6, <2>1, SMT
<1> QED  BY <1>3, <1>7, Zenon DEF SendersInv

LEMMA UpgradeStep == UpgradeInv /\ [UpgradeNext]_upVars => UpgradeInv'
<1> SUFFICES ASSUME TasksInv, SendersInv, CarriedInv, RunningInv, ShownInv, [UpgradeNext]_upVars
             PROVE  TasksInv' /\ SendersInv' /\ CarriedInv' /\ RunningInv' /\ ShownInv'
  BY Zenon DEF UpgradeInv
<1> USE DEF cluster
<1>s. beat' = beat /\ reported' = reported /\ ran \subseteq ran' => ShownInv'
  BY ShownKeeps, Zenon DEF ShownInv
<1>r. UNCHANGED cluster => RunningInv' /\ ran \subseteq ran'
  BY RunningKeeps, Zenon
<1>1. ASSUME NEW q \in Clerks, upgradeClusterAgent(q) \/ upgradeClusterVelero(q) \/ upgradeOpenShiftOADP(q)
      PROVE  TasksInv' /\ SendersInv' /\ CarriedInv' /\ RunningInv' /\ ShownInv'
  <2>1. /\ asking[q].at = "idle"
        /\ \E kind \in {"agent", "velero"}, current \in {agentUpgradeTargetMatches(reported), veleroVerified(reported)} :
             Checked(q, kind, current)
        /\ UNCHANGED <<rollout, upgrades, link, inbox, applying, cluster, reported, beat>>
    BY <1>1, Zenon DEF upgradeClusterAgent, upgradeClusterVelero, upgradeOpenShiftOADP
  <2>2. SendersInv'
    BY <2>1, CheckedKeeps, Zenon
  <2> QED  BY <2>1, <2>2, <1>s, <1>r, TasksKeep, CarriedKeeps, Zenon
<1>2. ASSUME NEW q \in Clerks, CreateUpgrade(q)
      PROVE  TasksInv' /\ SendersInv' /\ CarriedInv' /\ RunningInv' /\ ShownInv'
  <2>1. /\ asking[q].at = "create" /\ q \in Senders /\ asking[q] \in Askings
        /\ UNCHANGED <<rollout, link, inbox, applying, cluster, reported, beat>>
    BY <1>2, Zenon DEF CreateUpgrade, SendersInv, Senders
  <2> DEFINE new == [kind |-> asking[q].kind, st |-> "queued"]
  <2>2. upgrades' = Append(upgrades, new) /\ new \in UpgradeRows /\ new.st # "succeeded"
    BY <1>2, <2>1, Zenon DEF CreateUpgrade, UpgradeRows, Askings
  <2> HIDE DEF new
  <2>3. /\ upgrades' \in Seq(UpgradeRows) /\ Len(upgrades) \in Nat /\ Len(upgrades') = Len(upgrades) + 1
        /\ DOMAIN upgrades' = DOMAIN upgrades \cup {Len(upgrades) + 1} /\ upgrades'[Len(upgrades) + 1] = new
        /\ \A k \in DOMAIN upgrades : upgrades'[k] = upgrades[k]
    BY <2>2 DEF TasksInv
  <2>4. TasksInv'
    BY <2>1, <2>2, <2>3, Zenon DEF TasksInv, SucceededHasRun
  <2>5. /\ Ahead("u1") \in 0..1 /\ Ahead("u2") \in 0..1 /\ Ahead(q) = 1
    BY <2>1 DEF Ahead
  <2>6. Len(upgrades) + 1 \in 0..2 /\ Len(upgrades) + 1 \in UpgradeTasks
    <3>1. Len(upgrades) + Ahead("u1") + Ahead("u2") <= 2
      BY Zenon DEF SendersInv
    <3>2. Ahead("u1") = 1 \/ Ahead("u2") = 1
      BY <2>5, Zenon DEF Clerks
    <3> HIDE DEF Ahead
    <3> QED  BY <2>3, <2>5, <3>1, <3>2, SMT DEF UpgradeTasks
  <2>7. /\ asking' \in [Senders -> Askings] /\ asking'[q].at = "send" /\ asking'[q].task \in UpgradeTasks
        /\ \A y \in Senders : y # q => asking'[y] = asking[y]
    <3>1. asking' = [asking EXCEPT ![q] = [asking[q] EXCEPT !.at = "send", !.task = Len(upgrades) + 1]]
      BY <1>2 DEF CreateUpgrade, SendersInv, Askings
    <3>2. [asking[q] EXCEPT !.at = "send", !.task = Len(upgrades) + 1] \in Askings
      BY <2>1, <2>6, Zenon DEF Askings
    <3>3. /\ [asking[q] EXCEPT !.at = "send", !.task = Len(upgrades) + 1].at = "send"
          /\ [asking[q] EXCEPT !.at = "send", !.task = Len(upgrades) + 1].task = Len(upgrades) + 1
      BY <2>1 DEF Askings
    <3> QED  BY <2>1, <2>6, <3>1, <3>2, <3>3, Zenon DEF SendersInv
  <2>8. Len(upgrades') + Ahead("u1")' + Ahead("u2")' <= 2
    <3>1. Len(upgrades) + Ahead("u1") + Ahead("u2") <= 2
      BY Zenon DEF SendersInv
    <3>2. CASE q = "u1"
      <4>1. Ahead("u1")' = 0 /\ Ahead("u2")' = Ahead("u2") /\ Ahead("u1") = 1
        BY <2>5, <2>7, <3>2, Zenon DEF Ahead, Senders, Clerks
      <4> HIDE DEF Ahead
      <4> QED  BY <2>3, <2>5, <3>1, <4>1, SMT
    <3>3. CASE q = "u2"
      <4>1. Ahead("u2")' = 0 /\ Ahead("u1")' = Ahead("u1") /\ Ahead("u2") = 1
        BY <2>5, <2>7, <3>3, Zenon DEF Ahead, Senders, Clerks
      <4> HIDE DEF Ahead
      <4> QED  BY <2>3, <2>5, <3>1, <4>1, SMT
    <3> QED  BY <3>2, <3>3, Zenon DEF Clerks
  <2>9. SendersInv'
    BY <2>7, <2>8, Zenon DEF SendersInv
  <2> QED  BY <2>1, <2>4, <2>9, <1>s, <1>r, CarriedKeeps, Zenon
<1>3. ASSUME NEW x \in Senders, SendUpgrade(x)
      PROVE  TasksInv' /\ SendersInv' /\ CarriedInv' /\ RunningInv' /\ ShownInv'
  <2>1. /\ asking[x].at = "send" /\ UNCHANGED <<rollout, link, applying, cluster, reported, beat>>
        /\ \E a \in {"mark", "over"} : asking' = [asking EXCEPT ![x].at = a]
        /\ UNCHANGED upgrades \/ upgrades' = SetUpgrade(asking[x].task, "queued")
    BY <1>3, Zenon DEF SendUpgrade
  <2>2. inbox' \subseteq inbox \cup {asking[x].task} /\ asking[x].task \in UpgradeTasks
    BY <1>3, <2>1, Zenon DEF SendUpgrade, SendersInv
  <2>3. TasksInv' /\ Len(upgrades') = Len(upgrades)
    BY <2>1, <1>r, TasksKeep, SetKeeps, Zenon
  <2>4. SendersInv'
    BY <2>1, <2>3, SenderMoves, Zenon
  <2>5. CarriedInv'
    BY <2>1, <2>2, Zenon DEF CarriedInv
  <2> QED  BY <2>1, <2>3, <2>4, <2>5, <1>s, <1>r, Zenon
<1>4. ASSUME NEW x \in Senders, MarkUpgrade(x)
      PROVE  TasksInv' /\ SendersInv' /\ CarriedInv' /\ RunningInv' /\ ShownInv'
  <2>1. /\ asking[x].at = "mark" /\ UNCHANGED <<rollout, link, inbox, applying, cluster, reported, beat>>
        /\ asking' = [asking EXCEPT ![x].at = "over"] /\ upgrades' = SetUpgrade(asking[x].task, "dispatched")
    BY <1>4, Zenon DEF MarkUpgrade
  <2>2. TasksInv' /\ Len(upgrades') = Len(upgrades)
    BY <2>1, <1>r, SetKeeps, Zenon
  <2>3. SendersInv'
    BY <2>1, <2>2, SenderMoves, Zenon
  <2> QED  BY <2>1, <2>2, <2>3, <1>s, <1>r, CarriedKeeps, Zenon
<1>5. ASSUME NEW t \in UpgradeTasks, ResendUpgrade(t)
      PROVE  TasksInv' /\ SendersInv' /\ CarriedInv' /\ RunningInv' /\ ShownInv'
  <2> DEFINE a == asking["again"]
             r == [a EXCEPT !.todo = a.todo \ {t}, !.task = t, !.at = "send"]
  <2>0. /\ asking' = [asking EXCEPT !["again"].todo = @ \ {t}, !["again"].task = t, !["again"].at = "send"]
        /\ UNCHANGED <<rollout, upgrades, link, inbox, applying, cluster, reported, beat>>
    BY <1>5, Zenon DEF ResendUpgrade
  <2>1. asking' = [asking EXCEPT !["again"] = r]
    BY <2>0 DEF SendersInv, Senders, Askings
  <2>2. a \in Askings /\ t \in 0..2
    BY DEF SendersInv, Senders, UpgradeTasks
  <2>3. r \in Askings /\ r.task = t
    BY <2>2, Zenon DEF Askings
  <2> HIDE DEF r
  <2>4. /\ asking' \in [Senders -> Askings] /\ asking'["again"].task \in UpgradeTasks
        /\ \A y \in Senders : y # "again" => asking'[y] = asking[y]
    BY <2>1, <2>3, Zenon DEF SendersInv, Senders
  <2>5. Ahead("u1")' = Ahead("u1") /\ Ahead("u2")' = Ahead("u2")
    BY <2>4, Zenon DEF Ahead, Senders, Clerks
  <2>6. SendersInv'
    BY <2>0, <2>4, <2>5, Zenon DEF SendersInv
  <2> QED  BY <2>0, <2>6, <1>s, <1>r, TasksKeep, CarriedKeeps, Zenon
<1>6. ASSUME NEW t \in UpgradeTasks, AcceptUpgrade(t)
      PROVE  TasksInv' /\ SendersInv' /\ CarriedInv' /\ RunningInv' /\ ShownInv'
  <2>1. /\ inbox' \subseteq inbox /\ UNCHANGED <<rollout, asking, link, cluster, reported, beat>>
        /\ \/ applying' = [applying EXCEPT ![t] = "accepted"] /\ upgrades' = SetUpgrade(t, "running")
           \/ UNCHANGED <<applying, upgrades>>
    BY <1>6, Zenon DEF AcceptUpgrade
  <2>2. TasksInv' /\ Len(upgrades') = Len(upgrades)
    BY <2>1, <1>r, TasksKeep, SetKeeps, Zenon
  <2>3. CarriedInv'
    BY <2>1, Zenon DEF CarriedInv
  <2> QED  BY <2>1, <2>2, <2>3, <1>s, <1>r, SendersKeep, Zenon
\* The agent's threads change the templates, and never the pods.
<1>7. ASSUME NEW t \in UpgradeTasks, PatchAgent(t) \/ PatchServer(t) \/ PatchNodes(t)
      PROVE  TasksInv' /\ SendersInv' /\ CarriedInv' /\ RunningInv' /\ ShownInv'
  <2>1. /\ UNCHANGED <<rollout, upgrades, asking, link, inbox, running, reported, beat, ran>>
        /\ \E a \in {"none", "completed", "failed", "server", "waiting"} : applying' = [applying EXCEPT ![t] = a]
        /\ observed' \subseteq observed
        /\ declared' = declared \/ \E w \in Workloads : declared' = [declared EXCEPT ![w] = Target]
    BY <1>7, Zenon DEF PatchAgent, PatchServer, PatchNodes, Workloads
  <2>2. CarriedInv'
    BY <2>1, CommandMoves, Zenon
  <2>3. RunningInv' /\ ran \subseteq ran'
    BY <2>1, Zenon DEF RunningInv, Versions, Target
  <2> QED  BY <2>1, <2>2, <2>3, <1>s, TasksKeep, SendersKeep, Zenon
<1>8. ASSUME NEW t \in UpgradeTasks, PrepareVelero(t) \/ SubscribeOADP(t) \/ WaitForRollout(t)
      PROVE  TasksInv' /\ SendersInv' /\ CarriedInv' /\ RunningInv' /\ ShownInv'
  <2>1. /\ UNCHANGED <<rollout, upgrades, asking, link, inbox, cluster, reported, beat>>
        /\ \E a \in {"prepared", "waiting", "completed", "failed"} : applying' = [applying EXCEPT ![t] = a]
    BY <1>8, Zenon DEF PrepareVelero, SubscribeOADP, WaitForRollout
  <2>2. CarriedInv'
    BY <2>1, CommandMoves, Zenon
  <2> QED  BY <2>1, <2>2, <1>s, <1>r, TasksKeep, SendersKeep, Zenon
<1>9. ASSUME NEW t \in UpgradeTasks, ReportUpgrade(t)
      PROVE  TasksInv' /\ SendersInv' /\ CarriedInv' /\ RunningInv' /\ ShownInv'
  <2>1. /\ UNCHANGED <<rollout, asking, link, inbox, cluster, reported, beat>>
        /\ applying' = [applying EXCEPT ![t] = "none"]
        /\ upgrades' = SetUpgrade(t, "failed") \/ upgrades' = SetUpgrade(t, "running")
    BY <1>9, Zenon DEF ReportUpgrade
  <2>2. TasksInv' /\ Len(upgrades') = Len(upgrades)
    BY <2>1, <1>r, SetKeeps, Zenon
  <2>3. CarriedInv'
    BY <2>1, CommandMoves, Zenon
  <2> QED  BY <2>1, <2>2, <2>3, <1>s, <1>r, SendersKeep, Zenon
<1>10. ASSUME NEW t \in UpgradeTasks, TimeOutUpgrade(t)
       PROVE  TasksInv' /\ SendersInv' /\ CarriedInv' /\ RunningInv' /\ ShownInv'
  <2>1. /\ UNCHANGED <<rollout, asking, link, inbox, applying, cluster, reported, beat>>
        /\ upgrades' = SetUpgrade(t, "failed")
    BY <1>10, Zenon DEF TimeOutUpgrade
  <2>2. TasksInv' /\ Len(upgrades') = Len(upgrades)
    BY <2>1, <1>r, SetKeeps, Zenon
  <2> QED  BY <2>1, <2>2, <1>s, <1>r, SendersKeep, CarriedKeeps, Zenon
<1>11. CASE OperatorUpdates \/ \E w \in Workloads : Observe(w)
  <2>1. /\ UNCHANGED <<rollout, upgrades, asking, link, inbox, applying, running, reported, beat, ran>>
        /\ observed' \subseteq observed \cup Workloads
        /\ declared' = declared \/ declared' = [declared EXCEPT !["server"] = Target, !["nodes"] = Target]
    BY <1>11, Zenon DEF OperatorUpdates, Observe
  <2>2. declared' \in [Workloads -> Versions]
    BY <2>1 DEF RunningInv, Versions, Target
  <2>3. RunningInv' /\ ran \subseteq ran'
    BY <2>1, <2>2, Zenon DEF RunningInv
  <2> QED  BY <2>1, <2>3, <1>s, TasksKeep, SendersKeep, CarriedKeeps, Zenon
<1>12. ASSUME NEW p \in Pods, RollPod(p)
       PROVE  TasksInv' /\ SendersInv' /\ CarriedInv' /\ RunningInv' /\ ShownInv'
  <2> DEFINE w == IF p \in Nodes THEN "nodes" ELSE p
  <2>1. w \in Workloads
    BY Zenon DEF Pods, Workloads
  <2>2. /\ UNCHANGED <<rollout, upgrades, asking, declared, observed, reported, beat>>
        /\ \E v \in {declared[w], Down} : running' = [running EXCEPT ![p] = v]
        /\ ran' = IF running'[p] = Target THEN ran \cup {p} ELSE ran
        /\ \/ link' = [link EXCEPT !.now = 0] /\ inbox' = {} /\ applying' = [t \in UpgradeTasks |-> "none"]
           \/ UNCHANGED <<link, inbox, applying>>
    BY <1>12, Zenon DEF RollPod
  <2>3. declared[w] \in Versions /\ Down \in Versions
    BY <2>1, Zenon DEF RunningInv, Versions
  <2> HIDE DEF w
  <2>4. /\ running' \in [Pods -> Versions] /\ \A k \in Pods : k # p => running'[k] = running[k]
    BY <2>2, <2>3, Zenon DEF RunningInv
  <2>5. ran \subseteq ran' /\ ran' \subseteq Pods /\ (running'[p] = Target => p \in ran')
    <3>1. CASE running'[p] = Target
      BY <2>2, <3>1, Zenon DEF RunningInv
    <3>2. CASE running'[p] # Target
      BY <2>2, <3>2, Zenon DEF RunningInv
    <3> QED  BY <3>1, <3>2, Zenon
  <2>6. RunningInv'
    BY <2>2, <2>4, <2>5, Zenon DEF RunningInv
  <2>7. CarriedInv'
    <3>1. link' \in [now : Nat, last : Nat]
      BY <2>2 DEF CarriedInv
    <3> QED  BY <2>2, <3>1, Zenon DEF CarriedInv
  <2> QED  BY <2>2, <2>5, <2>6, <2>7, <1>s, TasksKeep, SendersKeep, Zenon
<1>13. CASE SendHeartbeat
  <2>1. /\ beat' = [at |-> "sent", is |-> Snapshot]
        /\ UNCHANGED <<rollout, upgrades, asking, link, inbox, applying, cluster, reported>>
    BY <1>13, Zenon DEF SendHeartbeat
  <2>2. Snapshot \in Snapshots /\ ShownHasRun(Snapshot)
    BY SnapshotHasRun
  <2> HIDE DEF Snapshot
  <2>3. beat' \in [at : {"none", "sent", "agent", "velero"}, is : Snapshots] /\ beat'.is = Snapshot
    BY <2>1, <2>2, Zenon
  <2>4. ShownInv'
    BY <2>1, <2>2, <2>3, Zenon DEF ShownInv, ShownHasRun
  <2> QED  BY <2>1, <2>4, <1>r, TasksKeep, SendersKeep, CarriedKeeps, Zenon
<1>14. CASE UpdateHeartbeat
  <2> DEFINE kept(f) == IF beat.is[f] = Down THEN reported[f] ELSE beat.is[f]
             new == [beat.is EXCEPT !.digest = kept("digest"), !.nodeDigest = kept("nodeDigest")]
  <2>1. /\ reported' = new /\ beat' = [at |-> "agent", is |-> new]
        /\ UNCHANGED <<rollout, upgrades, asking, link, inbox, applying, cluster>>
    BY <1>14, Zenon DEF UpdateHeartbeat
  <2>2. beat.is \in Snapshots /\ reported \in Snapshots
    BY Zenon DEF ShownInv
  <2>3. kept("digest") \in {reported.digest, beat.is.digest} /\ kept("nodeDigest") \in {reported.nodeDigest, beat.is.nodeDigest}
    BY Zenon
  <2> HIDE DEF kept
  <2>4. kept("digest") \in Versions /\ kept("nodeDigest") \in Versions
    BY <2>2, <2>3, Zenon DEF Snapshots
  <2>5. new \in Snapshots
    BY <2>2, <2>4, Zenon DEF Snapshots
  <2>6. new.agent = beat.is.agent /\ new.digest = kept("digest") /\ new.nodeDigest = kept("nodeDigest")
    BY <2>2, Zenon DEF Snapshots
  <2> HIDE DEF new
  <2>7. ShownHasRun(new)
    BY <2>3, <2>6, Zenon DEF ShownInv, ShownHasRun
  <2>8. beat' \in [at : {"none", "sent", "agent", "velero"}, is : Snapshots] /\ beat'.is = new
    BY <2>1, <2>5, Zenon
  <2>9. ShownInv'
    BY <2>1, <2>5, <2>7, <2>8, Zenon DEF ShownInv, ShownHasRun
  <2> QED  BY <2>1, <2>9, <1>r, TasksKeep, SendersKeep, CarriedKeeps, Zenon
\* A task succeeds by what a heartbeat shows, and that has run.
<1>15. CASE CompleteAfterHeartbeat
  <2> DEFINE kind == beat.at
             shown == IF kind = "agent" THEN agentUpgradeTargetMatches(beat.is) ELSE veleroVerified(beat.is)
  <2>1. /\ kind \in {"agent", "velero"}
        /\ upgrades' = [t \in DOMAIN upgrades |->
             IF upgrades[t].kind = kind /\ shown THEN SetUpgrade(t, "succeeded")[t] ELSE upgrades[t]]
        /\ UNCHANGED <<rollout, asking, link, inbox, applying, cluster, reported>>
        /\ beat' = [beat EXCEPT !.at = IF kind = "agent" THEN "velero" ELSE "none"]
    BY <1>15, Zenon DEF CompleteAfterHeartbeat
  <2>2. shown => IF kind = "agent" THEN "agent" \in ran
                 ELSE rollout.tagged \/ Nodes \cup {"server"} \subseteq ran
    BY Zenon DEF agentUpgradeTargetMatches, veleroVerified, ShownInv, ShownHasRun
  <2> HIDE DEF shown
  <2>3. /\ Len(upgrades) \in Nat /\ DOMAIN upgrades = 1..Len(upgrades)
        /\ \A k \in DOMAIN upgrades : upgrades[k] \in UpgradeRows
    BY DEF TasksInv
  <2>4. ASSUME NEW k \in DOMAIN upgrades
        PROVE  /\ upgrades'[k] \in UpgradeRows
               /\ upgrades'[k].st = "succeeded" =>
                    IF upgrades'[k].kind = "agent" THEN "agent" \in ran
                    ELSE rollout.tagged \/ Nodes \cup {"server"} \subseteq ran
    <3>1. upgrades[k] \in UpgradeRows
      BY <2>3
    <3>2. CASE upgrades[k].kind = kind /\ shown
      <4>1. upgrades'[k] = SetUpgrade(k, "succeeded")[k]
        BY <2>1, <3>2, Zenon
      <4>2. SetUpgrade(k, "succeeded")[k] = [upgrades[k] EXCEPT !.st =
              IF upgrades[k].st \in UpgradeOver THEN upgrades[k].st ELSE "succeeded"]
        BY Zenon DEF SetUpgrade
      <4>3. upgrades'[k] \in UpgradeRows /\ upgrades'[k].kind = kind
        BY <3>1, <3>2, <4>1, <4>2 DEF UpgradeRows, UpgradeOver
      <4> QED  BY <2>2, <3>2, <4>3, Zenon
    <3>3. CASE ~(upgrades[k].kind = kind /\ shown)
      <4>1. upgrades'[k] = upgrades[k]
        BY <2>1, <3>3, Zenon
      <4> QED  BY <3>1, <4>1, Zenon DEF TasksInv, SucceededHasRun
    <3> QED  BY <3>2, <3>3, Zenon
  <2>5. DOMAIN upgrades' = DOMAIN upgrades /\ upgrades' = [k \in 1..Len(upgrades) |-> upgrades'[k]]
    BY <2>1, <2>3, Zenon
  <2>6. upgrades' \in [1..Len(upgrades) -> UpgradeRows]
    BY <2>3, <2>4, <2>5, Zenon
  <2>7. upgrades' \in Seq(UpgradeRows) /\ Len(upgrades') = Len(upgrades)
    BY <2>3, <2>6
  <2>8. TasksInv'
    BY <2>1, <2>4, <2>5, <2>7, Zenon DEF TasksInv, SucceededHasRun
  <2>9. beat' \in [at : {"none", "sent", "agent", "velero"}, is : Snapshots] /\ beat'.is = beat.is
    BY <2>1, Zenon DEF ShownInv
  <2>10. ShownInv'
    BY <2>1, <2>9, <1>r, ShownKeeps, Zenon
  <2> QED  BY <2>1, <2>7, <2>8, <2>10, <1>r, SendersKeep, CarriedKeeps, Zenon
<1>16. CASE LoseLink
  <2>1. /\ rollout' = [rollout EXCEPT !.drops = rollout.drops - 1] /\ rollout.drops > 0
        /\ link' = [link EXCEPT !.now = 0]
        /\ UNCHANGED <<upgrades, asking, inbox, applying, cluster, reported, beat>>
    BY <1>16, Zenon DEF LoseLink
  <2>2. rollout.drops - 1 \in Nat /\ 0 \in Nat
    BY <2>1 DEF CarriedInv, RolloutRecords
  <2>3. rollout' \in RolloutRecords /\ rollout'.tagged = rollout.tagged /\ link' \in [now : Nat, last : Nat]
    BY <2>1, <2>2, Zenon DEF CarriedInv, RolloutRecords
  <2>4. CarriedInv'
    BY <2>1, <2>3, Zenon DEF CarriedInv
  <2> QED  BY <2>1, <2>3, <2>4, <1>s, <1>r, TasksKeep, SendersKeep, Zenon
<1>17. CASE RegainLink
  <2> DEFINE r == [Resting EXCEPT !.conn = link.last + 1,
                     !.todo = {t \in DOMAIN upgrades : upgrades[t].st \in {"queued", "dispatched"}}]
  <2>1. /\ link' = [now |-> link.last + 1, last |-> link.last + 1]
        /\ asking' = [asking EXCEPT !["again"] = r]
        /\ UNCHANGED <<rollout, upgrades, inbox, applying, cluster, reported, beat>>
    BY <1>17, Zenon DEF RegainLink
  <2>2. link.last + 1 \in Nat
    BY DEF CarriedInv
  <2>3. DOMAIN upgrades \subseteq UpgradeTasks
    <3>1. Len(upgrades) \in Nat /\ DOMAIN upgrades = 1..Len(upgrades) /\ Ahead("u1") \in 0..1 /\ Ahead("u2") \in 0..1
      BY DEF TasksInv, Ahead
    <3>2. Len(upgrades) + Ahead("u1") + Ahead("u2") <= 2
      BY Zenon DEF SendersInv
    <3> HIDE DEF Ahead
    <3> QED  BY <3>1, <3>2, SMT DEF UpgradeTasks
  <2>4. r \in Askings /\ r.at = "idle"
    BY <2>2, <2>3, RestingIsAsking, Zenon DEF Askings, Resting
  <2> HIDE DEF r
  <2>5. /\ asking' \in [Senders -> Askings] /\ asking'["again"].at = "idle"
        /\ \A y \in Senders : y # "again" => asking'[y] = asking[y]
    BY <2>1, <2>4, Zenon DEF SendersInv, Senders
  <2>6. Ahead("u1")' = Ahead("u1") /\ Ahead("u2")' = Ahead("u2")
    BY <2>5, Zenon DEF Ahead, Senders, Clerks
  <2>7. SendersInv'
    BY <2>1, <2>5, <2>6, Zenon DEF SendersInv
  <2>8. CarriedInv'
    BY <2>1, <2>2, Zenon DEF CarriedInv
  <2> QED  BY <2>1, <2>7, <2>8, <1>s, <1>r, TasksKeep, Zenon
<1>18. CASE PlatformStops
  <2>1. /\ rollout' = [rollout EXCEPT !.restarts = rollout.restarts - 1] /\ rollout.restarts > 0
        /\ link' = [link EXCEPT !.now = 0] /\ beat' = [beat EXCEPT !.at = "none"]
        /\ asking' = [x \in Senders |->
             IF x \in Clerks /\ asking[x].at # "idle" THEN [Resting EXCEPT !.at = "over"] ELSE Resting]
        /\ UNCHANGED <<upgrades, inbox, applying, cluster, reported>>
    BY <1>18, Zenon DEF PlatformStops
  <2>2. rollout.restarts - 1 \in Nat /\ 0 \in Nat
    BY <2>1 DEF CarriedInv, RolloutRecords
  <2>3. /\ rollout' \in RolloutRecords /\ rollout'.tagged = rollout.tagged /\ link' \in [now : Nat, last : Nat]
        /\ beat' \in [at : {"none", "sent", "agent", "velero"}, is : Snapshots] /\ beat'.is = beat.is
    BY <2>1, <2>2, Zenon DEF CarriedInv, RolloutRecords, ShownInv
  <2>4. CarriedInv' /\ ShownInv'
    BY <2>1, <2>3, <1>r, ShownKeeps, Zenon DEF CarriedInv
  <2>5. /\ [Resting EXCEPT !.at = "over"] \in Askings /\ [Resting EXCEPT !.at = "over"].at = "over"
        /\ Resting \in Askings /\ Resting.at = "idle"
    BY RestingIsAsking, Zenon DEF Askings, Resting
  <2>6. /\ asking' \in [Senders -> Askings] /\ \A x \in Senders : asking'[x].at # "send"
        /\ \A x \in Clerks : asking'[x].at \in {"idle", "create"} => asking[x].at \in {"idle", "create"}
    <3>1. \A x \in Senders : \/ asking'[x] = [Resting EXCEPT !.at = "over"]
                             \/ asking'[x] = Resting /\ (x \in Clerks => asking[x].at = "idle")
      BY <2>1, Zenon
    <3>2. asking' = [x \in Senders |-> asking'[x]]
      BY <2>1, Zenon
    <3> HIDE DEF Resting
    <3> QED  BY <2>5, <3>1, <3>2, Zenon DEF Senders
  <2>7. /\ Ahead("u1")' \in 0..1 /\ Ahead("u2")' \in 0..1 /\ Ahead("u1") \in 0..1 /\ Ahead("u2") \in 0..1
        /\ Len(upgrades) \in Nat
    BY DEF Ahead, TasksInv
  <2>8. Ahead("u1")' <= Ahead("u1") /\ Ahead("u2")' <= Ahead("u2")
    BY <2>6 DEF Ahead, Clerks
  <2>9. Len(upgrades') + Ahead("u1")' + Ahead("u2")' <= 2
    <3>1. Len(upgrades) + Ahead("u1") + Ahead("u2") <= 2
      BY Zenon DEF SendersInv
    <3> HIDE DEF Ahead
    <3> QED  BY <2>1, <2>7, <2>8, <3>1, SMT
  <2>10. SendersInv'
    BY <2>6, <2>9, Zenon DEF SendersInv
  <2> QED  BY <2>1, <2>3, <2>4, <2>10, <1>r, TasksKeep, Zenon
<1>19. CASE UNCHANGED upVars
  BY <1>19, <1>s, <1>r, TasksKeep, SendersKeep, CarriedKeeps, Zenon DEF upVars
<1> QED
  BY <1>1, <1>2, <1>3, <1>4, <1>5, <1>6, <1>7, <1>8, <1>9, <1>10, <1>11, <1>12, <1>13, <1>14, <1>15, <1>16, <1>17,
     <1>18, <1>19, ZenonT(60) DEF UpgradeNext, Pods

LEMMA UpgradeBegins == UpgradeInit => UpgradeInv
<1> SUFFICES ASSUME UpgradeInit PROVE UpgradeInv
  OBVIOUS
<1>1. /\ rollout \in RolloutRecords /\ upgrades = <<>> /\ asking = [x \in Senders |-> Resting]
      /\ link = [now |-> 1, last |-> 1] /\ inbox = {} /\ applying = [t \in UpgradeTasks |-> "none"]
      /\ declared = [w \in Workloads |-> rollout.from] /\ running = [p \in Pods |-> rollout.from]
      /\ observed = Workloads /\ reported = Snapshot /\ beat = [at |-> "none", is |-> Snapshot]
      /\ ran = IF rollout.from = Target THEN Pods ELSE {}
  BY RolloutAssumption, Zenon DEF UpgradeInit, RolloutRecords, Pods
<1>2. rollout.from \in Versions
  BY <1>1 DEF RolloutRecords, Versions
<1>3. RunningInv
  <2>1. CASE rollout.from = Target
    BY <1>1, <1>2, <2>1, Zenon DEF RunningInv
  <2>2. CASE rollout.from # Target
    BY <1>1, <1>2, <2>2, Zenon DEF RunningInv
  <2> QED  BY <2>1, <2>2, Zenon
<1>4. ShownInv
  <2>1. Snapshot \in Snapshots /\ ShownHasRun(Snapshot)
    BY <1>3, SnapshotHasRun
  <2>2. beat.is = Snapshot /\ beat.at = "none"
    BY <1>1, Zenon
  <2> HIDE DEF Snapshot
  <2> QED  BY <1>1, <2>1, <2>2, Zenon DEF ShownInv
<1>5. TasksInv /\ Len(upgrades) = 0
  BY <1>1 DEF TasksInv, SucceededHasRun
<1>6. asking \in [Senders -> Askings] /\ \A x \in Senders : asking[x].at = "idle"
  BY <1>1, RestingIsAsking, Zenon DEF Resting
<1>7. SendersInv
  <2>1. Len(upgrades) + Ahead("u1") + Ahead("u2") <= 2
    BY <1>5 DEF Ahead
  <2> QED  BY <1>6, <2>1, Zenon DEF SendersInv
<1>8. CarriedInv
  <2>1. 1 \in Nat
    BY SMT
  <2> QED  BY <1>1, <2>1, Zenon DEF CarriedInv
<1> QED  BY <1>3, <1>4, <1>5, <1>7, <1>8, Zenon DEF UpgradeInv

\* An upgrade that is recorded as succeeded has run: for any cluster, whatever is lost,
\* restarted or reported late.
THEOREM UpgradesHaveRun == UpgradeSpec => []ComponentSafety
BY UpgradeBegins, UpgradeStep, UpgradeInvSuffices, PTL DEF UpgradeSpec
=============================================================================
