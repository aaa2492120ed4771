------------------------ MODULE RestorePointsSafety ------------------------
(***************************************************************************)
(* The types and the safety of RestorePoints: admission, locks and         *)
(* publication, for every number of backups, cleanups and recoveries and   *)
(* every retention count, with reports repeated and backups stopped at any *)
(* time.                                                                   *)
(***************************************************************************)
EXTENDS RestorePoints, WellFoundedInduction, TLAPS

(***************************************************************************)
(* The operators of the quota.                                             *)
(***************************************************************************)

\* Oldest picks a member of every nonempty set of tasks (quotaPoints orders
\* the points by creation).
LEMMA OldestIsMember ==
  ASSUME NEW S \in SUBSET Nat, S # {}
  PROVE  Oldest(S) \in S
<1> DEFINE Less == OpToRel(<, Nat)
<1>1. \A p, q \in Nat : q < p => <<q, p>> \in Less
  BY Zenon DEF OpToRel
<1>2. \E p \in S : \A q \in S : ~(<<q, p>> \in Less)
  <2> HIDE DEF Less
  <2>1. IsWellFoundedOn(Less, Nat)
    BY NatLessThanWellFounded, ZenonT(60) DEF Less
  <2> QED
    BY <2>1, WFMin, ZenonT(60)
<1>3. PICK p \in S : \A q \in S : ~(<<q, p>> \in Less)
  BY <1>2, ZenonT(60)
<1>4. ASSUME NEW q \in S
      PROVE  p <= q
  <2>1. ~(q < p)
    <3> HIDE DEF Less
    <3> QED
      BY <1>1, <1>3, ZenonT(60)
  <2> QED
    BY <2>1
<1> QED
  BY <1>4, ZenonT(60) DEF Oldest

\* When reserveBackupQuota does not refuse, it replaces nothing or a point
\* that may be replaced, and it replaces nothing only while a slot is free.
LEMMA ReplacementIsReplaceable ==
  ASSUME NEW sel, count \in Nat, ~QuotaExhausted(sel)
  PROVE  \/ /\ Replacement(sel) = None
            /\ ~(count > 0 /\ Used(Released) >= count)
         \/ /\ Replacement(sel) \in Replaceable(sel, Released)
            /\ Replacement(sel) # None /\ Replacement(sel) \in Backups
<1>1. CASE count > 0 /\ Used(Released) >= count
  <2>1. Replaceable(sel, Released) # {}
    BY <1>1, Zenon DEF QuotaExhausted
  <2>2. Replaceable(sel, Released) \in SUBSET Backups
    BY Zenon DEF Replaceable, Points
  <2>3. Replaceable(sel, Released) \in SUBSET Nat
    BY <2>2, BackupsAssumption, ZenonT(60)
  <2>4. Oldest(Replaceable(sel, Released)) \in Replaceable(sel, Released)
    BY <2>1, <2>3, OldestIsMember, Zenon
  <2> QED
    BY <1>1, <2>2, <2>4, BackupsAssumption, Zenon DEF Replacement, None
<1>2. CASE ~(count > 0 /\ Used(Released) >= count)
  BY <1>2, Zenon DEF Replacement
<1> QED
  BY <1>1, <1>2, Zenon

(***************************************************************************)
(* Type correctness.                                                       *)
(***************************************************************************)
USE DEF policyVars, taskVars, resvVars, markVars, pointVars, claimVars, cleanupVars,
        recoveryVars, agentVars

\* UpdateTaskStatus writes statuses, reservations and owners of their types.
LEMMA UpdateTaskStatusType ==
  ASSUME TypeOK, NEW b \in Backups, NEW s \in Open \cup Terminal, UpdateTaskStatus(b, s)
  PROVE  /\ task' \in [Backups -> {"none"} \cup Open \cup Terminal]
         /\ resv' \in [Backups -> {"none", "published", "released"} \cup InFlight]
         /\ owner' \in [Backups -> Backups \cup {None}]
<1>1. StatusAfter(b, s) \in Open \cup Terminal
  BY Zenon DEF StatusAfter, Open, Terminal
<1>2. task' \in [Backups -> {"none"} \cup Open \cup Terminal]
  BY <1>1, ZenonT(60) DEF UpdateTaskStatus, TypeOK
<1>3. resv' \in [Backups -> {"none", "published", "released"} \cup InFlight]
  BY ZenonT(60) DEF UpdateTaskStatus, TypeOK
<1>4. owner' \in [Backups -> Backups \cup {None}]
  BY ZenonT(60) DEF UpdateTaskStatus, TypeOK
<1> QED
  BY <1>2, <1>3, <1>4, Zenon

\* The effect of releaseFailedBackupReservations has the types it should have.
LEMMA ReleasedType ==
  ASSUME TypeOK
  PROVE  /\ Released \in [Backups -> {"none", "published", "released"} \cup InFlight]
         /\ Unlocked \in [Backups -> Backups \cup {None}]
BY ZenonT(60) DEF TypeOK, Released, Unlocked

\* A new cleanup task writes values of the types of its columns.
LEMMA CreateDeletionType ==
  ASSUME TypeOK, NEW c \in Cleanups, NEW S \in SUBSET Backups, CreateDeletion(c, S)
  PROVE  /\ ctask' \in [Cleanups -> {"none", "active"} \cup Terminal]
         /\ cpoints' \in [Cleanups -> SUBSET Backups]
         /\ cexec' \in [Cleanups -> {"none", "queued", "running", "acked"} \cup Report]
         /\ rstate' \in [Backups -> {"", "delete_failed", "deleted"} \cup Claimed]
         /\ resv' \in [Backups -> {"none", "published", "released"} \cup InFlight]
         /\ cleanupOf' \in [Backups -> Cleanups \cup {NoCleanup}]
<1>1. /\ ctask' \in [Cleanups -> {"none", "active"} \cup Terminal]
      /\ cpoints' \in [Cleanups -> SUBSET Backups]
      /\ cexec' \in [Cleanups -> {"none", "queued", "running", "acked"} \cup Report]
  BY ZenonT(60) DEF CreateDeletion, TypeOK
<1>2. rstate' \in [Backups -> {"", "delete_failed", "deleted"} \cup Claimed]
  BY ZenonT(60) DEF CreateDeletion, TypeOK, Claimed
<1>3. resv' \in [Backups -> {"none", "published", "released"} \cup InFlight]
  BY ReleasedType, Zenon DEF CreateDeletion, InFlight
<1>4. cleanupOf' \in [Backups -> Cleanups \cup {NoCleanup}]
  BY ZenonT(60) DEF CreateDeletion, TypeOK
<1> QED
  BY <1>1, <1>2, <1>3, <1>4, ZenonT(60)

\* Publication writes values of the types of its columns.
LEMMA PublishType ==
  ASSUME TypeOK, NEW b \in Backups, NEW sel, Publishable(b, sel), Publish(b, sel)
  PROVE  /\ repl' \in [Backups -> Backups \cup {None}]
         /\ owner' \in [Backups -> Backups \cup {None}]
         /\ result' \in [Backups -> BOOLEAN]
         /\ resv' \in [Backups -> {"none", "published", "released"} \cup InFlight]
         /\ task' \in [Backups -> {"none"} \cup Open \cup Terminal]
         /\ point' \in [Backups -> {"absent", "available", "deleted"}]
<1> DEFINE new == resv[b] = "none"
           old == IF new THEN Replacement(sel) ELSE repl[b]
           state == IF new THEN NewReservation ELSE resv[b]
<1>1. old \in Backups \cup {None}
  <2>1. CASE new
    BY <2>1, ReplacementIsReplaceable, ZenonT(60) DEF Publishable, TypeOK
  <2>2. CASE ~new
    BY <2>2, ZenonT(60) DEF TypeOK
  <2> QED
    BY <2>1, <2>2, Zenon
<1>2. state \in {"none", "published", "released"} \cup InFlight
  BY ZenonT(60) DEF TypeOK, NewReservation, InFlight
<1>3. repl' \in [Backups -> Backups \cup {None}]
  BY <1>1, ZenonT(60) DEF Publish, TypeOK
<1>4. owner' \in [Backups -> Backups \cup {None}]
  BY <1>1, ReleasedType, ZenonT(60) DEF Publish, OwnerAfterReserve
<1>5. result' \in [Backups -> BOOLEAN]
  BY ZenonT(60) DEF Publish, TypeOK
<1>6. resv' \in [Backups -> {"none", "published", "released"} \cup InFlight]
  BY <1>2, ReleasedType, Zenon DEF Publish, InFlight
<1>7. task' \in [Backups -> {"none"} \cup Open \cup Terminal]
  BY ZenonT(60) DEF Publish, TypeOK, Open, Terminal
<1>8. point' \in [Backups -> {"absent", "available", "deleted"}]
  BY ZenonT(60) DEF Publish, TypeOK
<1> QED
  BY <1>3, <1>4, <1>5, <1>6, <1>7, <1>8, Zenon

\* Every step of the program preserves the types.
LEMMA TypeStep ==
  TypeOK /\ [Next]_vars => TypeOK'
<1> SUFFICES ASSUME TypeOK, [Next]_vars
             PROVE  TypeOK'
  OBVIOUS
<1>1. ASSUME NEW b \in Backups, NEW sel \in SUBSET Selectable, CreateBackup(b, sel)
      PROVE  TypeOK'
  <2>1. CASE QuotaExhausted(sel)
    BY <1>1, <2>1, ReleasedType, ZenonT(60) DEF CreateBackup, TypeOK, Terminal
  <2>2. CASE ~QuotaExhausted(sel)
    <3>1. Replacement(sel) \in Backups \cup {None}
      BY <2>2, ReplacementIsReplaceable, ZenonT(60) DEF TypeOK
    <3>2. owner' \in [Backups -> Backups \cup {None}]
      BY <1>1, <2>2, <3>1, ReleasedType, Zenon DEF CreateBackup, OwnerAfterReserve
    <3>3. resv' \in [Backups -> {"none", "published", "released"} \cup InFlight]
      BY <1>1, <2>2, ReleasedType, Zenon DEF CreateBackup, NewReservation, InFlight
    <3>4. task' \in [Backups -> {"none"} \cup Open \cup Terminal]
      BY <1>1, <2>2, ZenonT(60) DEF CreateBackup, TypeOK, Open
    <3>5. /\ repl' = [repl EXCEPT ![b] = Replacement(sel)]
          /\ unmarked' = unmarked \cup {b}
          /\ exec' = [exec EXCEPT ![b] = "queued"]
      BY <1>1, <2>2, Zenon DEF CreateBackup
    <3>6. /\ repl' \in [Backups -> Backups \cup {None}]
          /\ unmarked' \subseteq Backups
          /\ exec' \in [Backups -> {"none", "queued", "running", "acked"} \cup Report]
      BY <3>1, <3>5, ZenonT(60) DEF TypeOK
    <3> QED
      BY <1>1, <3>2, <3>3, <3>4, <3>6, ZenonT(60) DEF CreateBackup, TypeOK
  <2> QED
    BY <2>1, <2>2, ZenonT(60)
<1>2. ASSUME NEW b \in Backups, NEW sel \in SUBSET Selectable, BackupCompleted(b, sel)
      PROVE  TypeOK'
  <2>1. exec' \in [Backups -> {"none", "queued", "running", "acked"} \cup Report]
    BY <1>2, ZenonT(60) DEF BackupCompleted, Acked, TypeOK
  <2>2. CASE Publishable(b, sel) /\ Publish(b, sel)
    BY <1>2, <2>1, <2>2, PublishType, ZenonT(60) DEF BackupCompleted, TypeOK
  <2>3. CASE UNCHANGED <<task, result, resvVars, point, owner>>
    BY <1>2, <2>1, <2>3, ZenonT(60) DEF BackupCompleted, TypeOK
  <2> QED
    BY <1>2, <2>2, <2>3, Zenon DEF BackupCompleted
<1>3. ASSUME NEW b \in Backups, NEW sel \in SUBSET Selectable, FinishReplacement(b,
   sel)
      PROVE  TypeOK'
  BY <1>3, PublishType, ZenonT(60) DEF FinishReplacement, TypeOK
<1>4. ASSUME NEW b \in Backups, MarkDispatched(b)
      PROVE  TypeOK'
  BY <1>4, UpdateTaskStatusType, ZenonT(60) DEF MarkDispatched, TypeOK, Open, Terminal
<1>5. ASSUME NEW b \in Backups, DispatchFails(b)
      PROVE  TypeOK'
  BY <1>5, UpdateTaskStatusType, ZenonT(60) DEF DispatchFails, TypeOK, Open, Terminal
<1>6. ASSUME NEW b \in Backups, BackupReported(b)
      PROVE  TypeOK'
  BY <1>6, UpdateTaskStatusType, ZenonT(60) DEF BackupReported, TypeOK, Open, Terminal
<1>7. ASSUME NEW b \in Backups, BackupIncomplete(b)
      PROVE  TypeOK'
  BY <1>7, UpdateTaskStatusType, ZenonT(60) DEF BackupIncomplete, TypeOK, Open, Terminal
<1>8. ASSUME NEW b \in Backups, MarkCanceling(b)
      PROVE  TypeOK'
  BY <1>8, UpdateTaskStatusType, ZenonT(60) DEF MarkCanceling, TypeOK, Open, Terminal
<1>9. ASSUME NEW b \in Backups, CancelCompleted(b)
      PROVE  TypeOK'
  BY <1>9, UpdateTaskStatusType, ZenonT(60) DEF CancelCompleted, TypeOK, Open, Terminal
<1>10. ASSUME NEW b \in Backups, BackupFailed(b)
      PROVE  TypeOK'
  <2>1. exec' \in [Backups -> {"none", "queued", "running", "acked"} \cup Report]
    BY <1>10, ZenonT(60) DEF BackupFailed, Acked, TypeOK
  <2>2. CASE UpdateTaskStatus(b, "failed")
    BY <1>10, <2>1, <2>2, UpdateTaskStatusType, ZenonT(60) DEF BackupFailed, TypeOK, Terminal
  <2>3. CASE UNCHANGED <<task, resv, owner>>
    BY <1>10, <2>1, <2>3, ZenonT(60) DEF BackupFailed, TypeOK
  <2> QED
    BY <1>10, <2>2, <2>3, ZenonT(60) DEF BackupFailed
<1>11. ASSUME NEW b \in Backups, CancelFailed(b)
      PROVE  TypeOK'
  BY <1>11, UpdateTaskStatusType, ZenonT(60) DEF CancelFailed, TypeOK, Open
<1>12. ASSUME NEW b \in Backups, RefinishCleanup(b)
      PROVE  TypeOK'
  BY <1>12, ZenonT(60) DEF RefinishCleanup, MarkDeleted, TypeOK
<1>13. ASSUME NEW b \in Backups, CreateCancel(b)
      PROVE  TypeOK'
  BY <1>13, ZenonT(60) DEF CreateCancel, TypeOK
<1>14. ASSUME NEW b \in Backups, AgentStartsBackup(b)
      PROVE  TypeOK'
  BY <1>14, ZenonT(60) DEF AgentStartsBackup, TypeOK
<1>15. ASSUME NEW b \in Backups, NEW e \in Report, AgentEndsBackup(b, e)
      PROVE  TypeOK'
  BY <1>15, ZenonT(60) DEF AgentEndsBackup, TypeOK
<1>16. ASSUME NEW b \in Backups, NEW found \in BOOLEAN, AgentCancels(b, found)
      PROVE  TypeOK'
  BY <1>16, ZenonT(60) DEF AgentCancels, TypeOK
<1>17. ASSUME NEW b \in Cancelable, CancelTask(b)
      PROVE  TypeOK'
  BY <1>17, NamesAssumption, ZenonT(60) DEF CancelTask, TypeOK
<1>18. ASSUME NEW D \in SUBSET Backups, DeleteRestorePoints(D)
      PROVE  TypeOK'
  BY <1>18, ZenonT(60) DEF DeleteRestorePoints, ClaimRestorePointDeletion, TypeOK, Claimed
<1>19. ASSUME NEW sel \in SUBSET Selectable, ReconcileRetention(sel)
      PROVE  TypeOK'
  <2>1. Expired(sel) \in SUBSET Backups
    BY ZenonT(60) DEF Expired, Points
  <2>2. CASE ClaimRestorePointDeletion("retention", Expired(sel))
    <3>1. claim' \in [Handlers -> SUBSET Backups]
      BY <2>1, <2>2, ZenonT(60) DEF ClaimRestorePointDeletion, TypeOK
    <3>2. rstate' \in [Backups -> {"", "delete_failed", "deleted"} \cup Claimed]
      BY <2>2, ZenonT(60) DEF ClaimRestorePointDeletion, TypeOK, Claimed
    <3> QED
      BY <1>19, <3>1, <3>2, ZenonT(60) DEF ReconcileRetention, TypeOK
  <2>3. CASE UNCHANGED <<claim, rstate>>
    BY <1>19, <2>3, ZenonT(60) DEF ReconcileRetention, TypeOK
  <2> QED
    BY <1>19, <2>2, <2>3, ZenonT(60) DEF ReconcileRetention
<1>20. ASSUME NEW c \in Cleanups, NEW sel \in SUBSET Selectable, NEW h \in Handlers,
             CreateCleanup(h, c, sel)
      PROVE  TypeOK'
  <2>1. CASE CreateDeletion(c, claim[h])
    BY <1>20, <2>1, CreateDeletionType, ZenonT(60) DEF CreateCleanup, TypeOK
  <2>2. CASE UNCHANGED <<cleanupVars, cexec, rstate, resv, cleanupOf>>
    BY <1>20, <2>2, ZenonT(60) DEF CreateCleanup, TypeOK
  <2> QED
    BY <1>20, <2>1, <2>2, ZenonT(60) DEF CreateCleanup
<1>21. ASSUME NEW c \in Cleanups, NEW sel \in SUBSET Selectable, NEW b \in Backups,
             StartReplacement(b, c, sel)
      PROVE  TypeOK'
  <2>1. {repl[b]} \in SUBSET Backups
    BY <1>21, ZenonT(60) DEF StartReplacement, TypeOK
  <2>2. CreateDeletion(c, {repl[b]})
    BY <1>21, ZenonT(60) DEF StartReplacement
  <2>3. StatusAfter(b, "finalizing") \in Open \cup Terminal
    BY ZenonT(60) DEF StatusAfter, Open, Terminal
  <2>4. task' \in [Backups -> {"none"} \cup Open \cup Terminal]
    BY <1>21, <2>3, ZenonT(60) DEF StartReplacement, TypeOK
  <2> QED
    BY <1>21, <2>1, <2>2, <2>4, ReleasedType, CreateDeletionType, ZenonT(60) DEF StartReplacement, TypeOK
<1>22. ASSUME NEW c \in Cleanups, CleanupDispatchFails(c)
      PROVE  TypeOK'
  BY <1>22, ZenonT(60) DEF CleanupDispatchFails, EndCleanup, DeleteFailed, TypeOK, Terminal
<1>23. ASSUME NEW c \in Cleanups, CleanupSucceeds(c)
      PROVE  TypeOK'
  BY <1>23, ZenonT(60) DEF CleanupSucceeds, EndCleanup, TypeOK, Terminal
<1>24. ASSUME NEW c \in Cleanups, CleanupCompleted(c)
      PROVE  TypeOK'
  BY <1>24, ZenonT(60) DEF CleanupCompleted, MarkDeleted, Acked, TypeOK
<1>25. ASSUME NEW c \in Cleanups, CleanupFailed(c)
      PROVE  TypeOK'
  BY <1>25, ZenonT(60) DEF CleanupFailed, EndCleanup, DeleteFailed, Acked, TypeOK, Terminal
<1>26. ASSUME NEW c \in Cleanups, CleanupAbandoned(c)
      PROVE  TypeOK'
  BY <1>26, ZenonT(60) DEF CleanupAbandoned, EndCleanup, TypeOK, Terminal
<1>27. ASSUME NEW c \in Cleanups, AgentStartsCleanup(c)
      PROVE  TypeOK'
  BY <1>27, ZenonT(60) DEF AgentStartsCleanup, TypeOK
<1>28. ASSUME NEW c \in Cleanups, NEW p \in Backups, AgentDeletes(c, p)
      PROVE  TypeOK'
  BY <1>28, ZenonT(60) DEF AgentDeletes, TypeOK
<1>29. ASSUME NEW c \in Cleanups, NEW e \in Report, AgentEndsCleanup(c, e)
      PROVE  TypeOK'
  BY <1>29, ZenonT(60) DEF AgentEndsCleanup, TypeOK
<1>30. ASSUME NEW r \in Recoveries, NEW p \in Backups, NEW d \in BOOLEAN,
             CreateRecovery(r, p, d)
      PROVE  TypeOK'
  BY <1>30, BackupsAssumption, ZenonT(60) DEF CreateRecovery, TypeOK, None
<1>31. ASSUME NEW r \in Recoveries, NEW s \in {"succeeded", "failed"},
             EndRecovery(r, s)
      PROVE  TypeOK'
  BY <1>31, ZenonT(60) DEF EndRecovery, TypeOK, Terminal
<1>32. ASSUME NEW p \in Retainable, NEW retain \in BOOLEAN,
             SetRestorePointRetention(p, retain)
      PROVE  TypeOK'
  BY <1>32, NamesAssumption, ZenonT(60) DEF SetRestorePointRetention, TypeOK
<1>33. ASSUME NEW n \in Counts, UpdatePolicy(n)
      PROVE  TypeOK'
  BY <1>33, CountsAssumption, ZenonT(60) DEF UpdatePolicy, TypeOK
<1>34. ASSUME NEW n \in Switches, SaveProtectionPlan(n)
      PROVE  TypeOK'
  BY <1>34, CountsAssumption, ZenonT(60) DEF SaveProtectionPlan, TypeOK
<1>35. ASSUME PlatformRestarts
      PROVE  TypeOK'
  BY <1>35, ZenonT(60) DEF PlatformRestarts, TypeOK
<1>40. ASSUME NEW b \in Backups, RedispatchPendingTasks(b)
      PROVE  TypeOK'
  BY <1>40, ZenonT(60) DEF RedispatchPendingTasks, TypeOK
<1>36. CASE UNCHANGED vars
  BY <1>36, ZenonT(60) DEF vars, TypeOK
<1> QED
  BY <1>40, <1>1, <1>2, <1>3, <1>4, <1>5, <1>6, <1>7, <1>8, <1>9, <1>10, <1>11, <1>12,
     <1>13, <1>14, <1>15, <1>16, <1>17, <1>18, <1>19, <1>20, <1>21, <1>22, <1>23,
     <1>24, <1>25, <1>26, <1>27, <1>28, <1>29, <1>30, <1>31, <1>32, <1>33, <1>34,
     <1>35, <1>36, ZenonT(60) DEF Next

\* The initial states are well typed.
LEMMA InitType ==
  Init => TypeOK
<1> SUFFICES ASSUME Init
             PROVE  TypeOK
  OBVIOUS
<1>1. count \in Nat
  BY CountsAssumption, ZenonT(60) DEF Init
<1> QED
  BY <1>1, ZenonT(60) DEF Init, TypeOK

\* TypeOK holds in every reachable state, whatever the order of the store's
\* transactions, the agent's reports and the restarts.
THEOREM TypeCorrect ==
  Spec => []TypeOK
BY InitType, TypeStep, PTL DEF Spec

USE DEF policyVars, taskVars, resvVars, markVars, pointVars, claimVars, cleanupVars,
        recoveryVars, agentVars

(***************************************************************************)
(* The inductive invariant of the store.  The stage of a backup task and   *)
(* the state of its reservation go together: a slot is held exactly by     *)
(* open tasks, and of those there is at most one.  That is why the locks   *)
(* cannot conflict, and why releaseFailedBackupReservations never finds    *)
(* anything to release.                                                    *)
(***************************************************************************)
Stages ==
  \A b \in Backups :
    /\ task[b] = "none" => resv[b] = "none"
    /\ resv[b] \in InFlight => task[b] \in Open
    /\ resv[b] = "published" => task[b] = "succeeded"
    /\ resv[b] = "released" => task[b] \in Aborted
    /\ resv[b] = "none" => repl[b] = None
    /\ point[b] = "absent" => owner[b] = None

OneOpenTask ==
  \A a, b \in Backups : task[a] \in Open /\ task[b] \in Open => a = b

StoreInv == Stages /\ OneOpenTask /\ PublishedWithSuccess /\ ReplacementLock

\* What is under way refers to tasks and points that exist.
Origins ==
  /\ \A b \in Backups :
       task[b] = "none" => b \notin unmarked /\ exec[b] = "none" /\ cancel[b] = "none"
  /\ \A c \in Cleanups : \A p \in cpoints[c] : point[p] # "absent"
  /\ \A h \in Handlers : \A p \in claim[h] : point[p] # "absent"

IInv == TypeOK /\ StoreInv /\ Origins

\* None names no backup.
LEMMA NoneIsNoBackup ==
  None \notin Backups
BY BackupsAssumption, Zenon DEF None

\* No reservation of an ended task is left for releaseFailedBackupReservations.
LEMMA NothingToRelease ==
  ASSUME TypeOK, Stages
  PROVE  Released = resv /\ Unlocked = owner
<1>1. \A b \in Backups : ~Stale(b)
  BY Zenon DEF Stale, Stages, InFlight, Open, Aborted
<1>2. Released = resv
  BY <1>1, Zenon DEF Released, TypeOK
<1>3. Unlocked = owner
  BY <1>1, Zenon DEF Unlocked, TypeOK
<1> QED
  BY <1>2, <1>3, Zenon

\* Writing a status (anything but success) keeps the invariant of the store:
\* a task that ends gives up its reservation and its lock in the same step,
\* unless its data is ready, and then it does not end (UpdateTaskStatus).
LEMMA UpdateTaskStatusKeeps ==
  ASSUME TypeOK, StoreInv, NEW b \in Backups, NEW s \in Open \cup Aborted,
         task[b] # "none", UpdateTaskStatus(b, s), UNCHANGED <<repl, point>>
  PROVE  StoreInv'
<1> DEFINE release == StatusAfter(b, s) \in Aborted /\ s \in Terminal /\ resv[b] = "reserved"
<1>1. CASE task[b] \in Terminal
  <2>1. StatusAfter(b, s) = task[b]
    BY <1>1, Zenon DEF StatusAfter
  <2>2. ~release
    BY <1>1, Zenon DEF StoreInv, Stages, Open, Terminal, InFlight
  <2>3. UNCHANGED <<task, resv, owner>>
    BY <2>1, <2>2, Zenon DEF UpdateTaskStatus, TypeOK
  <2> QED
    BY <2>3, Zenon DEF StoreInv, Stages, OneOpenTask, PublishedWithSuccess, ReplacementLock, Points
<1>2. CASE task[b] \notin Terminal
  <2>1. task[b] \in Open
    BY <1>2, Zenon DEF TypeOK
  <2>2. task' = [task EXCEPT ![b] = StatusAfter(b, s)]
    BY Zenon DEF UpdateTaskStatus
  <2>3. resv[b] \notin {"published", "released"}
    BY <2>1, Zenon DEF StoreInv, Stages, Open, Aborted
  <2>4. CASE release
    <3>1. task'[b] \in Aborted /\ \A a \in Backups \ {b} : task'[a] = task[a]
      BY <2>2, <2>4, Zenon DEF TypeOK
    <3>2. resv'[b] = "released" /\ \A a \in Backups \ {b} : resv'[a] = resv[a]
      BY <2>4, Zenon DEF UpdateTaskStatus, TypeOK
    <3>3. /\ repl[b] # None => owner'[repl[b]] = None
          /\ \A p \in Backups : p # repl[b] => owner'[p] = owner[p]
      BY <2>4, Zenon DEF UpdateTaskStatus, TypeOK
    <3>4. Stages'
      <4>1. \A p \in Backups : point[p] = "absent" => owner'[p] = None
        BY <3>3, NoneIsNoBackup, Zenon DEF StoreInv, Stages
      <4> QED
        BY <3>1, <3>2, <4>1, Zenon DEF StoreInv, Stages, Aborted, Open, InFlight
    <3>5. OneOpenTask'
      BY <3>1, Zenon DEF StoreInv, OneOpenTask, Aborted, Open
    <3>6. PublishedWithSuccess'
      BY <2>1, <3>1, Zenon DEF StoreInv, PublishedWithSuccess, Aborted, Open
    <3>7. ReplacementLock'
      <4>1. ASSUME NEW a \in Backups, resv'[a] \in InFlight, repl[a] # None
            PROVE  point[repl[a]] # "absent" /\ owner'[repl[a]] = a
        <5>1. a # b /\ resv[a] \in InFlight
          BY <4>1, <3>2, Zenon DEF InFlight
        <5>2. point[repl[a]] # "absent" /\ owner[repl[a]] = a
          BY <4>1, <5>1, Zenon DEF StoreInv, ReplacementLock
        <5>3. task[a] \in Open
          BY <5>1, Zenon DEF StoreInv, Stages
        <5> QED
          BY <5>1, <5>3, <2>1, Zenon DEF StoreInv, OneOpenTask
      <4>2. ASSUME NEW p \in Points, owner'[p] # None
            PROVE  resv'[owner'[p]] \in InFlight /\ repl[owner'[p]] = p
        <5>1. p # repl[b] /\ owner'[p] = owner[p]
          BY <4>2, <3>3, NoneIsNoBackup, Zenon DEF Points
        <5>2. resv[owner[p]] \in InFlight /\ repl[owner[p]] = p
          BY <4>2, <5>1, Zenon DEF StoreInv, ReplacementLock
        <5>3. owner[p] \in Backups /\ owner[p] # b
          BY <4>2, <5>1, <5>2, Zenon DEF TypeOK, Points
        <5> QED
          BY <5>1, <5>2, <5>3, <3>2, Zenon
      <4> QED
        BY <4>1, <4>2, Zenon DEF ReplacementLock, Points
    <3> QED
      BY <3>4, <3>5, <3>6, <3>7, Zenon DEF StoreInv
  <2>5. CASE ~release
    <3>1. UNCHANGED <<resv, owner>>
      BY <2>5, Zenon DEF UpdateTaskStatus, TypeOK
    <3>2. /\ \A a \in Backups \ {b} : task'[a] = task[a]
          /\ task'[b] = StatusAfter(b, s)
      BY <2>2, Zenon DEF TypeOK
    <3>3. \/ task'[b] \in Open
          \/ task'[b] \in Aborted /\ resv[b] = "none"
      BY <1>2, <2>3, <2>5, <3>2, Zenon DEF StatusAfter, TypeOK, Irreversible, InFlight, Open, Aborted, Terminal
    <3>4. Stages'
      BY <2>1, <3>1, <3>2, <3>3, Zenon DEF StoreInv, Stages, Aborted, Open, InFlight
    <3>5. OneOpenTask'
      BY <2>1, <3>2, <3>3, Zenon DEF StoreInv, OneOpenTask, Aborted, Open
    <3>6. PublishedWithSuccess'
      BY <2>1, <3>2, <3>3, Zenon DEF StoreInv, PublishedWithSuccess, Aborted, Open
    <3>7. ReplacementLock'
      BY <3>1, Zenon DEF StoreInv, ReplacementLock, Points
    <3> QED
      BY <3>4, <3>5, <3>6, <3>7, Zenon DEF StoreInv
  <2> QED
    BY <2>4, <2>5, Zenon
<1> QED
  BY <1>1, <1>2, Zenon

\* A publication waits, with the old point still locked by its reservation, or
\* it publishes, and then nothing it replaces is left (createRestorePoint).
LEMMA PublishOutcomes ==
  ASSUME TypeOK, StoreInv, NEW b \in Backups, NEW sel, Publishable(b, sel), Publish(b, sel)
  PROVE  /\ \A a \in Backups \ {b} :
               task'[a] = task[a] /\ resv'[a] = resv[a] /\ repl'[a] = repl[a] /\ point'[a] = point[a]
         /\ \/ /\ task'[b] = "finalizing" /\ resv'[b] \in {"data_ready", "deleting"}
               /\ repl'[b] \in Points /\ point'[b] = point[b]
               /\ resv[b] # "none" => repl'[b] = repl[b] /\ owner' = owner
               /\ owner' = [owner EXCEPT ![repl'[b]] = b]
            \/ /\ task'[b] = "succeeded" /\ point'[b] = "available"
               /\ resv'[b] = "published" \/ (resv'[b] = "none" /\ repl'[b] = None)
               /\ repl'[b] # None => resv[b] # "none" /\ point[repl'[b]] = "deleted"
               /\ repl[b] # None => repl'[b] = repl[b]
               /\ owner' = owner
<1> DEFINE new == resv[b] = "none"
           old == IF new THEN Replacement(sel) ELSE repl[b]
           state == IF new THEN NewReservation ELSE resv[b]
           wait == old # None /\ point[old] # "deleted"
<1>1. Released = resv /\ Unlocked = owner
  BY NothingToRelease, Zenon DEF StoreInv
<1>2. task[b] \in Open /\ resv[b] \in {"none"} \cup InFlight
  BY Zenon DEF Publishable, StoreInv, Stages, Open, Aborted, TypeOK
<1>3. /\ repl' = [repl EXCEPT ![b] = old]
      /\ owner' = IF new THEN OwnerAfterReserve(b, old) ELSE Unlocked
      /\ resv' = [Released EXCEPT ![b] =
                    IF wait /\ state = "reserved" THEN "data_ready"
                    ELSE IF ~wait /\ state \in InFlight THEN "published" ELSE state]
      /\ task' = [task EXCEPT ![b] = IF wait THEN "finalizing" ELSE "succeeded"]
      /\ point' = [point EXCEPT ![b] = IF wait THEN @ ELSE "available"]
  BY Zenon DEF Publish
<1> HIDE DEF old, state, wait
<1>4. \A a \in Backups \ {b} :
        task'[a] = task[a] /\ resv'[a] = resv[a] /\ repl'[a] = repl[a] /\ point'[a] = point[a]
  BY <1>1, <1>3, Zenon DEF TypeOK
<1>5. /\ repl'[b] = old
      /\ task'[b] = (IF wait THEN "finalizing" ELSE "succeeded")
      /\ point'[b] = (IF wait THEN point[b] ELSE "available")
      /\ resv'[b] = (IF wait /\ state = "reserved" THEN "data_ready"
                     ELSE IF ~wait /\ state \in InFlight THEN "published" ELSE state)
  BY <1>1, <1>3, Zenon DEF TypeOK
<1>6. CASE new
  <2>1. repl[b] = None
    BY <1>6, Zenon DEF StoreInv, Stages
  <2>2. \/ old = None
        \/ old \in Points /\ old # None /\ old \in Backups /\ count > 0
    <3>1. ~QuotaExhausted(sel) /\ count \in Nat /\ old = Replacement(sel)
      BY <1>6, Zenon DEF old, Publishable, TypeOK
    <3>2. Replacement(sel) = None \/ count > 0
      BY Zenon DEF Replacement
    <3>3. Replaceable(sel, Released) \subseteq Points
      BY Zenon DEF Replaceable
    <3> QED
      BY <3>1, <3>2, <3>3, ReplacementIsReplaceable, Zenon
  <2>3. CASE old = None
    <3>1. ~wait /\ owner' = owner
      BY <1>1, <1>3, <1>6, <2>3, Zenon DEF wait, OwnerAfterReserve
    <3>2. resv'[b] \in {"published", "none"}
      BY <1>5, <1>6, <3>1, Zenon DEF state, NewReservation, InFlight
    <3> QED
      BY <1>4, <1>5, <2>1, <2>3, <3>1, <3>2, Zenon
  <2>4. CASE old # None
    <3>1. old \in Points /\ old \in Backups /\ wait /\ state = "reserved"
      BY <1>6, <2>2, <2>4, Zenon DEF wait, state, NewReservation, Points
    <3>2. owner' = [owner EXCEPT ![old] = b]
      BY <1>1, <1>3, <1>6, <2>4, Zenon DEF OwnerAfterReserve
    <3>3. resv'[b] = "data_ready" /\ task'[b] = "finalizing" /\ point'[b] = point[b]
      BY <1>5, <3>1, Zenon
    <3> QED
      BY <1>4, <1>5, <1>6, <2>1, <3>1, <3>2, <3>3, Zenon
  <2> QED
    BY <2>3, <2>4, Zenon
<1>7. CASE ~new
  <2>1. old = repl[b] /\ state = resv[b] /\ state \in InFlight /\ owner' = owner
    BY <1>1, <1>2, <1>3, <1>7, Zenon DEF old, state
  <2>2. CASE wait
    <3>1. point[old] # "absent" /\ owner[old] = b /\ old \in Backups /\ point[old] # "deleted"
      <4>1. old # None /\ point[old] # "deleted"
        BY <2>2, Zenon DEF wait
      <4>2. repl[b] \in Backups \cup {None}
        BY Zenon DEF TypeOK
      <4> QED
        BY <2>1, <4>1, <4>2, Zenon DEF StoreInv, ReplacementLock
    <3>2. old \in Points /\ owner' = [owner EXCEPT ![old] = b]
      BY <2>1, <3>1, Zenon DEF Points, TypeOK
    <3>3. resv'[b] \in {"data_ready", "deleting"}
      BY <1>5, <2>1, <2>2, Zenon DEF InFlight
    <3> QED
      BY <1>4, <1>5, <1>7, <2>1, <2>2, <3>2, <3>3, Zenon
  <2>3. CASE ~wait
    <3>1. old = None \/ point[old] = "deleted"
      BY <2>3, Zenon DEF wait
    <3>2. task'[b] = "succeeded" /\ point'[b] = "available" /\ resv'[b] = "published"
      BY <1>5, <2>1, <2>3, Zenon
    <3>3. repl'[b] = repl[b] /\ (repl[b] = None \/ point[repl[b]] = "deleted")
      BY <1>5, <2>1, <3>1, Zenon
    <3>4. resv[b] # "none" /\ owner' = owner
      BY <1>7, <2>1, Zenon
    <3>5. /\ task'[b] = "succeeded" /\ point'[b] = "available"
          /\ resv'[b] = "published" \/ (resv'[b] = "none" /\ repl'[b] = None)
          /\ repl'[b] # None => resv[b] # "none" /\ point[repl'[b]] = "deleted"
          /\ repl[b] # None => repl'[b] = repl[b]
          /\ owner' = owner
      BY <3>2, <3>3, <3>4, Zenon
    <3> QED
      BY <1>4, <3>5, Zenon
  <2> QED
    BY <2>2, <2>3, Zenon
<1> QED
  BY <1>6, <1>7, Zenon

\* Publication keeps the invariant of the store.
LEMMA PublishKeeps ==
  ASSUME TypeOK, StoreInv, NEW b \in Backups, NEW sel, Publishable(b, sel), Publish(b, sel)
  PROVE  StoreInv'
<1>1. /\ task[b] \in Open /\ point[b] = "absent" /\ owner[b] = None
      /\ resv[b] \in {"none"} \cup InFlight
      /\ resv[b] = "none" => repl[b] = None
  BY ZenonT(60) DEF Publishable, StoreInv, Stages, PublishedWithSuccess, Open, Aborted, TypeOK
<1>2. \A a \in Backups : task[a] \in Open \/ resv[a] \in InFlight => a = b
  BY <1>1, Zenon DEF StoreInv, Stages, OneOpenTask
<1>3. \A a \in Backups \ {b} :
        task'[a] = task[a] /\ resv'[a] = resv[a] /\ repl'[a] = repl[a] /\ point'[a] = point[a]
  BY PublishOutcomes, Zenon
<1>4. \A p \in Points : owner[p] # None => owner[p] = b /\ repl[b] = p /\ resv[b] # "none"
  <2> SUFFICES ASSUME NEW p \in Points, owner[p] # None
               PROVE  owner[p] = b /\ repl[b] = p /\ resv[b] # "none"
    OBVIOUS
  <2>1. resv[owner[p]] \in InFlight /\ repl[owner[p]] = p /\ owner[p] \in Backups
    <3>1. resv[owner[p]] \in InFlight /\ repl[owner[p]] = p
      BY Zenon DEF StoreInv, ReplacementLock
    <3>2. owner[p] \in Backups \cup {None}
      BY Zenon DEF TypeOK, Points
    <3> QED
      BY <3>1, <3>2, Zenon
  <2>2. owner[p] = b
    BY <1>2, <2>1, Zenon
  <2> QED
    BY <2>1, <2>2, Zenon DEF InFlight
<1>5. CASE /\ task'[b] = "finalizing" /\ resv'[b] \in {"data_ready", "deleting"}
           /\ repl'[b] \in Points /\ point'[b] = point[b]
           /\ resv[b] # "none" => repl'[b] = repl[b] /\ owner' = owner
           /\ owner' = [owner EXCEPT ![repl'[b]] = b]
  <2>1. point' = point
    <3>1. \A p \in Backups : point'[p] = point[p]
      BY <1>3, <1>5, Zenon
    <3>2. /\ point' \in [Backups -> {"absent", "available", "deleted"}]
          /\ point \in [Backups -> {"absent", "available", "deleted"}]
      BY PublishType, Zenon DEF TypeOK
    <3> QED
      BY <3>1, <3>2
  <2>2. /\ owner'[repl'[b]] = b
        /\ \A p \in Backups : p # repl'[b] => owner'[p] = owner[p]
    BY <1>5, Zenon DEF TypeOK, Points
  <2>3. Stages'
    <3>1. \A p \in Backups : point'[p] = "absent" => owner'[p] = None
      BY <1>5, <2>1, <2>2, Zenon DEF StoreInv, Stages, Points
    <3> QED
      BY <1>3, <1>5, <3>1, ZenonT(60) DEF StoreInv, Stages, InFlight, Open
  <2>4. OneOpenTask'
    BY <1>1, <1>3, <1>5, Zenon DEF StoreInv, OneOpenTask
  <2>5. PublishedWithSuccess'
    BY <1>1, <1>3, <1>5, <2>1 DEF StoreInv, PublishedWithSuccess
  <2>6. ReplacementLock'
    <3>1. ASSUME NEW a \in Backups, resv'[a] \in InFlight, repl'[a] # None
          PROVE  point'[repl'[a]] # "absent" /\ owner'[repl'[a]] = a
      BY <1>2, <1>3, <1>5, <2>1, <2>2, <3>1, Zenon DEF Points
    <3>2. ASSUME NEW p \in Points, owner'[p] # None
          PROVE  resv'[owner'[p]] \in InFlight /\ repl'[owner'[p]] = p
      <4>1. p = repl'[b]
        BY <1>4, <1>5, <2>2, <3>2, Zenon DEF Points
      <4> QED
        BY <1>5, <2>2, <4>1, Zenon DEF InFlight
    <3> QED
      BY <2>1, <3>1, <3>2, Zenon DEF ReplacementLock, Points
  <2> QED
    BY <2>3, <2>4, <2>5, <2>6, Zenon DEF StoreInv
<1>6. CASE /\ task'[b] = "succeeded" /\ point'[b] = "available"
           /\ resv'[b] = "published" \/ (resv'[b] = "none" /\ repl'[b] = None)
           /\ repl'[b] # None => resv[b] # "none" /\ point[repl'[b]] = "deleted"
           /\ repl[b] # None => repl'[b] = repl[b]
           /\ owner' = owner
  <2>1. Stages'
    BY <1>3, <1>6 DEF StoreInv, Stages, InFlight, Aborted, Open
  <2>2. OneOpenTask'
    BY <1>3, <1>6, Zenon DEF StoreInv, OneOpenTask, Open
  <2>3. PublishedWithSuccess'
    <3>1. repl' \in [Backups -> Backups \cup {None}]
      BY PublishType, Zenon
    <3>2. \A p \in Backups : point[p] = "deleted" => point'[p] = "deleted"
      BY <1>1, <1>3, Zenon
    <3>3. ASSUME NEW a \in Backups
          PROVE  point'[a] # "absent" <=> task'[a] = "succeeded"
      BY <1>3, <1>6 DEF StoreInv, PublishedWithSuccess
    <3>4. ASSUME NEW a \in Backups, task'[a] = "succeeded", repl'[a] # None
          PROVE  point'[repl'[a]] = "deleted"
      <4>1. point[repl'[a]] = "deleted" /\ repl'[a] \in Backups
        BY <1>3, <1>6, <3>1, <3>4, ZenonT(60) DEF StoreInv, PublishedWithSuccess
      <4> QED
        BY <3>2, <4>1, Zenon
    <3> QED
      BY <3>3, <3>4, Zenon DEF PublishedWithSuccess
  <2>4. ReplacementLock'
    <3>1. \A a \in Backups : resv'[a] \notin InFlight
      BY <1>2, <1>3, <1>6, Zenon DEF InFlight
    <3>2. ASSUME NEW p \in Backups, point'[p] = "available"
          PROVE  owner[p] = None
      <4>1. CASE p = b
        BY <1>1, <4>1, Zenon
      <4>2. CASE p # b
        <5>1. p \in Points
          BY <1>3, <3>2, <4>2, Zenon DEF Points
        <5> QED
          BY <1>4, <1>6, <5>1, NoneIsNoBackup, Zenon DEF Points
      <4> QED
        BY <4>1, <4>2, Zenon
    <3> QED
      BY <1>6, <3>1, <3>2, Zenon DEF ReplacementLock, Points
  <2> QED
    BY <2>1, <2>2, <2>3, <2>4, Zenon DEF StoreInv
<1> QED
  BY <1>5, <1>6, PublishOutcomes, Zenon

\* Admission keeps the invariant of the store: a new task finds no open one,
\* so the lock it takes is free (CreateTask, reserveBackupQuota).
LEMMA CreateBackupKeeps ==
  ASSUME TypeOK, StoreInv, NEW b \in Backups, NEW sel, CreateBackup(b, sel)
  PROVE  StoreInv'
<1>1. /\ task[b] = "none" /\ resv[b] = "none" /\ point[b] = "absent" /\ repl[b] = None
      /\ \A a \in Backups : task[a] \notin Open /\ resv[a] \notin InFlight
      /\ UNCHANGED point
  BY Zenon DEF CreateBackup, Fresh, PlanBusy, StoreInv, Stages, PublishedWithSuccess
<1>2. \A p \in Points : owner[p] = None
  <2> SUFFICES ASSUME NEW p \in Points, owner[p] # None
               PROVE  FALSE
    OBVIOUS
  <2>1. resv[owner[p]] \in InFlight
    BY Zenon DEF StoreInv, ReplacementLock
  <2>2. owner[p] \in Backups
    BY Zenon DEF TypeOK, Points
  <2> QED
    BY <1>1, <2>1, <2>2, Zenon
<1>3. Released = resv /\ Unlocked = owner
  BY NothingToRelease, Zenon DEF StoreInv
<1>4. CASE QuotaExhausted(sel)
  <2>1. task' = [task EXCEPT ![b] = "failed"] /\ UNCHANGED <<resv, owner, repl>>
    BY <1>3, <1>4, Zenon DEF CreateBackup
  <2>2. task'[b] = "failed" /\ \A a \in Backups \ {b} : task'[a] = task[a]
    BY <2>1, Zenon DEF TypeOK
  <2>3. Stages'
    BY <1>1, <2>1, <2>2, ZenonT(60) DEF StoreInv, Stages, InFlight
  <2>4. OneOpenTask'
    BY <1>1, <2>2, Zenon DEF OneOpenTask, Open
  <2>5. PublishedWithSuccess'
    BY <1>1, <2>1, <2>2, ZenonT(60) DEF StoreInv, PublishedWithSuccess
  <2>6. ReplacementLock'
    BY <1>1, <2>1, Zenon DEF StoreInv, ReplacementLock, Points
  <2> QED
    BY <2>3, <2>4, <2>5, <2>6, Zenon DEF StoreInv
<1>5. CASE ~QuotaExhausted(sel)
  <2> DEFINE old == Replacement(sel)
  <2>1. /\ task' = [task EXCEPT ![b] = "active"]
        /\ resv' = [resv EXCEPT ![b] = NewReservation]
        /\ repl' = [repl EXCEPT ![b] = old]
        /\ owner' = IF old = None THEN owner ELSE [owner EXCEPT ![old] = b]
    BY <1>3, <1>5, Zenon DEF CreateBackup, OwnerAfterReserve
  <2>2. /\ old = None \/ (old \in Points /\ old \in Backups /\ count > 0)
    <3>1. count \in Nat /\ (old = None \/ count > 0)
      BY Zenon DEF TypeOK, Replacement
    <3>2. Replaceable(sel, Released) \subseteq Points
      BY Zenon DEF Replaceable
    <3> QED
      BY <1>5, <3>1, <3>2, ReplacementIsReplaceable, Zenon
  <2> HIDE DEF old
  <2>3. /\ task'[b] = "active" /\ resv'[b] \in {"none", "reserved"} /\ repl'[b] = old
        /\ old # None => resv'[b] = "reserved"
        /\ \A a \in Backups \ {b} :
             task'[a] = task[a] /\ resv'[a] = resv[a] /\ repl'[a] = repl[a]
    BY <2>1, <2>2, Zenon DEF NewReservation, TypeOK
  <2>4. /\ old # None => owner'[old] = b
        /\ \A p \in Backups : p # old => owner'[p] = owner[p]
    BY <2>1, <2>2, Zenon DEF TypeOK
  <2>5. Stages'
    <3>1. \A p \in Backups : point[p] = "absent" => owner'[p] = None
      BY <2>2, <2>4, NoneIsNoBackup, Zenon DEF StoreInv, Stages, Points
    <3>2. resv'[b] = "none" => repl'[b] = None
      BY <2>3, Zenon
    <3> QED
      BY <1>1, <2>3, <3>1, <3>2, ZenonT(60) DEF StoreInv, Stages, InFlight, Open
  <2>6. OneOpenTask'
    BY <1>1, <2>3, Zenon DEF OneOpenTask, Open
  <2>7. PublishedWithSuccess'
    BY <1>1, <2>3, ZenonT(60) DEF StoreInv, PublishedWithSuccess
  <2>8. ReplacementLock'
    <3>1. ASSUME NEW a \in Backups, resv'[a] \in InFlight, repl'[a] # None
          PROVE  point[repl'[a]] # "absent" /\ owner'[repl'[a]] = a
      BY <1>1, <2>2, <2>3, <2>4, <3>1, Zenon DEF Points
    <3>2. ASSUME NEW p \in Points, owner'[p] # None
          PROVE  resv'[owner'[p]] \in InFlight /\ repl'[owner'[p]] = p
      <4>1. p = old /\ old # None
        BY <1>2, <2>4, <3>2, NoneIsNoBackup, Zenon DEF Points
      <4> QED
        BY <2>3, <2>4, <4>1, Zenon DEF InFlight
    <3> QED
      BY <1>1, <3>1, <3>2, Zenon DEF ReplacementLock, Points
  <2> QED
    BY <2>5, <2>6, <2>7, <2>8, Zenon DEF StoreInv
<1> QED
  BY <1>4, <1>5, Zenon

\* A cleanup task may take over the reservations that wait for its points; it
\* never creates, ends or moves one (prepareRestorePointDeletion).
LEMMA CreateDeletionKeeps ==
  ASSUME TypeOK, StoreInv, NEW c \in Cleanups, NEW S \in SUBSET Backups,
         \A p \in S : point[p] # "absent",
         NEW m, NEW sel, DeletionAllowed(S, m, sel), CreateDeletion(c, S),
         \A a \in Backups : task'[a] = task[a] \/ (task[a] \in Open /\ task'[a] \in Open),
         UNCHANGED <<repl, owner, point>>
  PROVE  /\ StoreInv'
         /\ \A a \in Backups : resv'[a] \in InFlight <=> resv[a] \in InFlight
<1> DEFINE owners == {owner[p] : p \in {q \in S : point[q] # "deleted"}} \ {None}
<1>1. Released = resv
  BY NothingToRelease, Zenon DEF StoreInv
<1>2. resv' = [b \in Backups |-> IF b \in owners THEN "deleting" ELSE resv[b]]
  BY <1>1, Zenon DEF CreateDeletion
<1>3. \A b \in owners : resv[b] \in InFlight
  BY DEF DeletionAllowed, InFlight
<1> HIDE DEF owners
<1>4. \A a \in Backups : \/ resv'[a] = resv[a]
                         \/ resv[a] \in InFlight /\ resv'[a] = "deleting"
  BY <1>2, <1>3, Zenon
<1>5. \A a \in Backups : resv'[a] \in InFlight <=> resv[a] \in InFlight
  BY <1>4, Zenon DEF InFlight
<1>6. Stages'
  BY <1>4, <1>5, ZenonT(60) DEF StoreInv, Stages, Open, Aborted, InFlight
<1>7. OneOpenTask'
  BY Zenon DEF StoreInv, OneOpenTask
<1>8. PublishedWithSuccess'
  BY Zenon DEF StoreInv, PublishedWithSuccess, Open
<1>9. ReplacementLock'
  <2>1. \A a \in Backups : resv'[a] \in InFlight /\ repl[a] # None =>
          point[repl[a]] # "absent" /\ owner[repl[a]] = a
    BY <1>5, Zenon DEF StoreInv, ReplacementLock
  <2>2. ASSUME NEW p \in Points, owner[p] # None
        PROVE  resv'[owner[p]] \in InFlight /\ repl[owner[p]] = p
    <3>1. owner[p] \in Backups
      BY <2>2, Zenon DEF TypeOK, Points
    <3> QED
      BY <1>5, <2>2, <3>1, Zenon DEF StoreInv, ReplacementLock
  <2> QED
    BY <2>1, <2>2, Zenon DEF ReplacementLock, Points
<1> QED
  BY <1>5, <1>6, <1>7, <1>8, <1>9, Zenon DEF StoreInv

\* The cleanup of a replacement takes over exactly the reservation that waits
\* (reconcileRestorePointReplacements).
LEMMA StartReplacementKeeps ==
  ASSUME TypeOK, StoreInv, NEW b \in Backups, NEW c \in Cleanups, NEW sel,
         StartReplacement(b, c, sel)
  PROVE  /\ StoreInv' /\ repl[b] \in Points
         /\ \A a \in Backups : task'[a] = "none" => task[a] = "none"
         /\ \A a \in Backups : resv'[a] \in InFlight <=> resv[a] \in InFlight
<1> DEFINE S == {repl[b]}
<1>1. resv[b] \in InFlight /\ repl[b] # None /\ task[b] \in Open
  BY Zenon DEF StartReplacement, InFlight, StoreInv, Stages
<1>2. repl[b] \in Backups /\ point[repl[b]] # "absent"
  <2>1. repl[b] \in Backups
    BY <1>1, Zenon DEF TypeOK
  <2> QED
    BY <1>1, <2>1, Zenon DEF StoreInv, ReplacementLock
<1>3. repl[b] \in Points
  BY <1>2, Zenon DEF StartReplacement, Points, TypeOK
<1>4. task' = [task EXCEPT ![b] = "finalizing"]
  BY <1>1, Zenon DEF StartReplacement, StatusAfter, Open, Terminal, Aborted
<1>5. \A a \in Backups : task'[a] = task[a] \/ (task[a] \in Open /\ task'[a] \in Open)
  BY <1>1, <1>4, Zenon DEF TypeOK, Open
<1>6. DeletionAllowed(S, TRUE, sel) /\ CreateDeletion(c, S) /\ UNCHANGED <<repl, point>>
  BY Zenon DEF StartReplacement
<1>7. UNCHANGED owner
  BY NothingToRelease, Zenon DEF StartReplacement, StoreInv
<1>8. S \in SUBSET Backups /\ \A p \in S : point[p] # "absent"
  BY <1>2, Zenon
<1> HIDE DEF S
<1>9. StoreInv' /\ \A a \in Backups : resv'[a] \in InFlight <=> resv[a] \in InFlight
  BY <1>5, <1>6, <1>7, <1>8, CreateDeletionKeeps, Zenon
<1> QED
  BY <1>3, <1>5, <1>9, Zenon DEF Open

\* Marking the points of a cleanup deleted keeps the invariant of the store
\* (finishRetentionCleanupTask).
LEMMA MarkDeletedKeeps ==
  ASSUME TypeOK, StoreInv, NEW c \in Cleanups, \A p \in cpoints[c] : point[p] # "absent",
         MarkDeleted(c), UNCHANGED <<task, resv, repl, owner>>
  PROVE  /\ StoreInv'
         /\ \A p \in Backups : point'[p] = "absent" <=> point[p] = "absent"
<1>1. \A p \in Backups : \/ point'[p] = point[p]
                         \/ point[p] # "absent" /\ point'[p] = "deleted"
  BY Zenon DEF MarkDeleted
<1>2. Stages'
  BY <1>1, Zenon DEF StoreInv, Stages
<1>3. OneOpenTask'
  BY Zenon DEF StoreInv, OneOpenTask
<1>4. PublishedWithSuccess'
  <2>1. \A b \in Backups : repl[b] \in Backups \cup {None}
    BY Zenon DEF TypeOK
  <2> QED
    BY <1>1, <2>1, Zenon DEF StoreInv, PublishedWithSuccess
<1>5. ReplacementLock'
  <2>1. \A b \in Backups : repl[b] \in Backups \cup {None}
    BY Zenon DEF TypeOK
  <2> QED
    BY <1>1, <2>1, Zenon DEF StoreInv, ReplacementLock, Points
<1> QED
  BY <1>1, <1>2, <1>3, <1>4, <1>5, Zenon DEF StoreInv

\* Steps that touch neither tasks, reservations, points nor owner marks.
LEMMA FrameKeeps ==
  ASSUME StoreInv, UNCHANGED <<task, resv, repl, owner, point>>
  PROVE  StoreInv'
BY Zenon DEF StoreInv, Stages, OneOpenTask, PublishedWithSuccess, ReplacementLock, Points

\* A written status is a status.
LEMMA StatusIsWritten ==
  ASSUME TypeOK, NEW b \in Backups, NEW s \in Open \cup Aborted, UpdateTaskStatus(b, s)
  PROVE  \A a \in Backups : task'[a] = "none" => task[a] = "none"
<1>1. StatusAfter(b, s) # "none"
  BY Zenon DEF StatusAfter, Open, Aborted, Terminal
<1>2. task' = [task EXCEPT ![b] = StatusAfter(b, s)]
  BY Zenon DEF UpdateTaskStatus
<1> QED
  BY <1>1, <1>2, Zenon DEF TypeOK

\* Steps that start nothing for a task or a point that does not exist.
LEMMA OriginsFrame ==
  ASSUME TypeOK, Origins,
         \A a \in Backups : task'[a] = "none" => task[a] = "none",
         \A a \in Backups : task[a] = "none" =>
           /\ a \in unmarked' => a \in unmarked
           /\ exec[a] = "none" => exec'[a] = "none"
           /\ cancel[a] = "none" => cancel'[a] = "none",
         \A p \in Backups : point[p] # "absent" => point'[p] # "absent",
         UNCHANGED <<cpoints, claim>>
  PROVE  Origins'
BY ZenonT(60) DEF Origins, TypeOK

\* Every step of the program preserves the inductive invariant.
LEMMA InvStep ==
  IInv /\ [Next]_vars => IInv'
<1> SUFFICES ASSUME IInv, [Next]_vars
             PROVE  StoreInv' /\ Origins'
  BY TypeStep, Zenon DEF IInv
<1> USE DEF IInv
<1>1. ASSUME NEW b \in Backups, NEW sel \in SUBSET Selectable, CreateBackup(b, sel)
      PROVE  StoreInv' /\ Origins'
  <2>1. StoreInv'
    BY <1>1, CreateBackupKeeps, Zenon
  <2>2. \A a \in Backups : task'[a] = "none" =>
          a \notin unmarked' /\ exec'[a] = "none" /\ cancel'[a] = "none"
    <3>1. task'[b] # "none"
      BY <1>1, ZenonT(60) DEF CreateBackup, TypeOK
    <3>2. \A a \in Backups \ {b} :
            task'[a] = task[a] /\ (a \in unmarked' => a \in unmarked) /\ exec'[a] = exec[a]
      <4>1. CASE QuotaExhausted(sel)
        BY <1>1, <4>1, Zenon DEF CreateBackup, TypeOK
      <4>2. CASE ~QuotaExhausted(sel)
        <5>1. /\ task' = [task EXCEPT ![b] = "active"]
              /\ unmarked' = unmarked \cup {b}
              /\ exec' = [exec EXCEPT ![b] = "queued"]
          BY <1>1, <4>2, Zenon DEF CreateBackup
        <5> QED
          BY <5>1, Zenon DEF TypeOK
      <4> QED
        BY <4>1, <4>2, Zenon
    <3> QED
      BY <1>1, <3>1, <3>2, Zenon DEF CreateBackup, Origins
  <2> QED
    BY <1>1, <2>1, <2>2, Zenon DEF CreateBackup, Origins
<1>2. ASSUME NEW b \in Backups, NEW sel \in SUBSET Selectable, BackupCompleted(b, sel)
      PROVE  StoreInv' /\ Origins'
  <2>1. \A a \in Backups : exec[a] = "none" => exec'[a] = "none"
    BY <1>2, Zenon DEF BackupCompleted, Acked, TypeOK
  <2>2. CASE Publishable(b, sel) /\ Publish(b, sel)
    <3>1. StoreInv'
      BY <2>2, PublishKeeps, Zenon
    <3>2. /\ \A a \in Backups : task'[a] = "none" => task[a] = "none"
          /\ \A p \in Backups : point[p] # "absent" => point'[p] # "absent"
      BY <2>2, Zenon DEF Publishable, Publish, TypeOK
    <3> QED
      BY <1>2, <2>1, <3>1, <3>2, ZenonT(60) DEF BackupCompleted, Origins, TypeOK
  <2>3. CASE UNCHANGED <<task, result, resvVars, point, owner>>
    BY <1>2, <2>1, <2>3, FrameKeeps, Zenon DEF BackupCompleted, Origins
  <2> QED
    BY <1>2, <2>2, <2>3, Zenon DEF BackupCompleted
<1>3. ASSUME NEW b \in Backups, NEW sel \in SUBSET Selectable, FinishReplacement(b, sel)
      PROVE  StoreInv' /\ Origins'
  <2>1. StoreInv'
    BY <1>3, PublishKeeps, Zenon DEF FinishReplacement
  <2>2. /\ \A a \in Backups : task'[a] = "none" => task[a] = "none"
        /\ \A p \in Backups : point[p] # "absent" => point'[p] # "absent"
    BY <1>3, Zenon DEF FinishReplacement, Publishable, Publish, TypeOK
  <2> QED
    BY <1>3, <2>1, <2>2, OriginsFrame, Zenon DEF FinishReplacement
<1>4. ASSUME NEW b \in Backups, MarkDispatched(b)
      PROVE  StoreInv' /\ Origins'
  <2>1. task[b] # "none"
    BY <1>4, Zenon DEF MarkDispatched, Origins
  <2>2. StoreInv'
    BY <1>4, <2>1, UpdateTaskStatusKeeps, Zenon DEF MarkDispatched, Open, Aborted
  <2>3. \A a \in Backups : task'[a] = "none" => task[a] = "none"
    BY <1>4, StatusIsWritten, Zenon DEF MarkDispatched, Open, Aborted
  <2>4. \A a \in Backups : task[a] = "none" =>
          /\ a \in unmarked' => a \in unmarked
          /\ exec[a] = "none" => exec'[a] = "none"
          /\ cancel[a] = "none" => cancel'[a] = "none"
    BY <1>4, <2>1, Zenon DEF MarkDispatched, TypeOK
  <2> QED
    BY <1>4, <2>2, <2>3, <2>4, OriginsFrame, Zenon DEF MarkDispatched
<1>5. ASSUME NEW b \in Backups, DispatchFails(b)
      PROVE  StoreInv' /\ Origins'
  <2>1. task[b] # "none"
    BY <1>5, Zenon DEF DispatchFails, Origins
  <2>2. StoreInv'
    BY <1>5, <2>1, UpdateTaskStatusKeeps, Zenon DEF DispatchFails, Open, Aborted
  <2>3. \A a \in Backups : task'[a] = "none" => task[a] = "none"
    BY <1>5, StatusIsWritten, Zenon DEF DispatchFails, Open, Aborted
  <2>4. \A a \in Backups : task[a] = "none" =>
          /\ a \in unmarked' => a \in unmarked
          /\ exec[a] = "none" => exec'[a] = "none"
          /\ cancel[a] = "none" => cancel'[a] = "none"
    BY <1>5, <2>1, Zenon DEF DispatchFails, TypeOK
  <2> QED
    BY <1>5, <2>2, <2>3, <2>4, OriginsFrame, Zenon DEF DispatchFails
<1>6. ASSUME NEW b \in Backups, BackupReported(b)
      PROVE  StoreInv' /\ Origins'
  <2>1. task[b] # "none"
    BY <1>6, Zenon DEF BackupReported, Origins
  <2>2. StoreInv'
    BY <1>6, <2>1, UpdateTaskStatusKeeps, Zenon DEF BackupReported, Open, Aborted
  <2>3. \A a \in Backups : task'[a] = "none" => task[a] = "none"
    BY <1>6, StatusIsWritten, Zenon DEF BackupReported, Open, Aborted
  <2>4. \A a \in Backups : task[a] = "none" =>
          /\ a \in unmarked' => a \in unmarked
          /\ exec[a] = "none" => exec'[a] = "none"
          /\ cancel[a] = "none" => cancel'[a] = "none"
    BY <1>6, <2>1, Zenon DEF BackupReported, TypeOK
  <2> QED
    BY <1>6, <2>2, <2>3, <2>4, OriginsFrame, Zenon DEF BackupReported
<1>7. ASSUME NEW b \in Backups, BackupIncomplete(b)
      PROVE  StoreInv' /\ Origins'
  <2>1. task[b] # "none"
    BY <1>7, Zenon DEF BackupIncomplete, Origins
  <2>2. StoreInv'
    BY <1>7, <2>1, UpdateTaskStatusKeeps, Zenon DEF BackupIncomplete, Open, Aborted
  <2>3. \A a \in Backups : task'[a] = "none" => task[a] = "none"
    BY <1>7, StatusIsWritten, Zenon DEF BackupIncomplete, Open, Aborted
  <2>4. \A a \in Backups : task[a] = "none" =>
          /\ a \in unmarked' => a \in unmarked
          /\ exec[a] = "none" => exec'[a] = "none"
          /\ cancel[a] = "none" => cancel'[a] = "none"
    BY <1>7, <2>1, Zenon DEF BackupIncomplete, TypeOK
  <2> QED
    BY <1>7, <2>2, <2>3, <2>4, OriginsFrame, Zenon DEF BackupIncomplete
<1>8. ASSUME NEW b \in Backups, MarkCanceling(b)
      PROVE  StoreInv' /\ Origins'
  <2>1. task[b] # "none"
    BY <1>8, Zenon DEF MarkCanceling, Origins
  <2>2. StoreInv'
    BY <1>8, <2>1, UpdateTaskStatusKeeps, Zenon DEF MarkCanceling, Open, Aborted
  <2>3. \A a \in Backups : task'[a] = "none" => task[a] = "none"
    BY <1>8, StatusIsWritten, Zenon DEF MarkCanceling, Open, Aborted
  <2>4. \A a \in Backups : task[a] = "none" =>
          /\ a \in unmarked' => a \in unmarked
          /\ exec[a] = "none" => exec'[a] = "none"
          /\ cancel[a] = "none" => cancel'[a] = "none"
    BY <1>8, <2>1, Zenon DEF MarkCanceling, TypeOK
  <2> QED
    BY <1>8, <2>2, <2>3, <2>4, OriginsFrame, Zenon DEF MarkCanceling
<1>9. ASSUME NEW b \in Backups, CancelCompleted(b)
      PROVE  StoreInv' /\ Origins'
  <2>1. task[b] # "none"
    BY <1>9, Zenon DEF CancelCompleted, Origins
  <2>2. StoreInv'
    BY <1>9, <2>1, UpdateTaskStatusKeeps, Zenon DEF CancelCompleted, Open, Aborted
  <2>3. \A a \in Backups : task'[a] = "none" => task[a] = "none"
    BY <1>9, StatusIsWritten, Zenon DEF CancelCompleted, Open, Aborted
  <2>4. \A a \in Backups : task[a] = "none" =>
          /\ a \in unmarked' => a \in unmarked
          /\ exec[a] = "none" => exec'[a] = "none"
          /\ cancel[a] = "none" => cancel'[a] = "none"
    BY <1>9, <2>1, Zenon DEF CancelCompleted, TypeOK
  <2> QED
    BY <1>9, <2>2, <2>3, <2>4, OriginsFrame, Zenon DEF CancelCompleted
<1>10. ASSUME NEW b \in Backups, BackupFailed(b)
      PROVE  StoreInv' /\ Origins'
  <2>1. task[b] # "none"
    BY <1>10, Zenon DEF BackupFailed, Origins
  <2>2. \A a \in Backups : exec[a] = "none" => exec'[a] = "none"
    BY <1>10, Zenon DEF BackupFailed, Acked, TypeOK
  <2>3. CASE UpdateTaskStatus(b, "failed")
    <3>1. StoreInv'
      BY <1>10, <2>1, <2>3, UpdateTaskStatusKeeps, Zenon DEF BackupFailed, Aborted
    <3>2. \A a \in Backups : task'[a] = "none" => task[a] = "none"
      BY <2>3, StatusIsWritten, Zenon DEF Open, Aborted
    <3> QED
      BY <1>10, <2>2, <3>1, <3>2, Zenon DEF BackupFailed, Origins
  <2>4. CASE UNCHANGED <<task, resv, owner>>
    BY <1>10, <2>2, <2>4, FrameKeeps, Zenon DEF BackupFailed, Origins
  <2> QED
    BY <1>10, <2>3, <2>4, Zenon DEF BackupFailed
<1>11. ASSUME NEW b \in Backups, CancelFailed(b)
      PROVE  StoreInv' /\ Origins'
  <2>1. task[b] # "none"
    BY <1>11, Zenon DEF CancelFailed, Origins
  <2>2. \A a \in Backups : cancel[a] = "none" => cancel'[a] = "none"
    BY <1>11, Zenon DEF CancelFailed, TypeOK
  <2>3. CASE UpdateTaskStatus(b, "active")
    <3>1. StoreInv'
      BY <1>11, <2>1, <2>3, UpdateTaskStatusKeeps, Zenon DEF CancelFailed, Open
    <3>2. \A a \in Backups : task'[a] = "none" => task[a] = "none"
      BY <2>3, StatusIsWritten, Zenon DEF Open, Aborted
    <3> QED
      BY <1>11, <2>2, <3>1, <3>2, Zenon DEF CancelFailed, Origins
  <2>4. CASE UNCHANGED <<task, resv, owner>>
    BY <1>11, <2>2, <2>4, FrameKeeps, Zenon DEF CancelFailed, Origins
  <2> QED
    BY <1>11, <2>3, <2>4, Zenon DEF CancelFailed
<1>12. ASSUME NEW b \in Backups, RefinishCleanup(b)
      PROVE  StoreInv' /\ Origins'
  <2>1. cleanupOf[b] \in Cleanups /\ MarkDeleted(cleanupOf[b])
    BY <1>12, Zenon DEF RefinishCleanup, TypeOK
  <2>2. StoreInv' /\ \A p \in Backups : point'[p] = "absent" <=> point[p] = "absent"
    BY <1>12, <2>1, MarkDeletedKeeps, Zenon DEF RefinishCleanup, Origins
  <2> QED
    BY <1>12, <2>2, ZenonT(60) DEF RefinishCleanup, Origins, TypeOK
<1>13. ASSUME NEW c \in Cleanups, CleanupCompleted(c)
      PROVE  StoreInv' /\ Origins'
  <2>1. StoreInv' /\ \A p \in Backups : point'[p] = "absent" <=> point[p] = "absent"
    BY <1>13, MarkDeletedKeeps, Zenon DEF CleanupCompleted, Origins
  <2> QED
    BY <1>13, <2>1, Zenon DEF CleanupCompleted, Origins, TypeOK
<1>14. ASSUME NEW D \in SUBSET Backups, DeleteRestorePoints(D)
      PROVE  StoreInv' /\ Origins'
  <2>1. \A h \in Handlers : \A p \in claim'[h] : point[p] # "absent"
    BY <1>14, Zenon DEF DeleteRestorePoints, ClaimRestorePointDeletion, Claimable, Points, Origins, TypeOK
  <2> QED
    BY <1>14, <2>1, FrameKeeps, Zenon DEF DeleteRestorePoints, Origins
<1>15. ASSUME NEW sel \in SUBSET Selectable, ReconcileRetention(sel)
      PROVE  StoreInv' /\ Origins'
  <2>1. \A p \in Expired(sel) : point[p] # "absent"
    BY Zenon DEF Expired, Points
  <2>2. \A h \in Handlers : \A p \in claim'[h] : point[p] # "absent"
    BY <1>15, <2>1, ZenonT(60) DEF ReconcileRetention, ClaimRestorePointDeletion, Origins, TypeOK
  <2> QED
    BY <1>15, <2>2, FrameKeeps, Zenon DEF ReconcileRetention, Origins
<1>16. ASSUME NEW c \in Cleanups, NEW sel \in SUBSET Selectable, NEW h \in Handlers,
             CreateCleanup(h, c, sel)
      PROVE  StoreInv' /\ Origins'
  <2>1. \A k \in Handlers : \A p \in claim'[k] : point[p] # "absent"
    BY <1>16, Zenon DEF CreateCleanup, Origins, TypeOK
  <2>2. CASE /\ DeletionAllowed(claim[h], h = "manual", sel)
             /\ CreateDeletion(c, claim[h])
    <3>1. claim[h] \in SUBSET Backups /\ \A p \in claim[h] : point[p] # "absent"
      BY <1>16, Zenon DEF Origins, TypeOK
    <3>2. UNCHANGED <<task, repl, owner, point>>
      BY <1>16, Zenon DEF CreateCleanup
    <3>3. StoreInv'
      BY <1>16, <2>2, <3>1, <3>2, CreateDeletionKeeps, Zenon
    <3>4. \A k \in Cleanups : \A p \in cpoints'[k] : point[p] # "absent"
      BY <2>2, <3>1, Zenon DEF CreateDeletion, Origins, TypeOK
    <3> QED
      BY <1>16, <2>1, <3>2, <3>3, <3>4, Zenon DEF CreateCleanup, Origins
  <2>3. CASE UNCHANGED <<cleanupVars, cexec, rstate, resv, cleanupOf>>
    BY <1>16, <2>1, <2>3, FrameKeeps, Zenon DEF CreateCleanup, Origins
  <2> QED
    BY <1>16, <2>2, <2>3, Zenon DEF CreateCleanup
<1>17. ASSUME NEW c \in Cleanups, NEW sel \in SUBSET Selectable, NEW b \in Backups,
             StartReplacement(b, c, sel)
      PROVE  StoreInv' /\ Origins'
  <2>1. StoreInv' /\ \A a \in Backups : task'[a] = "none" => task[a] = "none"
    BY <1>17, StartReplacementKeeps, Zenon
  <2>2. repl[b] \in Points
    BY <1>17, StartReplacementKeeps, Zenon
  <2>3. \A k \in Cleanups : \A p \in cpoints'[k] : point[p] # "absent"
    BY <1>17, <2>2, Zenon DEF StartReplacement, CreateDeletion, Origins, TypeOK, Points
  <2> QED
    BY <1>17, <2>1, <2>3, Zenon DEF StartReplacement, Origins
<1>18. ASSUME NEW b \in Cancelable, CancelTask(b)
      PROVE  StoreInv' /\ Origins'
  <2>1. \A a \in Backups : cancel'[a] = cancel[a] \/ task[a] # "none"
    BY <1>18, NamesAssumption, Zenon DEF CancelTask, TypeOK
  <2> QED
    BY <1>18, <2>1, FrameKeeps, Zenon DEF CancelTask, Origins
<1>19. ASSUME NEW b \in Backups, CreateCancel(b)
      PROVE  StoreInv' /\ Origins'
  BY <1>19, FrameKeeps, Zenon DEF CreateCancel, TypeOK, Origins
<1>20. ASSUME NEW b \in Backups, AgentStartsBackup(b)
      PROVE  StoreInv' /\ Origins'
  BY <1>20, FrameKeeps, Zenon DEF AgentStartsBackup, TypeOK, Origins
<1>21. ASSUME NEW b \in Backups, NEW e \in Report, AgentEndsBackup(b, e)
      PROVE  StoreInv' /\ Origins'
  BY <1>21, FrameKeeps, Zenon DEF AgentEndsBackup, TypeOK, Origins
<1>22. ASSUME NEW b \in Backups, NEW found \in BOOLEAN, AgentCancels(b, found)
      PROVE  StoreInv' /\ Origins'
  BY <1>22, FrameKeeps, Zenon DEF AgentCancels, TypeOK, Origins
<1>23. ASSUME NEW c \in Cleanups, CleanupDispatchFails(c)
      PROVE  StoreInv' /\ Origins'
  BY <1>23, FrameKeeps, Zenon DEF CleanupDispatchFails, Origins
<1>24. ASSUME NEW c \in Cleanups, CleanupSucceeds(c)
      PROVE  StoreInv' /\ Origins'
  BY <1>24, FrameKeeps, Zenon DEF CleanupSucceeds, Origins
<1>25. ASSUME NEW c \in Cleanups, CleanupFailed(c)
      PROVE  StoreInv' /\ Origins'
  BY <1>25, FrameKeeps, Zenon DEF CleanupFailed, Origins
<1>26. ASSUME NEW c \in Cleanups, CleanupAbandoned(c)
      PROVE  StoreInv' /\ Origins'
  BY <1>26, FrameKeeps, Zenon DEF CleanupAbandoned, Origins
<1>27. ASSUME NEW c \in Cleanups, AgentStartsCleanup(c)
      PROVE  StoreInv' /\ Origins'
  BY <1>27, FrameKeeps, Zenon DEF AgentStartsCleanup, Origins
<1>28. ASSUME NEW c \in Cleanups, NEW p \in Backups, AgentDeletes(c, p)
      PROVE  StoreInv' /\ Origins'
  BY <1>28, FrameKeeps, Zenon DEF AgentDeletes, Origins
<1>29. ASSUME NEW c \in Cleanups, NEW e \in Report, AgentEndsCleanup(c, e)
      PROVE  StoreInv' /\ Origins'
  BY <1>29, FrameKeeps, Zenon DEF AgentEndsCleanup, Origins
<1>30. ASSUME NEW r \in Recoveries, NEW p \in Backups, NEW d \in BOOLEAN,
             CreateRecovery(r, p, d)
      PROVE  StoreInv' /\ Origins'
  BY <1>30, FrameKeeps, Zenon DEF CreateRecovery, Origins
<1>31. ASSUME NEW r \in Recoveries, NEW s \in {"succeeded", "failed"},
             EndRecovery(r, s)
      PROVE  StoreInv' /\ Origins'
  BY <1>31, FrameKeeps, Zenon DEF EndRecovery, Origins
<1>32. ASSUME NEW p \in Retainable, NEW retain \in BOOLEAN,
             SetRestorePointRetention(p, retain)
      PROVE  StoreInv' /\ Origins'
  BY <1>32, FrameKeeps, Zenon DEF SetRestorePointRetention, Origins
<1>33. ASSUME NEW n \in Counts, UpdatePolicy(n)
      PROVE  StoreInv' /\ Origins'
  BY <1>33, FrameKeeps, Zenon DEF UpdatePolicy, Origins
<1>34. ASSUME NEW n \in Switches, SaveProtectionPlan(n)
      PROVE  StoreInv' /\ Origins'
  BY <1>34, FrameKeeps, Zenon DEF SaveProtectionPlan, Origins
<1>35. ASSUME PlatformRestarts
      PROVE  StoreInv' /\ Origins'
  BY <1>35, FrameKeeps, Zenon DEF PlatformRestarts, Handlers, Origins
<1>40. ASSUME NEW b \in Backups, RedispatchPendingTasks(b)
      PROVE  StoreInv' /\ Origins'
  BY <1>40, FrameKeeps, Zenon DEF RedispatchPendingTasks, TypeOK, Origins
<1>36. CASE UNCHANGED vars
  BY <1>36, FrameKeeps, Zenon DEF vars, Origins
<1> QED
  BY <1>40, <1>1, <1>2, <1>3, <1>4, <1>5, <1>6, <1>7, <1>8, <1>9, <1>10, <1>11, <1>12,
     <1>13, <1>14, <1>15, <1>16, <1>17, <1>18, <1>19, <1>20, <1>21, <1>22, <1>23, <1>24,
     <1>25, <1>26, <1>27, <1>28, <1>29, <1>30, <1>31, <1>32, <1>33, <1>34, <1>35, <1>36, Zenon DEF Next

\* The inductive invariant holds in every reachable state.
THEOREM Invariance ==
  Spec => []IInv
<1>1. Init => IInv
  <2> SUFFICES ASSUME Init
               PROVE  IInv
    OBVIOUS
  <2>1. TypeOK
    BY InitType, Zenon
  <2>2. StoreInv
    BY Zenon DEF Init, StoreInv, Stages, OneOpenTask, PublishedWithSuccess, ReplacementLock,
           Points, InFlight, Open
  <2>3. Origins
    BY Zenon DEF Init, Origins
  <2> QED
    BY <2>1, <2>2, <2>3, Zenon DEF IInv
<1> QED
  BY <1>1, InvStep, PTL DEF Spec

\* One backup of a plan at a time, until its point is published (CreateTask).
THEOREM BackupsExclude ==
  Spec => []OneBackupAtATime
<1>1. IInv => OneBackupAtATime
  BY Zenon DEF IInv, StoreInv, Stages, OneOpenTask, OneBackupAtATime, InFlight
<1> QED
  BY <1>1, Invariance, PTL

\* A reservation and the lock of the point it replaces always agree
\* (reserveBackupQuota, UpdateTaskStatus, createRestorePoint).
THEOREM LocksAgree ==
  Spec => []ReplacementLock
<1>1. IInv => ReplacementLock
  BY Zenon DEF IInv, StoreInv
<1> QED
  BY <1>1, Invariance, PTL

\* A point exists exactly when its task succeeded, and the point it replaced is
\* then gone (createRestorePoint).
THEOREM PublicationIsSuccess ==
  Spec => []PublishedWithSuccess
<1>1. IInv => PublishedWithSuccess
  BY Zenon DEF IInv, StoreInv
<1> QED
  BY <1>1, Invariance, PTL

\* A task that ended without success holds no slot and no lock
\* (UpdateTaskStatus).
THEOREM AbortedHoldsNothing ==
  Spec => []AbortedTaskHoldsNothing
<1>1. IInv => AbortedTaskHoldsNothing
  BY Zenon DEF IInv, StoreInv, Stages, AbortedTaskHoldsNothing, TypeOK, InFlight, Open, Aborted
<1> QED
  BY <1>1, Invariance, PTL

=============================================================================
