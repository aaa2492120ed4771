------------------------- MODULE RestorePointsUse -------------------------
(***************************************************************************)
(* The use of restore points: what is decided is not taken back, a point   *)
(* that is to be replaced is in nobody's use, a point nobody tried to      *)
(* delete has its data, and a point that is in use is not deleted.  The    *)
(* proofs rest on the inductive invariant of RestorePointsSafety.          *)
(***************************************************************************)
EXTENDS RestorePointsSafety

USE DEF policyVars, taskVars, resvVars, markVars, pointVars, claimVars, cleanupVars,
        recoveryVars, agentVars

Ready == {"data_ready", "deleting"}

\* Nobody keeps the point or recovers from it.
Unused(p) ==
  /\ ~pointProtected(p)
  /\ \A r \in Recoveries : rtask[r] = "active" => rpoint[r] # p

\* The agent reported the data of the backup, or the platform recorded it.
Stored(b) == exec[b] = "completed" \/ resv[b] \in Ready \/ point[b] # "absent"

\* Where the data of a backup is (no backup is stopped).
DataInv ==
  /\ \A b \in Backups :
       /\ Stored(b) => data[b] # "none"
       /\ data[b] = "gone" => rstate[b] # ""
       /\ cancel[b] = "none"
  /\ \A c \in Cleanups : \A p \in cpoints[c] : rstate[p] # ""

-----------------------------------------------------------------------------
(***************************************************************************)
(* What a step of the program may do to the store.                         *)
(***************************************************************************)
\* What is decided stays, and a reservation gets an old point only when that is
\* free (reserveBackupQuota).
Decided ==
  \A b \in Backups :
    /\ resv[b] \in Irreversible => resv'[b] \in Irreversible
    /\ task[b] \in Terminal => task'[b] = task[b]
    /\ point[b] # "absent" => point'[b] \in {point[b], "deleted"}
    /\ resv[b] \in Ready /\ repl[b] \in Points => resv'[b] \in Ready /\ repl'[b] = repl[b]
    /\ resv'[b] \in InFlight /\ repl'[b] # None =>
         \/ resv[b] \in InFlight /\ repl'[b] = repl[b]
         \/ repl'[b] \in Points /\ Unused(repl'[b]) /\ rstate[repl'[b]] \notin Claimed

\* A replaceable point is free.
LEMMA ReplaceableIsFree ==
  ASSUME NEW sel, NEW rv, NEW p \in Replaceable(sel, rv)
  PROVE  p \in Points /\ Unused(p) /\ rstate[p] \notin Claimed
BY Zenon DEF Replaceable, Unused, pointBusy

\* Steps that write neither statuses, reservations nor points.
LEMMA FrameDecides ==
  ASSUME UNCHANGED <<task, resv, repl, point>>
  PROVE  Decided
BY Zenon DEF Decided

\* UpdateTaskStatus leaves what has ended, and releases only a reservation that
\* is not yet decided.
LEMMA StatusDecides ==
  ASSUME IInv, NEW b \in Backups, NEW s, UpdateTaskStatus(b, s), UNCHANGED <<repl, point>>
  PROVE  Decided
<1>1. \A a \in Backups : task[a] \in Terminal => task'[a] = task[a]
  BY Zenon DEF UpdateTaskStatus, StatusAfter, IInv, TypeOK
<1>2. \A a \in Backups : resv'[a] = resv[a] \/ (resv[a] = "reserved" /\ resv'[a] = "released")
  BY Zenon DEF UpdateTaskStatus, IInv, TypeOK
<1> QED
  BY <1>1, <1>2, Zenon DEF Decided, Irreversible, Ready, InFlight

\* A publication finishes what is decided.
LEMMA PublishDecides ==
  ASSUME IInv, NEW b \in Backups, NEW sel, Publishable(b, sel), Publish(b, sel)
  PROVE  Decided
<1>1. TypeOK /\ StoreInv
  BY Zenon DEF IInv
<1>2. \A a \in Backups \ {b} :
        task'[a] = task[a] /\ resv'[a] = resv[a] /\ repl'[a] = repl[a] /\ point'[a] = point[a]
  BY <1>1, PublishOutcomes, Zenon
<1>3. task[b] \in Open /\ point[b] = "absent" /\ resv[b] \in {"none"} \cup InFlight
  <2>1. task[b] \in {"active", "finalizing"} /\ resv[b] # "released"
    BY Zenon DEF Publishable
  <2>2. point[b] = "absent"
    BY <1>1, <2>1, Zenon DEF StoreInv, PublishedWithSuccess
  <2>3. resv[b] \in {"none", "published", "released"} \cup InFlight /\ resv[b] # "published"
    BY <1>1, <2>1, Zenon DEF StoreInv, Stages, TypeOK
  <2> QED
    BY <2>1, <2>2, <2>3, Zenon DEF Open
<1>4. resv[b] # "none" => repl'[b] = repl[b]
  BY <1>1, Zenon DEF Publish, TypeOK
<1>5. resv[b] = "none" /\ repl'[b] # None => repl'[b] \in Replaceable(sel, Released)
  <2> SUFFICES ASSUME resv[b] = "none", repl'[b] # None PROVE repl'[b] \in Replaceable(sel, Released)
    OBVIOUS
  <2>1. repl'[b] = Replacement(sel) /\ ~QuotaExhausted(sel) /\ count \in Nat
    BY <1>1, Zenon DEF Publish, Publishable, TypeOK
  <2> QED
    BY <2>1, ReplacementIsReplaceable, Zenon
<1>6. resv[b] \in Ready /\ repl[b] \in Points => resv'[b] \in Ready
  <2> SUFFICES ASSUME resv[b] \in Ready, repl[b] \in Points PROVE resv'[b] \in Ready
    OBVIOUS
  <2>1. repl[b] # None /\ point[repl[b]] # "deleted" /\ resv[b] # "none" /\ resv[b] # "reserved"
    BY NoneIsNoBackup, Zenon DEF Points, Ready
  <2>2. Released = resv
    BY <1>1, NothingToRelease, Zenon DEF StoreInv
  <2> QED
    BY <1>1, <2>1, <2>2, Zenon DEF Publish, TypeOK
<1>7. resv[b] \in Irreversible => resv'[b] \in Irreversible
  <2> SUFFICES ASSUME resv[b] \in Irreversible PROVE resv'[b] \in Irreversible
    OBVIOUS
  <2>1. Released = resv
    BY <1>1, NothingToRelease, Zenon DEF StoreInv
  <2> QED
    BY <1>1, <2>1, Zenon DEF Publish, TypeOK, Irreversible
<1>8. /\ task[b] \notin Terminal
      /\ resv'[b] \in InFlight /\ repl'[b] # None =>
         \/ resv[b] \in InFlight /\ repl'[b] = repl[b]
         \/ repl'[b] \in Points /\ Unused(repl'[b]) /\ rstate[repl'[b]] \notin Claimed
  BY <1>3, <1>4, <1>5, ReplaceableIsFree, Zenon DEF Open, Terminal
<1>9. ASSUME NEW a \in Backups \ {b}
      PROVE  /\ resv[a] \in Irreversible => resv'[a] \in Irreversible
             /\ task[a] \in Terminal => task'[a] = task[a]
             /\ point[a] # "absent" => point'[a] \in {point[a], "deleted"}
             /\ resv[a] \in Ready /\ repl[a] \in Points => resv'[a] \in Ready /\ repl'[a] = repl[a]
             /\ resv'[a] \in InFlight /\ repl'[a] # None => resv[a] \in InFlight /\ repl'[a] = repl[a]
  BY <1>2, Zenon
<1>10. resv[b] \in Ready => resv[b] # "none"
  BY Zenon DEF Ready
<1> QED
  BY <1>3, <1>4, <1>6, <1>7, <1>8, <1>9, <1>10, Zenon DEF Decided

\* A new task decides nothing about the others.
LEMMA CreateBackupDecides ==
  ASSUME IInv, NEW b \in Backups, NEW sel, CreateBackup(b, sel)
  PROVE  Decided
<1>1. TypeOK /\ StoreInv /\ Released = resv
  BY NothingToRelease, Zenon DEF IInv, StoreInv
<1>2. task[b] = "none" /\ resv[b] = "none" /\ UNCHANGED point
  BY <1>1, Zenon DEF CreateBackup, Fresh, StoreInv, Stages
<1>3. \A a \in Backups \ {b} : task'[a] = task[a] /\ resv'[a] = resv[a] /\ repl'[a] = repl[a]
  <2>1. CASE QuotaExhausted(sel)
    BY <1>1, <2>1, Zenon DEF CreateBackup, TypeOK
  <2>2. CASE ~QuotaExhausted(sel)
    <3>1. /\ task' = [task EXCEPT ![b] = "active"]
          /\ resv' = [resv EXCEPT ![b] = NewReservation]
          /\ repl' = [repl EXCEPT ![b] = Replacement(sel)]
      BY <1>1, <2>2, Zenon DEF CreateBackup
    <3> QED
      BY <1>1, <3>1, Zenon DEF TypeOK
  <2> QED
    BY <2>1, <2>2, Zenon
<1>4. resv'[b] \in InFlight /\ repl'[b] # None => repl'[b] \in Replaceable(sel, Released)
  <2>1. CASE QuotaExhausted(sel)
    BY <1>1, <1>2, <2>1, Zenon DEF CreateBackup, InFlight
  <2>2. CASE ~QuotaExhausted(sel)
    <3>1. repl'[b] = Replacement(sel) /\ count \in Nat
      BY <1>1, <2>2, ZenonT(60) DEF CreateBackup, TypeOK
    <3> QED
      BY <2>2, <3>1, ReplacementIsReplaceable, Zenon
  <2> QED
    BY <2>1, <2>2, Zenon
<1> QED
  BY <1>2, <1>3, <1>4, ReplaceableIsFree, Zenon DEF Decided, Irreversible, Ready, Terminal

\* A cleanup takes over reservations that are ready (prepareRestorePointDeletion).
LEMMA CreateDeletionDecides ==
  ASSUME IInv, NEW c \in Cleanups, NEW S \in SUBSET Backups, NEW m, NEW sel,
         DeletionAllowed(S, m, sel), CreateDeletion(c, S), UNCHANGED <<repl, point>>,
         \A a \in Backups : task[a] \in Terminal => task'[a] = task[a]
  PROVE  /\ Decided
         /\ \A a \in Backups : resv'[a] \in Ready => resv[a] \in Ready
<1> DEFINE owners == {owner[p] : p \in {q \in S : point[q] # "deleted"}} \ {None}
<1>1. Released = resv
  BY NothingToRelease, Zenon DEF IInv, StoreInv
<1>2. resv' = [b \in Backups |-> IF b \in owners THEN "deleting" ELSE resv[b]]
  BY <1>1, Zenon DEF CreateDeletion
<1>3. \A b \in owners : resv[b] \in Ready
  BY DEF DeletionAllowed, Ready
<1> HIDE DEF owners
<1>4. \A a \in Backups : resv'[a] = resv[a] \/ (resv[a] \in Ready /\ resv'[a] \in Ready)
  BY <1>2, <1>3, Zenon DEF Ready
<1> QED
  BY <1>4, Zenon DEF Decided, Ready, Irreversible, InFlight

\* Marking points deleted decides nothing about reservations.
LEMMA MarkDeletedDecides ==
  ASSUME IInv, NEW c \in Cleanups, MarkDeleted(c), UNCHANGED <<task, resv, repl>>
  PROVE  Decided
BY ZenonT(60) DEF MarkDeleted, Decided

\* Every step of the program keeps what is decided and gives old points only to
\* reservations that find them free.
LEMMA DecidedStep ==
  ASSUME IInv, [Next]_vars
  PROVE  Decided
<1>1. ASSUME NEW b \in Backups, NEW sel \in SUBSET Selectable, CreateBackup(b, sel)
      PROVE  Decided
  BY <1>1, CreateBackupDecides, Zenon
<1>2. ASSUME NEW b \in Backups, NEW sel \in SUBSET Selectable, BackupCompleted(b, sel)
      PROVE  Decided
  <2>1. CASE Publishable(b, sel) /\ Publish(b, sel)
    BY <2>1, PublishDecides, Zenon
  <2>2. CASE UNCHANGED <<task, result, resvVars, point, owner>>
    BY <2>2, FrameDecides, Zenon
  <2> QED
    BY <1>2, <2>1, <2>2, Zenon DEF BackupCompleted
<1>3. ASSUME NEW b \in Backups, NEW sel \in SUBSET Selectable, FinishReplacement(b, sel)
      PROVE  Decided
  BY <1>3, PublishDecides, Zenon DEF FinishReplacement
<1>4. ASSUME NEW b \in Backups, MarkDispatched(b)
      PROVE  Decided
  BY <1>4, StatusDecides, Zenon DEF MarkDispatched
<1>5. ASSUME NEW b \in Backups, DispatchFails(b)
      PROVE  Decided
  BY <1>5, StatusDecides, Zenon DEF DispatchFails
<1>6. ASSUME NEW b \in Backups, BackupReported(b)
      PROVE  Decided
  BY <1>6, StatusDecides, Zenon DEF BackupReported
<1>7. ASSUME NEW b \in Backups, BackupIncomplete(b)
      PROVE  Decided
  BY <1>7, StatusDecides, Zenon DEF BackupIncomplete
<1>8. ASSUME NEW b \in Backups, MarkCanceling(b)
      PROVE  Decided
  BY <1>8, StatusDecides, Zenon DEF MarkCanceling
<1>9. ASSUME NEW b \in Backups, CancelCompleted(b)
      PROVE  Decided
  BY <1>9, StatusDecides, Zenon DEF CancelCompleted
<1>10. ASSUME NEW b \in Backups, BackupFailed(b)
      PROVE  Decided
  BY <1>10, StatusDecides, FrameDecides, Zenon DEF BackupFailed
<1>11. ASSUME NEW b \in Backups, CancelFailed(b)
      PROVE  Decided
  BY <1>11, StatusDecides, FrameDecides, ZenonT(60) DEF CancelFailed
<1>12. ASSUME NEW b \in Backups, RedispatchPendingTasks(b)
      PROVE  Decided
  BY <1>12, FrameDecides, Zenon DEF RedispatchPendingTasks
<1>13. ASSUME NEW b \in Backups, RefinishCleanup(b)
      PROVE  Decided
  <2>0. cleanupOf[b] \in Cleanups \cup {NoCleanup}
    BY Zenon DEF IInv, TypeOK
  <2>1. cleanupOf[b] \in Cleanups
    BY <1>13, <2>0, Zenon DEF RefinishCleanup
  <2> QED
    BY <1>13, <2>1, MarkDeletedDecides, Zenon DEF RefinishCleanup
<1>14. ASSUME NEW b \in Backups, CreateCancel(b)
      PROVE  Decided
  BY <1>14, FrameDecides, Zenon DEF CreateCancel
<1>15. ASSUME NEW b \in Backups, AgentStartsBackup(b)
      PROVE  Decided
  BY <1>15, FrameDecides, Zenon DEF AgentStartsBackup
<1>16. ASSUME NEW b \in Backups, NEW e \in Report, AgentEndsBackup(b, e)
      PROVE  Decided
  BY <1>16, FrameDecides, Zenon DEF AgentEndsBackup
<1>17. ASSUME NEW b \in Backups, NEW found \in BOOLEAN, AgentCancels(b, found)
      PROVE  Decided
  BY <1>17, FrameDecides, Zenon DEF AgentCancels
<1>18. ASSUME NEW b \in Cancelable, CancelTask(b)
      PROVE  Decided
  BY <1>18, FrameDecides, Zenon DEF CancelTask
<1>19. ASSUME NEW D \in SUBSET Backups, DeleteRestorePoints(D)
      PROVE  Decided
  BY <1>19, FrameDecides, Zenon DEF DeleteRestorePoints
<1>20. ASSUME NEW sel \in SUBSET Selectable, ReconcileRetention(sel)
      PROVE  Decided
  BY <1>20, FrameDecides, Zenon DEF ReconcileRetention
<1>21. ASSUME NEW c \in Cleanups, NEW sel \in SUBSET Selectable, NEW h \in Handlers, CreateCleanup(h, c, sel)
      PROVE  Decided
  <2>1. CASE DeletionAllowed(claim[h], h = "manual", sel) /\ CreateDeletion(c, claim[h])
    <3>1. claim[h] \in SUBSET Backups
      BY Zenon DEF IInv, TypeOK
    <3> QED
      BY <1>21, <2>1, <3>1, CreateDeletionDecides, ZenonT(60) DEF CreateCleanup
  <2>2. CASE UNCHANGED <<cleanupVars, cexec, rstate, resv, cleanupOf>>
    BY <1>21, <2>2, FrameDecides, Zenon DEF CreateCleanup
  <2> QED
    BY <1>21, <2>1, <2>2, ZenonT(60) DEF CreateCleanup
<1>22. ASSUME NEW c \in Cleanups, NEW sel \in SUBSET Selectable, NEW b \in Backups, StartReplacement(b, c, sel)
      PROVE  Decided
  <2>1. {repl[b]} \in SUBSET Backups
    BY <1>22, Zenon DEF StartReplacement, IInv, TypeOK
  <2>2. \A a \in Backups : task[a] \in Terminal => task'[a] = task[a]
    BY <1>22, Zenon DEF StartReplacement, StatusAfter, IInv, TypeOK
  <2> QED
    BY <1>22, <2>1, <2>2, CreateDeletionDecides, Zenon DEF StartReplacement
<1>23. ASSUME NEW c \in Cleanups, CleanupDispatchFails(c)
      PROVE  Decided
  BY <1>23, FrameDecides, Zenon DEF CleanupDispatchFails
<1>24. ASSUME NEW c \in Cleanups, CleanupSucceeds(c)
      PROVE  Decided
  BY <1>24, FrameDecides, Zenon DEF CleanupSucceeds
<1>25. ASSUME NEW c \in Cleanups, CleanupCompleted(c)
      PROVE  Decided
  BY <1>25, MarkDeletedDecides, Zenon DEF CleanupCompleted
<1>26. ASSUME NEW c \in Cleanups, CleanupFailed(c)
      PROVE  Decided
  BY <1>26, FrameDecides, Zenon DEF CleanupFailed
<1>27. ASSUME NEW c \in Cleanups, CleanupAbandoned(c)
      PROVE  Decided
  BY <1>27, FrameDecides, Zenon DEF CleanupAbandoned
<1>28. ASSUME NEW c \in Cleanups, AgentStartsCleanup(c)
      PROVE  Decided
  BY <1>28, FrameDecides, Zenon DEF AgentStartsCleanup
<1>29. ASSUME NEW c \in Cleanups, NEW p \in Backups, AgentDeletes(c, p)
      PROVE  Decided
  BY <1>29, FrameDecides, Zenon DEF AgentDeletes
<1>30. ASSUME NEW c \in Cleanups, NEW e \in Report, AgentEndsCleanup(c, e)
      PROVE  Decided
  BY <1>30, FrameDecides, Zenon DEF AgentEndsCleanup
<1>31. ASSUME NEW r \in Recoveries, NEW p \in Backups, NEW d \in BOOLEAN, CreateRecovery(r, p, d)
      PROVE  Decided
  BY <1>31, FrameDecides, Zenon DEF CreateRecovery
<1>32. ASSUME NEW r \in Recoveries, NEW s \in {"succeeded", "failed"}, EndRecovery(r, s)
      PROVE  Decided
  BY <1>32, FrameDecides, Zenon DEF EndRecovery
<1>33. ASSUME NEW p \in Retainable, NEW retain \in BOOLEAN, SetRestorePointRetention(p, retain)
      PROVE  Decided
  BY <1>33, FrameDecides, Zenon DEF SetRestorePointRetention
<1>34. ASSUME NEW n \in Counts, UpdatePolicy(n)
      PROVE  Decided
  BY <1>34, FrameDecides, Zenon DEF UpdatePolicy
<1>35. ASSUME NEW n \in Switches, SaveProtectionPlan(n)
      PROVE  Decided
  BY <1>35, FrameDecides, Zenon DEF SaveProtectionPlan
<1>36. ASSUME PlatformRestarts
      PROVE  Decided
  BY <1>36, FrameDecides, Zenon DEF PlatformRestarts
<1>37. CASE UNCHANGED vars
  BY <1>37, FrameDecides, Zenon DEF vars
<1> QED
  BY <1>1, <1>2, <1>3, <1>4, <1>5, <1>6, <1>7, <1>8, <1>9, <1>10, <1>11, <1>12, <1>13, <1>14,
     <1>15, <1>16, <1>17, <1>18, <1>19, <1>20, <1>21, <1>22, <1>23, <1>24, <1>25, <1>26, <1>27, <1>28,
     <1>29, <1>30, <1>31, <1>32, <1>33, <1>34, <1>35, <1>36, <1>37
 , ZenonT(60) DEF Next

\* Nothing that is decided is taken back (UpdateTaskStatus,
\* UpdateRestorePointState): a ready reservation, the end of a task, a deletion.
THEOREM DecisionsStand ==
  Spec => NothingIsTakenBack
<1>1. IInv /\ [Next]_vars => [\A b \in Backups : resv[b] \in Irreversible => resv'[b] \in Irreversible]_vars
  BY DecidedStep, Zenon DEF Decided
<1>2. IInv /\ [Next]_vars => [\A b \in Backups :
         /\ task[b] \in Terminal => task'[b] = task[b]
         /\ point[b] = "deleted" => point'[b] = "deleted"]_vars
  BY DecidedStep, Zenon DEF Decided
<1>3. Spec => [][Next]_vars
  BY Zenon DEF Spec
<1>4. Spec => ReadyIsNeverReleased
  BY <1>1, <1>3, Invariance, PTL DEF ReadyIsNeverReleased
<1>5. Spec => EndedIsFinal
  BY <1>2, <1>3, Invariance, PTL DEF EndedIsFinal
<1> QED
  BY <1>4, <1>5, Zenon DEF NothingIsTakenBack

\* Types, one backup at a time, a lock for every replacement and nothing held by
\* an aborted task, in every state (CreateTask, reserveBackupQuota,
\* UpdateTaskStatus).
THEOREM ReservationsAreSafe ==
  Spec => []ReservationSafety
BY TypeCorrect, BackupsExclude, LocksAgree, AbortedHoldsNothing, PTL DEF ReservationSafety

-----------------------------------------------------------------------------
(***************************************************************************)
(* A point that is to be replaced is free.                                 *)
(***************************************************************************)
\* The steps that bring a point into use or out of it.
UseChanges ==
  \/ \E r \in Recoveries : \/ \E p \in Backups, d \in BOOLEAN : CreateRecovery(r, p, d)
                           \/ \E t \in {"succeeded", "failed"} : EndRecovery(r, t)
  \/ \E p \in Retainable, retain \in BOOLEAN : SetRestorePointRetention(p, retain)

\* No other step does.
LEMMA OnlyUseChanges ==
  ASSUME [Next]_vars
  PROVE  UseChanges \/ UNCHANGED <<manual, drill, rtask, rpoint>>
<1>1. ASSUME NEW b \in Backups, NEW sel \in SUBSET Selectable, CreateBackup(b, sel)
      PROVE  UseChanges \/ UNCHANGED <<manual, drill, rtask, rpoint>>
  BY <1>1, Zenon DEF CreateBackup
<1>2. ASSUME NEW b \in Backups, NEW sel \in SUBSET Selectable, BackupCompleted(b, sel)
      PROVE  UseChanges \/ UNCHANGED <<manual, drill, rtask, rpoint>>
  BY <1>2, SMTT(30) DEF BackupCompleted
<1>3. ASSUME NEW b \in Backups, NEW sel \in SUBSET Selectable, FinishReplacement(b, sel)
      PROVE  UseChanges \/ UNCHANGED <<manual, drill, rtask, rpoint>>
  BY <1>3, Zenon DEF FinishReplacement
<1>4. ASSUME NEW b \in Backups, MarkDispatched(b)
      PROVE  UseChanges \/ UNCHANGED <<manual, drill, rtask, rpoint>>
  BY <1>4, Zenon DEF MarkDispatched
<1>5. ASSUME NEW b \in Backups, DispatchFails(b)
      PROVE  UseChanges \/ UNCHANGED <<manual, drill, rtask, rpoint>>
  BY <1>5, Zenon DEF DispatchFails
<1>6. ASSUME NEW b \in Backups, BackupReported(b)
      PROVE  UseChanges \/ UNCHANGED <<manual, drill, rtask, rpoint>>
  BY <1>6, Zenon DEF BackupReported
<1>7. ASSUME NEW b \in Backups, BackupIncomplete(b)
      PROVE  UseChanges \/ UNCHANGED <<manual, drill, rtask, rpoint>>
  BY <1>7, Zenon DEF BackupIncomplete
<1>8. ASSUME NEW b \in Backups, MarkCanceling(b)
      PROVE  UseChanges \/ UNCHANGED <<manual, drill, rtask, rpoint>>
  BY <1>8, Zenon DEF MarkCanceling
<1>9. ASSUME NEW b \in Backups, CancelCompleted(b)
      PROVE  UseChanges \/ UNCHANGED <<manual, drill, rtask, rpoint>>
  BY <1>9, Zenon DEF CancelCompleted
<1>10. ASSUME NEW b \in Backups, BackupFailed(b)
      PROVE  UseChanges \/ UNCHANGED <<manual, drill, rtask, rpoint>>
  BY <1>10, Zenon DEF BackupFailed
<1>11. ASSUME NEW b \in Backups, CancelFailed(b)
      PROVE  UseChanges \/ UNCHANGED <<manual, drill, rtask, rpoint>>
  BY <1>11, Zenon DEF CancelFailed
<1>12. ASSUME NEW b \in Backups, RedispatchPendingTasks(b)
      PROVE  UseChanges \/ UNCHANGED <<manual, drill, rtask, rpoint>>
  BY <1>12, Zenon DEF RedispatchPendingTasks
<1>13. ASSUME NEW b \in Backups, RefinishCleanup(b)
      PROVE  UseChanges \/ UNCHANGED <<manual, drill, rtask, rpoint>>
  BY <1>13, Zenon DEF RefinishCleanup
<1>14. ASSUME NEW b \in Backups, CreateCancel(b)
      PROVE  UseChanges \/ UNCHANGED <<manual, drill, rtask, rpoint>>
  BY <1>14, Zenon DEF CreateCancel
<1>15. ASSUME NEW b \in Backups, AgentStartsBackup(b)
      PROVE  UseChanges \/ UNCHANGED <<manual, drill, rtask, rpoint>>
  BY <1>15, Zenon DEF AgentStartsBackup
<1>16. ASSUME NEW b \in Backups, NEW e \in Report, AgentEndsBackup(b, e)
      PROVE  UseChanges \/ UNCHANGED <<manual, drill, rtask, rpoint>>
  BY <1>16, Zenon DEF AgentEndsBackup
<1>17. ASSUME NEW b \in Backups, NEW found \in BOOLEAN, AgentCancels(b, found)
      PROVE  UseChanges \/ UNCHANGED <<manual, drill, rtask, rpoint>>
  BY <1>17, Zenon DEF AgentCancels
<1>18. ASSUME NEW b \in Cancelable, CancelTask(b)
      PROVE  UseChanges \/ UNCHANGED <<manual, drill, rtask, rpoint>>
  BY <1>18, Zenon DEF CancelTask
<1>19. ASSUME NEW D \in SUBSET Backups, DeleteRestorePoints(D)
      PROVE  UseChanges \/ UNCHANGED <<manual, drill, rtask, rpoint>>
  BY <1>19, Zenon DEF DeleteRestorePoints
<1>20. ASSUME NEW sel \in SUBSET Selectable, ReconcileRetention(sel)
      PROVE  UseChanges \/ UNCHANGED <<manual, drill, rtask, rpoint>>
  BY <1>20, Zenon DEF ReconcileRetention
<1>21. ASSUME NEW c \in Cleanups, NEW sel \in SUBSET Selectable, NEW h \in Handlers, CreateCleanup(h, c, sel)
      PROVE  UseChanges \/ UNCHANGED <<manual, drill, rtask, rpoint>>
  BY <1>21, ZenonT(60) DEF CreateCleanup
<1>22. ASSUME NEW c \in Cleanups, NEW sel \in SUBSET Selectable, NEW b \in Backups, StartReplacement(b, c, sel)
      PROVE  UseChanges \/ UNCHANGED <<manual, drill, rtask, rpoint>>
  BY <1>22, Zenon DEF StartReplacement
<1>23. ASSUME NEW c \in Cleanups, CleanupDispatchFails(c)
      PROVE  UseChanges \/ UNCHANGED <<manual, drill, rtask, rpoint>>
  BY <1>23, Zenon DEF CleanupDispatchFails
<1>24. ASSUME NEW c \in Cleanups, CleanupSucceeds(c)
      PROVE  UseChanges \/ UNCHANGED <<manual, drill, rtask, rpoint>>
  BY <1>24, Zenon DEF CleanupSucceeds
<1>25. ASSUME NEW c \in Cleanups, CleanupCompleted(c)
      PROVE  UseChanges \/ UNCHANGED <<manual, drill, rtask, rpoint>>
  BY <1>25, Zenon DEF CleanupCompleted
<1>26. ASSUME NEW c \in Cleanups, CleanupFailed(c)
      PROVE  UseChanges \/ UNCHANGED <<manual, drill, rtask, rpoint>>
  BY <1>26, Zenon DEF CleanupFailed
<1>27. ASSUME NEW c \in Cleanups, CleanupAbandoned(c)
      PROVE  UseChanges \/ UNCHANGED <<manual, drill, rtask, rpoint>>
  BY <1>27, Zenon DEF CleanupAbandoned
<1>28. ASSUME NEW c \in Cleanups, AgentStartsCleanup(c)
      PROVE  UseChanges \/ UNCHANGED <<manual, drill, rtask, rpoint>>
  BY <1>28, Zenon DEF AgentStartsCleanup
<1>29. ASSUME NEW c \in Cleanups, NEW p \in Backups, AgentDeletes(c, p)
      PROVE  UseChanges \/ UNCHANGED <<manual, drill, rtask, rpoint>>
  BY <1>29, Zenon DEF AgentDeletes
<1>30. ASSUME NEW c \in Cleanups, NEW e \in Report, AgentEndsCleanup(c, e)
      PROVE  UseChanges \/ UNCHANGED <<manual, drill, rtask, rpoint>>
  BY <1>30, Zenon DEF AgentEndsCleanup
<1>31. ASSUME NEW r \in Recoveries, NEW p \in Backups, NEW d \in BOOLEAN, CreateRecovery(r, p, d)
      PROVE  UseChanges \/ UNCHANGED <<manual, drill, rtask, rpoint>>
  BY <1>31, Zenon DEF UseChanges
<1>32. ASSUME NEW r \in Recoveries, NEW s \in {"succeeded", "failed"}, EndRecovery(r, s)
      PROVE  UseChanges \/ UNCHANGED <<manual, drill, rtask, rpoint>>
  BY <1>32, Zenon DEF UseChanges
<1>33. ASSUME NEW p \in Retainable, NEW retain \in BOOLEAN, SetRestorePointRetention(p, retain)
      PROVE  UseChanges \/ UNCHANGED <<manual, drill, rtask, rpoint>>
  BY <1>33, Zenon DEF UseChanges
<1>34. ASSUME NEW n \in Counts, UpdatePolicy(n)
      PROVE  UseChanges \/ UNCHANGED <<manual, drill, rtask, rpoint>>
  BY <1>34, Zenon DEF UpdatePolicy
<1>35. ASSUME NEW n \in Switches, SaveProtectionPlan(n)
      PROVE  UseChanges \/ UNCHANGED <<manual, drill, rtask, rpoint>>
  BY <1>35, Zenon DEF SaveProtectionPlan
<1>36. ASSUME PlatformRestarts
      PROVE  UseChanges \/ UNCHANGED <<manual, drill, rtask, rpoint>>
  BY <1>36, Zenon DEF PlatformRestarts
<1>37. CASE UNCHANGED vars
  BY <1>37, Zenon DEF vars
<1> QED
  BY <1>1, <1>2, <1>3, <1>4, <1>5, <1>6, <1>7, <1>8, <1>9, <1>10, <1>11, <1>12, <1>13, <1>14,
     <1>15, <1>16, <1>17, <1>18, <1>19, <1>20, <1>21, <1>22, <1>23, <1>24, <1>25, <1>26, <1>27, <1>28,
     <1>29, <1>30, <1>31, <1>32, <1>33, <1>34, <1>35, <1>36, <1>37, ZenonT(60)
  DEF Next

\* A point that is locked or marked for deletion does not come into use
\* (CreateTask, SetRestorePointRetention, and UpdateTaskStatus of a drill, which
\* marks only the point the drill itself holds).
LEMMA LockedStaysUnused ==
  ASSUME TypeOK, NEW p \in Backups, UseChanges, Unused(p),
         rstate[p] \in Claimed \/ \E b \in Backups : repl[b] = p /\ resv[b] \in InFlight
  PROVE  Unused(p)'
<1>1. ASSUME NEW r \in Recoveries, NEW q \in Backups, NEW d \in BOOLEAN, CreateRecovery(r, q, d)
      PROVE  Unused(p)'
  <2>1. q # p
    BY <1>1, Zenon DEF CreateRecovery, pointBusy
  <2> QED
    BY <1>1, <2>1, Zenon DEF CreateRecovery, Unused, pointProtected, TypeOK
<1>2. ASSUME NEW r \in Recoveries, NEW t \in {"succeeded", "failed"}, EndRecovery(r, t)
      PROVE  Unused(p)'
  <2>1. rpoint[r] # p
    BY <1>2, Zenon DEF EndRecovery, Unused
  <2> QED
    BY <1>2, <2>1, Zenon DEF EndRecovery, Unused, pointProtected, TypeOK
<1>3. ASSUME NEW q \in Retainable, NEW retain \in BOOLEAN, SetRestorePointRetention(q, retain)
      PROVE  Unused(p)'
  <2>1. q # p
    BY <1>3, Zenon DEF SetRestorePointRetention, pointBusy
  <2> QED
    BY <1>3, <2>1, Zenon DEF SetRestorePointRetention, Unused, pointProtected
<1> QED
  BY <1>1, <1>2, <1>3, Zenon DEF UseChanges

\* What UseChanges leaves alone.
LEMMA UseChangesFrame ==
  ASSUME UseChanges
  PROVE  UNCHANGED <<task, resvVars, pointVars, claimVars, cleanupVars, cancel, agentVars>>
BY Zenon DEF UseChanges, CreateRecovery, EndRecovery, SetRestorePointRetention

\* The points to be replaced stay free.
LEMMA FreeStep ==
  ASSUME IInv, ReplacedPointIsFree, [Next]_vars
  PROVE  ReplacedPointIsFree'
<1> SUFFICES ASSUME NEW b \in Backups, NEW p \in Backups, resv'[b] \in InFlight, repl'[b] = p,
                    point'[p] = "available"
             PROVE  Unused(p)'
  BY Zenon DEF ReplacedPointIsFree, Unused, Points
<1>1. p # None
  BY NoneIsNoBackup, Zenon
<1>2. TypeOK /\ StoreInv
  BY Zenon DEF IInv
<1>3. \/ resv[b] \in InFlight /\ p = repl[b]
      \/ p \in Points /\ Unused(p) /\ rstate[p] \notin Claimed
  BY <1>1, DecidedStep, Zenon DEF Decided
<1>4. Unused(p)
  <2>1. CASE resv[b] \in InFlight /\ p = repl[b]
    <3>1. point[p] # "absent"
      BY <1>1, <1>2, <2>1, Zenon DEF StoreInv, ReplacementLock
    <3>2. p \in Points
      <4>1. point'[p] \in {point[p], "deleted"} /\ point'[p] = "available"
        BY <3>1, DecidedStep, Zenon DEF Decided
      <4> QED
        BY <4>1, ZenonT(60) DEF Points
    <3> QED
      BY <2>1, <3>2, Zenon DEF ReplacedPointIsFree, Unused
  <2> QED
    BY <1>3, <2>1, ZenonT(60)
<1>5. CASE UseChanges
  <2>1. repl[b] = p /\ resv[b] \in InFlight
    BY <1>5, <1>3, UseChangesFrame, Zenon
  <2> QED
    BY <1>2, <1>4, <1>5, <2>1, LockedStaysUnused, ZenonT(60)
<1>6. CASE UNCHANGED <<manual, drill, rtask, rpoint>>
  BY <1>4, <1>6, Zenon DEF Unused, pointProtected
<1> QED
  BY <1>5, <1>6, OnlyUseChanges, Zenon

\* The oldest point that a backup replaces is in nobody's use, from the
\* reservation to the deletion (reserveBackupQuota, SetRestorePointRetention,
\* CreateTask, UpdateTaskStatus).
THEOREM ReplacedIsFree ==
  Spec => []ReplacedPointIsFree
<1>1. Init => ReplacedPointIsFree
  BY Zenon DEF Init, ReplacedPointIsFree, InFlight
<1>2. IInv /\ ReplacedPointIsFree /\ [Next]_vars => ReplacedPointIsFree'
  BY FreeStep, Zenon
<1> QED
  BY <1>1, <1>2, Invariance, PTL DEF Spec

-----------------------------------------------------------------------------
(***************************************************************************)
(* A point nobody tried to delete has its data.                            *)
(***************************************************************************)
\* Steps of the store that delete nothing.
LEMMA DataFrame ==
  ASSUME DataInv, UNCHANGED <<data, rstate, cpoints, cancel>>, \A a \in Backups : Stored(a)' => Stored(a)
  PROVE  DataInv'
BY Zenon DEF DataInv

\* Steps that mark points for deletion, or deleted.
LEMMA DeletionFrame ==
  ASSUME TypeOK, DataInv, UNCHANGED <<data, cpoints, cancel>>, \A a \in Backups : Stored(a)' => Stored(a),
         \A a \in Backups : rstate[a] # "" => rstate'[a] # ""
  PROVE  DataInv'
<1>1. \A c \in Cleanups : cpoints[c] \subseteq Backups
  BY Zenon DEF TypeOK
<1> QED
  BY <1>1, Zenon DEF DataInv

\* A status makes no reservation ready, and neither does a release.
LEMMA StatusReadies ==
  ASSUME TypeOK, NEW b \in Backups, NEW t, UpdateTaskStatus(b, t)
  PROVE  \A a \in Backups : resv'[a] \in Ready => resv[a] \in Ready
<1>1. resv = [a \in Backups |-> resv[a]]
  BY Zenon DEF TypeOK
<1>2. resv' = [resv EXCEPT ![b] = "released"] \/ resv' = [resv EXCEPT ![b] = resv[b]]
  BY Zenon DEF UpdateTaskStatus
<1> QED
  BY <1>1, <1>2, Zenon DEF Ready

LEMMA ReleasedReadies ==
  \A a \in Backups : Released[a] \in Ready => resv[a] \in Ready
BY Zenon DEF Released, Ready

\* A result is recorded for a backup that has its data (PublishBackupResult).
LEMMA PublishStored ==
  ASSUME TypeOK, NEW b \in Backups, NEW sel, Publish(b, sel), Stored(b),
         \A a \in Backups : exec'[a] = "completed" => exec[a] = "completed"
  PROVE  \A a \in Backups : Stored(a)' => Stored(a)
<1>1. \A a \in Backups : a # b => resv'[a] = Released[a] /\ point'[a] = point[a]
  BY Zenon DEF Publish, TypeOK, Released
<1> QED
  BY <1>1, ReleasedReadies, Zenon DEF Stored

\* The points of a new cleanup are marked (CreateTask(retention-cleanup)).
LEMMA DeletionKeepsData ==
  ASSUME IInv, DataInv, NEW c \in Cleanups, NEW S \in SUBSET Backups, NEW m, NEW sel,
         DeletionAllowed(S, m, sel), CreateDeletion(c, S),
         \A a \in Backups : task[a] \in Terminal => task'[a] = task[a],
         UNCHANGED <<point, repl, data, cancel, exec>>
  PROVE  DataInv'
<1>1. \A a \in Backups : resv'[a] \in Ready => resv[a] \in Ready
  BY CreateDeletionDecides, Zenon
<1>2. \A k \in Cleanups : cpoints'[k] = (IF k = c THEN S ELSE cpoints[k]) /\ cpoints[k] \subseteq Backups
  BY Zenon DEF CreateDeletion, IInv, TypeOK
<1>3. \A a \in Backups : rstate'[a] = IF a \in S THEN "deleting" ELSE rstate[a]
  BY Zenon DEF CreateDeletion
<1>4. \A a \in Backups : Stored(a)' => Stored(a)
  BY <1>1, Zenon DEF Stored
<1> QED
  BY <1>2, <1>3, <1>4, Zenon DEF DataInv

\* Every step keeps the data where it is expected, as long as no backup is
\* stopped by force.
LEMMA DataStep ==
  ASSUME Cancelable = {}, IInv, DataInv, [Next]_vars
  PROVE  DataInv'
<1>0. TypeOK /\ Origins /\ DataInv /\ (\A a \in Backups : cancel[a] = "none")
  BY Zenon DEF IInv, DataInv
<1>1. ASSUME NEW b \in Backups, NEW sel \in SUBSET Selectable, CreateBackup(b, sel)
      PROVE  DataInv'
  <2>1. \A a \in Backups : resv'[a] \in Ready => resv[a] \in Ready
    <3>1. resv' = Released \/ resv' = [Released EXCEPT ![b] = NewReservation]
      BY <1>1, Zenon DEF CreateBackup
    <3>2. Released = [a \in Backups |-> Released[a]] /\ NewReservation \notin Ready
      BY Zenon DEF Released, NewReservation, Ready
    <3> QED
      BY <3>1, <3>2, ReleasedReadies, ZenonT(60)
  <2>2. \A a \in Backups : exec'[a] = "completed" => exec[a] = "completed"
    <3>1. exec = [a \in Backups |-> exec[a]]
      BY <1>0, Zenon DEF TypeOK
    <3>2. exec' = exec \/ exec' = [exec EXCEPT ![b] = "queued"]
      BY <1>1, Zenon DEF CreateBackup
    <3> QED
      BY <3>1, <3>2, Zenon
  <2> QED
    BY <1>0, <1>1, <2>1, <2>2, DataFrame, Zenon DEF CreateBackup, Stored
<1>2. ASSUME NEW b \in Backups, NEW sel \in SUBSET Selectable, BackupCompleted(b, sel)
      PROVE  DataInv'
  <2>1. \A a \in Backups : exec'[a] = "completed" => exec[a] = "completed"
    BY <1>0, <1>2, ZenonT(60) DEF BackupCompleted, TypeOK, Acked
  <2>2. \A a \in Backups : Stored(a)' => Stored(a)
    <3>1. CASE Publish(b, sel)
      BY <1>0, <1>2, <2>1, <3>1, PublishStored, ZenonT(30) DEF BackupCompleted, Stored
    <3>2. CASE UNCHANGED <<resv, point>>
      BY <2>1, <3>2, Zenon DEF Stored
    <3> QED
      BY <1>2, <3>1, <3>2, Zenon DEF BackupCompleted
  <2> QED
    BY <1>0, <1>2, <2>2, DataFrame, Zenon DEF BackupCompleted
<1>3. ASSUME NEW b \in Backups, NEW sel \in SUBSET Selectable, FinishReplacement(b, sel)
      PROVE  DataInv'
  <2>1. \A a \in Backups : Stored(a)' => Stored(a)
    BY <1>0, <1>3, PublishStored, Zenon DEF FinishReplacement, Stored, Ready
  <2> QED
    BY <1>0, <1>3, <2>1, DataFrame, Zenon DEF FinishReplacement
<1>4. ASSUME NEW b \in Backups, MarkDispatched(b)
      PROVE  DataInv'
  BY <1>0, <1>4, StatusReadies, DataFrame, ZenonT(30) DEF MarkDispatched, Stored
<1>5. ASSUME NEW b \in Backups, DispatchFails(b)
      PROVE  DataInv'
  <2>1. \A a \in Backups : resv'[a] \in Ready => resv[a] \in Ready
    BY <1>0, <1>5, StatusReadies, Zenon DEF DispatchFails
  <2>2. \A a \in Backups : exec'[a] = "completed" => exec[a] = "completed"
    BY <1>0, <1>5, ZenonT(60) DEF DispatchFails, TypeOK
  <2> QED
    BY <1>0, <1>5, <2>1, <2>2, DataFrame, Zenon DEF DispatchFails, Stored
<1>6. ASSUME NEW b \in Backups, BackupReported(b)
      PROVE  DataInv'
  BY <1>0, <1>6, StatusReadies, DataFrame, ZenonT(30) DEF BackupReported, Stored
<1>7. ASSUME NEW b \in Backups, BackupIncomplete(b)
      PROVE  DataInv'
  BY <1>0, <1>7, StatusReadies, DataFrame, Zenon DEF BackupIncomplete, Stored
<1>8. ASSUME NEW b \in Backups, MarkCanceling(b)
      PROVE  DataInv'
  BY <1>0, <1>8, Zenon DEF MarkCanceling
<1>9. ASSUME NEW b \in Backups, CancelCompleted(b)
      PROVE  DataInv'
  BY <1>0, <1>9, Zenon DEF CancelCompleted
<1>10. ASSUME NEW b \in Backups, BackupFailed(b)
      PROVE  DataInv'
  <2>1. \A a \in Backups : resv'[a] \in Ready => resv[a] \in Ready
    BY <1>0, <1>10, StatusReadies, Zenon DEF BackupFailed
  <2>2. \A a \in Backups : exec'[a] = "completed" => exec[a] = "completed"
    BY <1>0, <1>10, ZenonT(60) DEF BackupFailed, TypeOK, Acked
  <2> QED
    BY <1>0, <1>10, <2>1, <2>2, DataFrame, ZenonT(60) DEF BackupFailed, Stored
<1>11. ASSUME NEW b \in Backups, CancelFailed(b)
      PROVE  DataInv'
  BY <1>0, <1>11, Zenon DEF CancelFailed
<1>12. ASSUME NEW b \in Backups, RedispatchPendingTasks(b)
      PROVE  DataInv'
  BY <1>0, <1>12, DataFrame, Zenon DEF RedispatchPendingTasks, Stored
<1>13. ASSUME NEW b \in Backups, RefinishCleanup(b)
      PROVE  DataInv'
  <2>0. cleanupOf[b] \in Cleanups
    <3>1. cleanupOf[b] \in Cleanups \cup {NoCleanup}
      BY <1>0, Zenon DEF TypeOK
    <3> QED
      BY <1>13, <3>1, Zenon DEF RefinishCleanup
  <2>1. \A a \in Backups : rstate[a] # "" => rstate'[a] # ""
    BY <1>13, ZenonT(30) DEF RefinishCleanup, MarkDeleted
  <2>2. \A a \in Backups : Stored(a)' => Stored(a)
    BY <1>0, <1>13, <2>0, ZenonT(60) DEF RefinishCleanup, MarkDeleted, Stored, Origins
  <2> QED
    BY <1>0, <1>13, <2>1, <2>2, DeletionFrame, ZenonT(30) DEF RefinishCleanup
<1>14. ASSUME NEW b \in Backups, CreateCancel(b)
      PROVE  DataInv'
  BY <1>0, <1>14, ZenonT(60) DEF CreateCancel
<1>15. ASSUME NEW b \in Backups, AgentStartsBackup(b)
      PROVE  DataInv'
  <2>1. \A a \in Backups : exec'[a] = "completed" => exec[a] = "completed"
    BY <1>0, <1>15, ZenonT(60) DEF AgentStartsBackup, TypeOK
  <2> QED
    BY <1>0, <1>15, <2>1, DataFrame, Zenon DEF AgentStartsBackup, Stored
<1>16. ASSUME NEW b \in Backups, NEW e \in Report, AgentEndsBackup(b, e)
      PROVE  DataInv'
  <2>1. \A a \in Backups : a # b => data'[a] = data[a] /\ exec'[a] = exec[a]
    BY <1>0, <1>16, ZenonT(60) DEF AgentEndsBackup, TypeOK
  <2>2. data'[b] = (IF e = "completed" THEN "stored" ELSE data[b]) /\ exec'[b] = e
    BY <1>0, <1>16, ZenonT(60) DEF AgentEndsBackup, TypeOK
  <2>3. UNCHANGED <<rstate, cpoints, cancel, resv, point>>
    BY <1>16, Zenon DEF AgentEndsBackup
  <2>4. \A a \in Backups : Stored(a)' => data'[a] # "none"
    BY <1>0, <2>1, <2>2, <2>3, Zenon DEF DataInv, Stored
  <2>5. \A a \in Backups : data'[a] = "gone" => data[a] = "gone"
    BY <2>1, <2>2, Zenon
  <2> QED
    BY <1>0, <2>3, <2>4, <2>5, Zenon DEF DataInv
<1>17. ASSUME NEW b \in Backups, NEW found \in BOOLEAN, AgentCancels(b, found)
      PROVE  DataInv'
  BY <1>0, <1>17, Zenon DEF AgentCancels
<1>18. ASSUME NEW b \in Cancelable, CancelTask(b)
      PROVE  DataInv'
  BY <1>18, Zenon
<1>19. ASSUME NEW D \in SUBSET Backups, DeleteRestorePoints(D)
      PROVE  DataInv'
  <2>1. \A a \in Backups : rstate[a] # "" => rstate'[a] # ""
    BY <1>19, Zenon DEF DeleteRestorePoints, ClaimRestorePointDeletion
  <2> QED
    BY <1>0, <1>19, <2>1, DeletionFrame, Zenon DEF DeleteRestorePoints, Stored
<1>20. ASSUME NEW sel \in SUBSET Selectable, ReconcileRetention(sel)
      PROVE  DataInv'
  <2>1. \A a \in Backups : rstate[a] # "" => rstate'[a] # ""
    BY <1>20, ZenonT(30) DEF ReconcileRetention, ClaimRestorePointDeletion
  <2> QED
    BY <1>0, <1>20, <2>1, DeletionFrame, Zenon DEF ReconcileRetention, Stored
<1>21. ASSUME NEW c \in Cleanups, NEW sel \in SUBSET Selectable, NEW h \in Handlers, CreateCleanup(h, c, sel)
      PROVE  DataInv'
  <2>1. CASE DeletionAllowed(claim[h], h = "manual", sel) /\ CreateDeletion(c, claim[h])
    <3>1. claim[h] \in SUBSET Backups
      BY <1>0, Zenon DEF TypeOK
    <3> QED
      BY <1>0, <1>21, <2>1, <3>1, DeletionKeepsData, Zenon DEF CreateCleanup
  <2>2. CASE UNCHANGED <<cleanupVars, cexec, rstate, resv, cleanupOf>>
    BY <1>0, <1>21, <2>2, DataFrame, ZenonT(30) DEF CreateCleanup, Stored
  <2> QED
    BY <1>21, <2>1, <2>2, Zenon DEF CreateCleanup
<1>22. ASSUME NEW c \in Cleanups, NEW sel \in SUBSET Selectable, NEW b \in Backups, StartReplacement(b, c, sel)
      PROVE  DataInv'
  <2>0. repl[b] \in Backups \cup {None}
    BY <1>0, ZenonT(30) DEF TypeOK
  <2>1. {repl[b]} \in SUBSET Backups
    BY <1>22, <2>0, Zenon DEF StartReplacement
  <2>2. \A a \in Backups : task[a] \in Terminal => task'[a] = task[a]
    BY <1>0, <1>22, Zenon DEF StartReplacement, StatusAfter, TypeOK
  <2> QED
    BY <1>0, <1>22, <2>1, <2>2, DeletionKeepsData, Zenon DEF StartReplacement
<1>23. ASSUME NEW c \in Cleanups, CleanupDispatchFails(c)
      PROVE  DataInv'
  <2>1. \A a \in Backups : rstate[a] # "" => rstate'[a] # ""
    BY <1>23, ZenonT(30) DEF CleanupDispatchFails, DeleteFailed
  <2> QED
    BY <1>0, <1>23, <2>1, DeletionFrame, Zenon DEF CleanupDispatchFails, Stored
<1>24. ASSUME NEW c \in Cleanups, CleanupSucceeds(c)
      PROVE  DataInv'
  BY <1>0, <1>24, DataFrame, Zenon DEF CleanupSucceeds, Stored
<1>25. ASSUME NEW c \in Cleanups, CleanupCompleted(c)
      PROVE  DataInv'
  <2>1. \A a \in Backups : rstate[a] # "" => rstate'[a] # ""
    BY <1>25, ZenonT(30) DEF CleanupCompleted, MarkDeleted
  <2>2. \A a \in Backups : Stored(a)' => Stored(a)
    BY <1>0, <1>25, Zenon DEF CleanupCompleted, MarkDeleted, Stored, Origins
  <2> QED
    BY <1>0, <1>25, <2>1, <2>2, DeletionFrame, Zenon DEF CleanupCompleted
<1>26. ASSUME NEW c \in Cleanups, CleanupFailed(c)
      PROVE  DataInv'
  <2>1. \A a \in Backups : rstate[a] # "" => rstate'[a] # ""
    BY <1>26, ZenonT(30) DEF CleanupFailed, DeleteFailed
  <2> QED
    BY <1>0, <1>26, <2>1, DeletionFrame, Zenon DEF CleanupFailed, Stored
<1>27. ASSUME NEW c \in Cleanups, CleanupAbandoned(c)
      PROVE  DataInv'
  BY <1>0, <1>27, DataFrame, ZenonT(60) DEF CleanupAbandoned, Stored
<1>28. ASSUME NEW c \in Cleanups, AgentStartsCleanup(c)
      PROVE  DataInv'
  BY <1>0, <1>28, DataFrame, Zenon DEF AgentStartsCleanup, Stored
<1>29. ASSUME NEW c \in Cleanups, NEW p \in Backups, AgentDeletes(c, p)
      PROVE  DataInv'
  <2>1. \A a \in Backups : data'[a] = IF a = p THEN "gone" ELSE data[a]
    BY <1>0, <1>29, ZenonT(60) DEF AgentDeletes, TypeOK
  <2>2. data[p] = "stored" /\ rstate[p] # "" /\ UNCHANGED <<rstate, cpoints, cancel>>
    BY <1>0, <1>29, Zenon DEF AgentDeletes, DataInv
  <2>3. \A a \in Backups : Stored(a)' = Stored(a)
    BY <1>29, ZenonT(30) DEF AgentDeletes, Stored
  <2> QED
    BY <1>0, <2>1, <2>2, <2>3, Zenon DEF DataInv
<1>30. ASSUME NEW c \in Cleanups, NEW e \in Report, AgentEndsCleanup(c, e)
      PROVE  DataInv'
  BY <1>0, <1>30, DataFrame, Zenon DEF AgentEndsCleanup, Stored
<1>31. ASSUME NEW r \in Recoveries, NEW p \in Backups, NEW d \in BOOLEAN, CreateRecovery(r, p, d)
      PROVE  DataInv'
  BY <1>0, <1>31, DataFrame, ZenonT(30) DEF CreateRecovery, Stored
<1>32. ASSUME NEW r \in Recoveries, NEW s \in {"succeeded", "failed"}, EndRecovery(r, s)
      PROVE  DataInv'
  BY <1>0, <1>32, DataFrame, Zenon DEF EndRecovery, Stored
<1>33. ASSUME NEW p \in Retainable, NEW retain \in BOOLEAN, SetRestorePointRetention(p, retain)
      PROVE  DataInv'
  BY <1>0, <1>33, DataFrame, Zenon DEF SetRestorePointRetention, Stored
<1>34. ASSUME NEW n \in Counts, UpdatePolicy(n)
      PROVE  DataInv'
  BY <1>0, <1>34, DataFrame, ZenonT(30) DEF UpdatePolicy, Stored
<1>35. ASSUME NEW n \in Switches, SaveProtectionPlan(n)
      PROVE  DataInv'
  BY <1>0, <1>35, DataFrame, ZenonT(60) DEF SaveProtectionPlan, Stored
<1>36. ASSUME PlatformRestarts
      PROVE  DataInv'
  <2>1. cancel' = cancel
    BY <1>0, <1>36, Zenon DEF PlatformRestarts, TypeOK
  <2> QED
    BY <1>0, <1>36, <2>1, DataFrame, ZenonT(60) DEF PlatformRestarts, Stored
<1>37. CASE UNCHANGED vars
  BY <1>0, <1>37, DataFrame, Zenon DEF vars, Stored
<1> QED
  BY <1>1, <1>2, <1>3, <1>4, <1>5, <1>6, <1>7, <1>8, <1>9, <1>10, <1>11, <1>12, <1>13, <1>14,
     <1>15, <1>16, <1>17, <1>18, <1>19, <1>20, <1>21, <1>22, <1>23, <1>24, <1>25, <1>26, <1>27, <1>28,
     <1>29, <1>30, <1>31, <1>32, <1>33, <1>34, <1>35, <1>36, <1>37, ZenonT(60)
  DEF Next

\* A point exists exactly when its task succeeded, and it has its data until
\* somebody tries to delete it, when no backup is stopped by force
\* (createRestorePoint, and the agent's deletions).
THEOREM PointsAreSafe ==
  ASSUME Cancelable = {}
  PROVE  Spec => []PointSafety
<1>1. Init => DataInv
  BY Zenon DEF Init, DataInv, Stored, Ready
<1>2. IInv /\ DataInv /\ [Next]_vars => DataInv'
  BY DataStep, Zenon
<1>3. TypeOK /\ DataInv => UntouchedPointHasData
  BY Zenon DEF TypeOK, DataInv, Stored, UntouchedPointHasData, Points
<1>4. IInv => TypeOK
  BY Zenon DEF IInv
<1>5. Spec => []UntouchedPointHasData
  BY <1>1, <1>2, <1>3, <1>4, Invariance, PTL DEF Spec
<1> QED
  BY <1>5, PublicationIsSuccess, PTL DEF PointSafety

-----------------------------------------------------------------------------
(* A point that is in use is not deleted: what is proved above of every    *)
(* step, and an invariant of the deletions.                                *)

\* A replacement whose data is ready waits for the point to go.
Replaced(p) == \E b \in Backups : repl[b] = p /\ resv[b] \in Ready

\* The agent may still delete the points of the cleanup, or has reported it and
\* the platform has not handled the report.
Pending(c) == \/ cexec[c] \in {"running"} \cup Report
              \/ cexec[c] = "queued" /\ ctask[c] = "active"

(***************************************************************************)
(* Why a point that is being deleted cannot come into use.  The cleanup of *)
(* a replacement may be started again while an earlier one is still        *)
(* pending, but then the reservation locks the point; every other point    *)
(* has one pending cleanup at most and is marked deleting until it ends.   *)
(***************************************************************************)
PendingInv ==
  \A c \in Cleanups : Pending(c) => \A p \in cpoints[c] :
    \/ p \notin Points \/ Replaced(p)
    \/ /\ rstate[p] = "deleting" /\ Unused(p)
       /\ \A k \in Cleanups : Pending(k) /\ p \in cpoints[k] => k = c

\* A claimed point waits for its cleanup, and for nothing else.
ClaimInv ==
  \A h \in Handlers : \A p \in claim[h] :
    /\ p \in Points /\ rstate[p] = "pending_delete"
    /\ \A c \in Cleanups : Pending(c) => p \notin cpoints[c]
    /\ \A b \in Backups : repl[b] = p => resv[b] \notin InFlight
    /\ \A g \in Handlers : p \in claim[g] => g = h

\* A cleanup task and its execution agree.
OutcomeInv ==
  \A c \in Cleanups :
    /\ ctask[c] = "none" => cexec[c] = "none"
    /\ ctask[c] = "succeeded" => cexec[c] = "completed" \/ \A p \in cpoints[c] : point[p] = "deleted"

CleanupInv == PendingInv /\ ClaimInv /\ OutcomeInv

\* What a step deletes is to be replaced or in nobody's use.
DeletesFree ==
  \A p \in Points : point'[p] = "deleted" => Replaced(p) \/ Unused(p)

-----------------------------------------------------------------------------
\* A point that is being deleted does not come into use.
LEMMA DeletingStaysUnused ==
  ASSUME TypeOK, [Next]_vars, NEW p \in Backups, rstate[p] = "deleting", Unused(p)
  PROVE  Unused(p)'
<1>1. CASE UseChanges
  BY <1>1, LockedStaysUnused, Zenon DEF Claimed
<1>2. CASE UNCHANGED <<manual, drill, rtask, rpoint>>
  BY <1>2, Zenon DEF Unused, pointProtected
<1> QED
  BY <1>1, <1>2, OnlyUseChanges, Zenon

\* A point a replacement waits for is waited for until it is deleted.
LEMMA ReplacedStays ==
  ASSUME Decided, NEW p \in Points, Replaced(p)
  PROVE  Replaced(p)'
BY Zenon DEF Decided, Replaced

\* Steps that start no cleanup, claim nothing and delete nothing.
LEMMA CleanupFrame ==
  ASSUME IInv, CleanupInv, [Next]_vars, OutcomeInv', UNCHANGED <<cpoints, rstate>>,
         \A c \in Cleanups : Pending(c)' => Pending(c),
         \A h \in Handlers : claim'[h] \subseteq claim[h],
         \A p \in Points : point'[p] = "available"
  PROVE  CleanupInv' /\ DeletesFree
<1>1. TypeOK /\ Origins /\ PendingInv /\ ClaimInv /\ Decided
  BY DecidedStep, Zenon DEF IInv, CleanupInv
<1>2. PendingInv'
  <2> SUFFICES ASSUME NEW c \in Cleanups, Pending(c)', NEW p \in cpoints[c], p \in Points', ~Replaced(p)'
               PROVE  /\ rstate[p] = "deleting" /\ Unused(p)'
                      /\ \A k \in Cleanups : Pending(k)' /\ p \in cpoints[k] => k = c
    BY SMTT(30) DEF PendingInv
  <2>1. p \in Points
    BY <1>1, SMTT(30) DEF Origins, Decided, Points
  <2>2. ~Replaced(p)
    BY <1>1, <2>1, ReplacedStays, Zenon
  <2>3. /\ rstate[p] = "deleting" /\ Unused(p)
        /\ \A k \in Cleanups : Pending(k) /\ p \in cpoints[k] => k = c
    BY <1>1, <2>1, <2>2, Zenon DEF PendingInv
  <2>4. Unused(p)'
    BY <1>1, <2>1, <2>3, DeletingStaysUnused, ZenonT(60) DEF Points
  <2> QED
    BY <2>3, <2>4, Zenon
<1>3. ClaimInv'
  <2> SUFFICES ASSUME NEW h \in Handlers, NEW p \in claim'[h]
               PROVE  /\ p \in Points' /\ rstate[p] = "pending_delete"
                      /\ \A c \in Cleanups : Pending(c)' => p \notin cpoints[c]
                      /\ \A b \in Backups : repl'[b] = p => resv'[b] \notin InFlight
                      /\ \A g \in Handlers : p \in claim'[g] => g = h
    BY DEF ClaimInv
  <2>1. /\ p \in claim[h] /\ p \in Points /\ rstate[p] = "pending_delete"
        /\ \A c \in Cleanups : Pending(c) => p \notin cpoints[c]
        /\ \A b \in Backups : repl[b] = p => resv[b] \notin InFlight
        /\ \A g \in Handlers : p \in claim[g] => g = h
    BY <1>1, SMTT(30) DEF ClaimInv
  <2>2. p \in Points'
    BY <2>1, Zenon DEF Points
  <2>3. \A b \in Backups : repl'[b] = p => resv'[b] \notin InFlight
    BY <1>1, <2>1, NoneIsNoBackup DEF Decided, Points, Claimed
  <2> QED
    BY <2>1, <2>2, <2>3, Zenon
<1>4. DeletesFree
  BY Zenon DEF DeletesFree
<1> QED
  BY <1>2, <1>3, <1>4, Zenon DEF CleanupInv

\* Steps that leave the cleanups and the claims alone.
LEMMA CleanupStill ==
  ASSUME IInv, CleanupInv, [Next]_vars, UNCHANGED <<cpoints, rstate, ctask, cexec, claim>>,
         \A p \in Points : point'[p] = "available"
  PROVE  CleanupInv' /\ DeletesFree
<1>1. OutcomeInv'
  <2>1. \A c \in Cleanups : cpoints[c] \subseteq Backups
    BY Zenon DEF IInv, TypeOK
  <2>2. \A p \in Backups : point[p] = "deleted" => point'[p] = "deleted"
    BY DecidedStep, Zenon DEF Decided
  <2> QED
    BY <2>1, <2>2, Zenon DEF CleanupInv, OutcomeInv
<1>2. \A c \in Cleanups : Pending(c)' => Pending(c)
  BY Zenon DEF Pending
<1> QED
  BY <1>1, <1>2, CleanupFrame, Zenon

\* A claim takes points nothing else is deleting or replacing
\* (ClaimRestorePointDeletion).
LEMMA ClaimKeeps ==
  ASSUME IInv, CleanupInv, [Next]_vars, NEW h \in Handlers, claim[h] = {}, NEW S \in SUBSET Backups,
         ClaimRestorePointDeletion(h, S),
         UNCHANGED <<point, repl, resv, ctask, cexec, cpoints, manual, drill, rtask, rpoint>>
  PROVE  CleanupInv' /\ DeletesFree
<1>1. TypeOK /\ PendingInv /\ ClaimInv
  BY Zenon DEF IInv, CleanupInv
<1>2. \A p \in S : /\ p \in Points /\ rstate[p] \notin Claimed
                   /\ \A b \in Backups : repl[b] = p => resv[b] \notin InFlight
  BY Zenon DEF ClaimRestorePointDeletion, Claimable, pointBusy
<1>3. \A c \in Cleanups : Pending(c) => \A p \in S : p \notin cpoints[c]
  <2> SUFFICES ASSUME NEW c \in Cleanups, Pending(c), NEW p \in S, p \in cpoints[c] PROVE FALSE
    OBVIOUS
  <2>1. ~Replaced(p)
    BY <1>2, Zenon DEF Replaced, Ready, InFlight
  <2> QED
    BY <1>1, <1>2, <2>1, Zenon DEF PendingInv, Claimed
<1>4. \A g \in Handlers : \A p \in S : p \notin claim[g]
  BY <1>1, <1>2, Zenon DEF ClaimInv, Claimed
<1>5. \A p \in Backups : rstate'[p] = IF p \in S THEN "pending_delete" ELSE rstate[p]
  BY Zenon DEF ClaimRestorePointDeletion
<1>6. /\ claim'[h] = S
      /\ \A g \in Handlers : g # h => claim'[g] = claim[g]
  BY <1>1, Zenon DEF ClaimRestorePointDeletion, TypeOK
<1>7. PendingInv'
  <2>1. \A c \in Cleanups : Pending(c)' = Pending(c)
    BY Zenon DEF Pending
  <2>2. \A p \in Backups : Replaced(p)' = Replaced(p) /\ Unused(p)' = Unused(p)
    BY Zenon DEF Replaced, Unused, pointProtected
  <2>3. \A c \in Cleanups : cpoints[c] \subseteq Backups
    BY <1>1, Zenon DEF TypeOK
  <2>4. Points' = Points
    BY Zenon DEF Points
  <2> QED
    BY <1>1, <1>3, <1>5, <2>1, <2>2, <2>3, <2>4, ZenonT(60) DEF PendingInv
<1>8. ClaimInv'
  <2>1. \A c \in Cleanups : Pending(c)' = Pending(c)
    BY Zenon DEF Pending
  <2>2. Points' = Points
    BY Zenon DEF Points
  <2>3. ASSUME NEW p \in claim'[h]
        PROVE  /\ p \in Points /\ rstate'[p] = "pending_delete"
               /\ \A c \in Cleanups : Pending(c) => p \notin cpoints[c]
               /\ \A b \in Backups : repl[b] = p => resv[b] \notin InFlight
               /\ \A g \in Handlers : p \in claim'[g] => g = h
    BY <1>2, <1>3, <1>4, <1>5, <1>6, <2>3, ZenonT(60)
  <2>4. ASSUME NEW g \in Handlers \ {h}, NEW p \in claim'[g]
        PROVE  /\ p \in Points /\ rstate'[p] = "pending_delete"
               /\ \A c \in Cleanups : Pending(c) => p \notin cpoints[c]
               /\ \A b \in Backups : repl[b] = p => resv[b] \notin InFlight
               /\ \A k \in Handlers : p \in claim'[k] => k = g
    <3>1. p \in claim[g] /\ p \notin S
      BY <1>4, <1>6, <2>4, ZenonT(60)
    <3>2. /\ p \in Points /\ rstate[p] = "pending_delete"
          /\ \A c \in Cleanups : Pending(c) => p \notin cpoints[c]
          /\ \A b \in Backups : repl[b] = p => resv[b] \notin InFlight
          /\ \A k \in Handlers : p \in claim[k] => k = g
      BY <1>1, <3>1, ZenonT(60) DEF ClaimInv
    <3>3. p \in Backups
      BY <3>2, ZenonT(60) DEF Points
    <3> QED
      BY <1>5, <1>6, <3>1, <3>2, <3>3, ZenonT(60)
  <2> QED
    BY <2>1, <2>2, <2>3, <2>4, ZenonT(60) DEF ClaimInv
<1>9. OutcomeInv'
  BY Zenon DEF CleanupInv, OutcomeInv
<1>10. DeletesFree
  BY Zenon DEF DeletesFree, Points
<1> QED
  BY <1>7, <1>8, <1>9, <1>10, Zenon DEF CleanupInv

\* A new cleanup is the only one of its points, or their reservation locks them
\* (prepareRestorePointDeletion).
LEMMA NewCleanupKeeps ==
  ASSUME IInv, CleanupInv, NEW c \in Cleanups, NEW S \in SUBSET Points, NEW m, NEW sel,
         DeletionAllowed(S, m, sel), CreateDeletion(c, S),
         \A p \in S : Replaced(p) \/ \A k \in Cleanups : Pending(k) => p \notin cpoints[k],
         \A g \in Handlers : claim'[g] \subseteq claim[g] \ S,
         \A a \in Backups : task[a] \in Terminal => task'[a] = task[a],
         UNCHANGED <<point, repl, manual, drill, rtask, rpoint>>
  PROVE  CleanupInv' /\ DeletesFree
<1>1. TypeOK /\ PendingInv /\ ClaimInv /\ OutcomeInv /\ S \in SUBSET Backups
  BY Zenon DEF IInv, CleanupInv, Points
<1>2. Decided /\ \A a \in Backups : resv'[a] \in Ready => resv[a] \in Ready
  BY <1>1, CreateDeletionDecides, Zenon
<1>3. /\ ctask[c] = "none" /\ ctask'[c] = "active" /\ cexec'[c] = "queued" /\ cpoints'[c] = S
      /\ \A k \in Cleanups : k # c => ctask'[k] = ctask[k] /\ cexec'[k] = cexec[k] /\ cpoints'[k] = cpoints[k]
      /\ \A p \in Backups : rstate'[p] = IF p \in S THEN "deleting" ELSE rstate[p]
  BY <1>1, Zenon DEF CreateDeletion, TypeOK
<1>4. ~Pending(c) /\ \A k \in Cleanups : k # c => Pending(k)' = Pending(k)
  BY <1>1, <1>3, Zenon DEF Pending, OutcomeInv, Report
<1>5. Points' = Points /\ \A p \in Backups : Unused(p)' = Unused(p)
  BY Zenon DEF Points, Unused, pointProtected
<1>6. \A p \in Points : Replaced(p) => Replaced(p)'
  BY <1>2, ReplacedStays, Zenon
<1>7. \A p \in S : Replaced(p) \/ Unused(p)
  <2> SUFFICES ASSUME NEW p \in S PROVE Replaced(p) \/ Unused(p)
    OBVIOUS
  <2>1. /\ ~pointProtected(p)
        /\ IF owner[p] = None THEN ~pointBusy(p, resv)
           ELSE repl[owner[p]] = p /\ resv[owner[p]] \in {"data_ready", "deleting"}
    BY Zenon DEF DeletionAllowed, Points
  <2>2. owner[p] \in Backups \cup {None}
    BY <1>1, Zenon DEF TypeOK
  <2>3. CASE owner[p] = None
    BY <2>1, <2>3, Zenon DEF Unused, pointBusy
  <2>4. CASE owner[p] # None
    BY <2>1, <2>2, <2>4, ZenonT(60) DEF Replaced, Ready
  <2> QED
    BY <2>3, <2>4, Zenon
<1>8. PendingInv'
  <2> SUFFICES ASSUME NEW k \in Cleanups, Pending(k)', NEW p \in cpoints'[k], p \in Points, ~Replaced(p)'
               PROVE  /\ rstate'[p] = "deleting" /\ Unused(p)'
                      /\ \A l \in Cleanups : Pending(l)' /\ p \in cpoints'[l] => l = k
    BY <1>5, Zenon DEF PendingInv
  <2>1. ~Replaced(p) /\ p \in Backups
    BY <1>6, Zenon DEF Points
  <2>2. CASE k = c
    <3>1. p \in S /\ \A l \in Cleanups : Pending(l) => p \notin cpoints[l]
      BY <1>3, <2>1, <2>2, ZenonT(60)
    <3>2. \A l \in Cleanups : Pending(l)' /\ p \in cpoints'[l] => l = k
      BY <1>3, <1>4, <2>2, <3>1, Zenon
    <3> QED
      BY <1>3, <1>5, <1>7, <2>1, <3>1, <3>2, Zenon
  <2>3. CASE k # c
    <3>1. Pending(k) /\ p \in cpoints[k]
      BY <1>3, <1>4, <2>3, ZenonT(60)
    <3>2. /\ rstate[p] = "deleting" /\ Unused(p)
          /\ \A l \in Cleanups : Pending(l) /\ p \in cpoints[l] => l = k
      BY <1>1, <2>1, <3>1, ZenonT(60) DEF PendingInv
    <3>3. p \notin S
      BY <2>1, <3>1, Zenon
    <3>4. \A l \in Cleanups : Pending(l)' /\ p \in cpoints'[l] => l = k
      BY <1>3, <1>4, <3>2, <3>3, Zenon
    <3> QED
      BY <1>3, <1>5, <2>1, <3>2, <3>3, <3>4, Zenon
  <2> QED
    BY <2>2, <2>3, Zenon
<1>9. ClaimInv'
  <2> SUFFICES ASSUME NEW h \in Handlers, NEW p \in claim'[h]
               PROVE  /\ p \in Points /\ rstate'[p] = "pending_delete"
                      /\ \A k \in Cleanups : Pending(k)' => p \notin cpoints'[k]
                      /\ \A b \in Backups : repl[b] = p => resv'[b] \notin InFlight
                      /\ \A g \in Handlers : p \in claim'[g] => g = h
    BY <1>5, ZenonT(60) DEF ClaimInv
  <2>1. /\ p \in claim[h] /\ p \notin S /\ p \in Points /\ rstate[p] = "pending_delete"
        /\ \A k \in Cleanups : Pending(k) => p \notin cpoints[k]
        /\ \A b \in Backups : repl[b] = p => resv[b] \notin InFlight
        /\ \A g \in Handlers : p \in claim[g] => g = h
    BY <1>1, Zenon DEF ClaimInv
  <2>2. p \in Backups /\ rstate'[p] = "pending_delete"
    BY <1>3, <2>1, Zenon DEF Points
  <2>3. \A k \in Cleanups : Pending(k)' => p \notin cpoints'[k]
    BY <1>3, <1>4, <2>1, Zenon
  <2>4. \A b \in Backups : repl[b] = p => resv'[b] \notin InFlight
    BY <1>2, <2>1, <2>2, NoneIsNoBackup, ZenonT(200) DEF Decided, Claimed
  <2> QED
    BY <2>1, <2>2, <2>3, <2>4, ZenonT(60)
<1>10. OutcomeInv'
  BY <1>1, <1>3 DEF OutcomeInv
<1>11. DeletesFree
  BY Zenon DEF DeletesFree, Points
<1> QED
  BY <1>8, <1>9, <1>10, <1>11, ZenonT(60) DEF CleanupInv

\* A failed cleanup gives up points that no other cleanup deletes, unless their
\* reservation locks them (markRetentionCleanupFailed).
LEMMA FailedCleanupKeeps ==
  ASSUME IInv, CleanupInv, NEW c \in Cleanups, Pending(c), ~Pending(c)', DeleteFailed(c), OutcomeInv',
         \A k \in Cleanups : k # c => Pending(k)' = Pending(k),
         UNCHANGED <<cpoints, claim, point, repl, resv, manual, drill, rtask, rpoint>>
  PROVE  CleanupInv' /\ DeletesFree
<1>1. TypeOK /\ PendingInv /\ ClaimInv
  BY Zenon DEF IInv, CleanupInv
<1>2. \A p \in Backups : p \notin cpoints[c] => rstate'[p] = rstate[p]
  BY Zenon DEF DeleteFailed
<1>3. Points' = Points /\ \A p \in Backups : Unused(p)' = Unused(p) /\ Replaced(p)' = Replaced(p)
  BY Zenon DEF Points, Unused, pointProtected, Replaced
<1>4. \A k \in Cleanups : cpoints[k] \subseteq Backups
  BY <1>1, Zenon DEF TypeOK
<1>5. PendingInv'
  <2> SUFFICES ASSUME NEW k \in Cleanups, Pending(k)', NEW p \in cpoints[k], p \in Points, ~Replaced(p)
               PROVE  /\ rstate'[p] = "deleting" /\ Unused(p)
                      /\ \A l \in Cleanups : Pending(l)' /\ p \in cpoints[l] => l = k
    BY <1>3, <1>4, Zenon DEF PendingInv
  <2>1. k # c /\ Pending(k)
    OBVIOUS
  <2>2. /\ rstate[p] = "deleting" /\ Unused(p)
        /\ \A l \in Cleanups : Pending(l) /\ p \in cpoints[l] => l = k
    BY <1>1, <2>1, Zenon DEF PendingInv
  <2>3. p \notin cpoints[c]
    BY <2>1, <2>2, Zenon
  <2> QED
    BY <1>2, <1>4, <2>2, <2>3, ZenonT(60)
<1>6. ClaimInv'
  <2>1. \A h \in Handlers : \A p \in claim[h] : p \in Backups /\ rstate'[p] = rstate[p]
    BY <1>1, <1>2, Zenon DEF ClaimInv, Points
  <2>2. \A k \in Cleanups : Pending(k)' => Pending(k)
    OBVIOUS
  <2> QED
    BY <1>1, <1>3, <2>1, <2>2, ZenonT(30) DEF ClaimInv
<1>7. DeletesFree
  BY ZenonT(60) DEF DeletesFree, Points
<1> QED
  BY <1>5, <1>6, <1>7, Zenon DEF CleanupInv

\* Marking the points of a cleanup deleted touches no claimed point and no point
\* of another cleanup that is not deleted with it (finishRetentionCleanupTask).
LEMMA DoneCleanupKeeps ==
  ASSUME IInv, CleanupInv, [Next]_vars, NEW c \in Cleanups,
         Pending(c) \/ \A p \in cpoints[c] : point[p] = "deleted", MarkDeleted(c), OutcomeInv',
         \A k \in Cleanups : Pending(k)' => Pending(k),
         UNCHANGED <<cpoints, claim, repl, resv, manual, drill, rtask, rpoint>>
  PROVE  CleanupInv' /\ DeletesFree
<1>1. TypeOK /\ PendingInv /\ ClaimInv
  BY ZenonT(60) DEF IInv, CleanupInv
<1>2. \A p \in Backups : IF p \in cpoints[c] THEN point'[p] = "deleted"
                         ELSE rstate'[p] = rstate[p] /\ point'[p] = point[p]
  BY Zenon DEF MarkDeleted
<1>3. \A p \in Backups : Unused(p)' = Unused(p) /\ Replaced(p)' = Replaced(p)
  BY Zenon DEF Unused, pointProtected, Replaced
<1>4. \A k \in Cleanups : cpoints[k] \subseteq Backups
  BY <1>1, Zenon DEF TypeOK
<1>5. PendingInv'
  <2> SUFFICES ASSUME NEW k \in Cleanups, Pending(k)', NEW p \in cpoints[k], p \in Points', ~Replaced(p)
               PROVE  /\ rstate'[p] = "deleting" /\ Unused(p)
                      /\ \A l \in Cleanups : Pending(l)' /\ p \in cpoints[l] => l = k
    BY <1>3, <1>4, Zenon DEF PendingInv
  <2>1. p \notin cpoints[c] /\ p \in Points
    BY <1>2, <1>4, Zenon DEF Points
  <2>2. /\ rstate[p] = "deleting" /\ Unused(p)
        /\ \A l \in Cleanups : Pending(l) /\ p \in cpoints[l] => l = k
    BY <1>1, <2>1, Zenon DEF PendingInv
  <2> QED
    BY <1>2, <1>4, <2>1, <2>2, Zenon
<1>6. ClaimInv'
  <2>1. \A h \in Handlers : \A p \in claim[h] : p \in Points /\ p \notin cpoints[c]
    BY <1>1, Zenon DEF ClaimInv, Points
  <2>2. \A h \in Handlers : \A p \in claim[h] : p \in Points' /\ rstate'[p] = rstate[p]
    BY <1>2, <2>1, ZenonT(60) DEF Points
  <2>3. \A k \in Cleanups : Pending(k)' => Pending(k)
    OBVIOUS
  <2> QED
    BY <1>1, <2>2, <2>3, ZenonT(200) DEF ClaimInv
<1>7. DeletesFree
  BY <1>1, <1>2, ZenonT(60) DEF DeletesFree, Points, PendingInv
<1> QED
  BY <1>5, <1>6, <1>7, ZenonT(60) DEF CleanupInv

\* The points of a cleanup are deleted before its report is forgotten.
LEMMA MarkingKeepsOutcome ==
  ASSUME TypeOK, OutcomeInv, NEW c \in Cleanups, MarkDeleted(c), UNCHANGED <<ctask, cpoints>>,
         \A k \in Cleanups : cexec'[k] = cexec[k] \/ (k = c /\ ctask[c] # "none")
  PROVE  OutcomeInv'
<1>1. \A k \in Cleanups : cpoints[k] \subseteq Backups
  BY Zenon DEF TypeOK
<1>2. \A p \in Backups : point[p] = "deleted" \/ p \in cpoints[c] => point'[p] = "deleted"
  BY ZenonT(60) DEF MarkDeleted
<1> QED
  BY <1>1, <1>2, ZenonT(60) DEF OutcomeInv

\* Every step keeps the invariant of the deletions and deletes only what is free,
\* as long as a report that was
\* handled is not handled again: a second report of a failed cleanup would give
\* up points that are being deleted once more.
LEMMA CleanupStep ==
  ASSUME Redeliver = FALSE, IInv, CleanupInv, [Next]_vars
  PROVE  CleanupInv' /\ DeletesFree
<1>0. TypeOK /\ Origins /\ StoreInv /\ PendingInv /\ ClaimInv /\ OutcomeInv
  BY Zenon DEF IInv, CleanupInv
<1>a. ctask = [c \in Cleanups |-> ctask[c]] /\ cexec = [c \in Cleanups |-> cexec[c]]
  BY <1>0, Zenon DEF TypeOK
<1>1. ASSUME NEW b \in Backups, NEW sel \in SUBSET Selectable, CreateBackup(b, sel)
      PROVE  CleanupInv' /\ DeletesFree
  BY <1>1, CleanupStill, Zenon DEF CreateBackup, Points
<1>2. ASSUME NEW b \in Backups, NEW sel \in SUBSET Selectable, BackupCompleted(b, sel)
      PROVE  CleanupInv' /\ DeletesFree
  <2>1. point \in [Backups -> {"absent", "available", "deleted"}]
    BY <1>0, Zenon DEF TypeOK
  <2>2. point' = point \/ Publish(b, sel)
    BY <1>2, ZenonT(60) DEF BackupCompleted
  <2>3. \A p \in Points : point'[p] = "available"
    BY <2>1, <2>2, SMTT(30) DEF Publish, Points
  <2> QED
    BY <1>2, <2>3, CleanupStill, Zenon DEF BackupCompleted
<1>3. ASSUME NEW b \in Backups, NEW sel \in SUBSET Selectable, FinishReplacement(b, sel)
      PROVE  CleanupInv' /\ DeletesFree
  <2>1. point \in [Backups -> {"absent", "available", "deleted"}]
    BY <1>0, Zenon DEF TypeOK
  <2>2. point' = point \/ Publish(b, sel)
    BY <1>3, ZenonT(60) DEF FinishReplacement
  <2>3. \A p \in Points : point'[p] = "available"
    BY <2>1, <2>2, SMTT(30) DEF Publish, Points
  <2> QED
    BY <1>3, <2>3, CleanupStill, Zenon DEF FinishReplacement
<1>4. ASSUME NEW b \in Backups, MarkDispatched(b)
      PROVE  CleanupInv' /\ DeletesFree
  BY <1>4, CleanupStill, ZenonT(60) DEF MarkDispatched, Points
<1>5. ASSUME NEW b \in Backups, DispatchFails(b)
      PROVE  CleanupInv' /\ DeletesFree
  BY <1>5, CleanupStill, ZenonT(60) DEF DispatchFails, Points
<1>6. ASSUME NEW b \in Backups, BackupReported(b)
      PROVE  CleanupInv' /\ DeletesFree
  BY <1>6, CleanupStill, ZenonT(60) DEF BackupReported, Points
<1>7. ASSUME NEW b \in Backups, BackupIncomplete(b)
      PROVE  CleanupInv' /\ DeletesFree
  BY <1>7, CleanupStill, ZenonT(60) DEF BackupIncomplete, Points
<1>8. ASSUME NEW b \in Backups, MarkCanceling(b)
      PROVE  CleanupInv' /\ DeletesFree
  BY <1>8, CleanupStill, ZenonT(60) DEF MarkCanceling, Points
<1>9. ASSUME NEW b \in Backups, CancelCompleted(b)
      PROVE  CleanupInv' /\ DeletesFree
  BY <1>9, CleanupStill, ZenonT(60) DEF CancelCompleted, Points
<1>10. ASSUME NEW b \in Backups, BackupFailed(b)
      PROVE  CleanupInv' /\ DeletesFree
  BY <1>10, CleanupStill, ZenonT(60) DEF BackupFailed, Points
<1>11. ASSUME NEW b \in Backups, CancelFailed(b)
      PROVE  CleanupInv' /\ DeletesFree
  BY <1>11, CleanupStill, ZenonT(60) DEF CancelFailed, Points
<1>12. ASSUME NEW b \in Backups, RedispatchPendingTasks(b)
      PROVE  CleanupInv' /\ DeletesFree
  BY <1>12, CleanupStill, ZenonT(60) DEF RedispatchPendingTasks, Points
<1>13. ASSUME NEW b \in Backups, RefinishCleanup(b)
      PROVE  CleanupInv' /\ DeletesFree
  <2>1. PICK c \in Cleanups : c = cleanupOf[b]
    BY <1>0, <1>13, Zenon DEF RefinishCleanup, TypeOK
  <2>2. Pending(c) \/ \A p \in cpoints[c] : point[p] = "deleted"
    BY <1>0, <1>13, <2>1, ZenonT(60) DEF RefinishCleanup, OutcomeInv, Pending, Report
  <2>3. MarkDeleted(c)
    BY <1>13, <2>1, ZenonT(60) DEF RefinishCleanup
  <2>4. OutcomeInv'
    <3>1. UNCHANGED <<ctask, cpoints, cexec>>
      BY <1>13, Zenon DEF RefinishCleanup
    <3>2. \A k \in Cleanups : cexec'[k] = cexec[k] \/ (k = c /\ ctask[c] # "none")
      BY <3>1, ZenonT(60)
    <3> QED
      BY <1>0, <2>3, <3>1, <3>2, MarkingKeepsOutcome, ZenonT(60)
  <2>5. \A k \in Cleanups : Pending(k)' => Pending(k)
    BY <1>13, ZenonT(60) DEF RefinishCleanup, Pending
  <2> QED
    BY <1>13, <2>2, <2>3, <2>4, <2>5, DoneCleanupKeeps, ZenonT(60) DEF RefinishCleanup
<1>14. ASSUME NEW b \in Backups, CreateCancel(b)
      PROVE  CleanupInv' /\ DeletesFree
  BY <1>14, CleanupStill, ZenonT(60) DEF CreateCancel, Points
<1>15. ASSUME NEW b \in Backups, AgentStartsBackup(b)
      PROVE  CleanupInv' /\ DeletesFree
  BY <1>15, CleanupStill, ZenonT(60) DEF AgentStartsBackup, Points
<1>16. ASSUME NEW b \in Backups, NEW e \in Report, AgentEndsBackup(b, e)
      PROVE  CleanupInv' /\ DeletesFree
  BY <1>16, CleanupStill, ZenonT(60) DEF AgentEndsBackup, Points
<1>17. ASSUME NEW b \in Backups, NEW found \in BOOLEAN, AgentCancels(b, found)
      PROVE  CleanupInv' /\ DeletesFree
  BY <1>17, CleanupStill, ZenonT(60) DEF AgentCancels, Points
<1>18. ASSUME NEW b \in Cancelable, CancelTask(b)
      PROVE  CleanupInv' /\ DeletesFree
  BY <1>18, CleanupStill, ZenonT(60) DEF CancelTask, Points
<1>19. ASSUME NEW D \in SUBSET Backups, DeleteRestorePoints(D)
      PROVE  CleanupInv' /\ DeletesFree
  <2>1. "manual" \in Handlers
    BY ZenonT(60) DEF Handlers
  <2> QED
    BY <1>19, <2>1, ClaimKeeps, ZenonT(60) DEF DeleteRestorePoints
<1>20. ASSUME NEW sel \in SUBSET Selectable, ReconcileRetention(sel)
      PROVE  CleanupInv' /\ DeletesFree
  <2>1. "retention" \in Handlers /\ Expired(sel) \in SUBSET Backups
    BY Zenon DEF Handlers, Expired, Points
  <2>2. CASE ClaimRestorePointDeletion("retention", Expired(sel))
    BY <1>20, <2>1, <2>2, ClaimKeeps, Zenon DEF ReconcileRetention
  <2>3. CASE UNCHANGED <<claim, rstate>>
    BY <1>20, <2>3, CleanupStill, ZenonT(60) DEF ReconcileRetention, Points
  <2> QED
    BY <1>20, <2>2, <2>3, Zenon DEF ReconcileRetention
<1>21. ASSUME NEW c \in Cleanups, NEW sel \in SUBSET Selectable, NEW h \in Handlers, CreateCleanup(h, c, sel)
      PROVE  CleanupInv' /\ DeletesFree
  <2>1. \A g \in Handlers : claim'[g] \subseteq claim[g] /\ (g = h => claim'[g] = {})
    BY <1>0, <1>21, ZenonT(60) DEF CreateCleanup, TypeOK
  <2>2. CASE DeletionAllowed(claim[h], h = "manual", sel) /\ CreateDeletion(c, claim[h])
    <3>1. claim[h] \in SUBSET Points
      BY <1>0, ZenonT(60) DEF ClaimInv
    <3>2. \A p \in claim[h] : \A k \in Cleanups : Pending(k) => p \notin cpoints[k]
      BY <1>0, ZenonT(60) DEF ClaimInv
    <3>3. \A g \in Handlers : claim'[g] \subseteq claim[g] \ claim[h]
      BY <1>0, <2>1, ZenonT(60) DEF ClaimInv
    <3> QED
      BY <1>21, <2>2, <3>1, <3>2, <3>3, NewCleanupKeeps, ZenonT(60) DEF CreateCleanup
  <2>3. CASE UNCHANGED <<cleanupVars, cexec, rstate, resv, cleanupOf>>
    <3>1. OutcomeInv' /\ \A k \in Cleanups : Pending(k)' => Pending(k)
      BY <1>0, <1>21, <2>3, Zenon DEF CreateCleanup, OutcomeInv, Pending
    <3> QED
      BY <1>21, <2>1, <2>3, <3>1, CleanupFrame, ZenonT(60) DEF CreateCleanup, Points
  <2> QED
    BY <1>21, <2>2, <2>3, ZenonT(60) DEF CreateCleanup
<1>22. ASSUME NEW c \in Cleanups, NEW sel \in SUBSET Selectable, NEW b \in Backups, StartReplacement(b, c, sel)
      PROVE  CleanupInv' /\ DeletesFree
  <2>0. resv[b] \in InFlight /\ repl[b] \in Backups /\ resv[b] \in Ready
    BY <1>0, <1>22, Zenon DEF StartReplacement, TypeOK, InFlight, Ready
  <2>1. resv[b] \in InFlight /\ repl[b] \in Points /\ Replaced(repl[b])
    <3>1. point[repl[b]] \in {"absent", "available", "deleted"}
      BY <1>0, <2>0, Zenon DEF TypeOK
    <3>2. point[repl[b]] # "absent" /\ point[repl[b]] # "deleted"
      BY <1>0, <1>22, <2>0, NoneIsNoBackup, Zenon DEF StartReplacement, StoreInv, ReplacementLock
    <3> QED
      BY <2>0, <3>1, <3>2, ZenonT(60) DEF Replaced, Points
  <2>2. \A g \in Handlers : claim'[g] \subseteq claim[g] \ {repl[b]}
    BY <1>0, <1>22, <2>1, Zenon DEF StartReplacement, ClaimInv
  <2>3. \A a \in Backups : task[a] \in Terminal => task'[a] = task[a]
    BY <1>0, <1>22, Zenon DEF StartReplacement, StatusAfter, TypeOK
  <2> QED
    BY <1>22, <2>1, <2>2, <2>3, NewCleanupKeeps, ZenonT(60) DEF StartReplacement
<1>23. ASSUME NEW c \in Cleanups, CleanupDispatchFails(c)
      PROVE  CleanupInv' /\ DeletesFree
  <2>0. /\ cexec[c] # "none" /\ cexec[c] # "completed"
        /\ ctask'[c] \in {ctask[c], "failed"}
        /\ \A k \in Cleanups : k # c => ctask'[k] = ctask[k] /\ cexec'[k] = cexec[k]
    BY <1>a, <1>23, ZenonT(60) DEF CleanupDispatchFails, EndCleanup
  <2>1. OutcomeInv'
    BY <1>0, <1>23, <2>0, ZenonT(60) DEF CleanupDispatchFails, OutcomeInv
  <2>2. Pending(c) /\ ~Pending(c)' /\ \A k \in Cleanups : k # c => Pending(k)' = Pending(k)
    BY <1>a, <1>23, ZenonT(60) DEF CleanupDispatchFails, Pending, EndCleanup, Report
  <2> QED
    BY <1>23, <2>1, <2>2, FailedCleanupKeeps, ZenonT(60) DEF CleanupDispatchFails
<1>24. ASSUME NEW c \in Cleanups, CleanupSucceeds(c)
      PROVE  CleanupInv' /\ DeletesFree
  <2>1. OutcomeInv'
    <3>1. ctask' = [ctask EXCEPT ![c] = "succeeded"] /\ cexec[c] = "completed"
      BY <1>24, Zenon DEF CleanupSucceeds, EndCleanup, Terminal, Aborted
    <3> QED
      BY <1>0, <1>a, <1>24, <3>1, ZenonT(60) DEF CleanupSucceeds, OutcomeInv
  <2>2. \A k \in Cleanups : Pending(k)' => Pending(k)
    BY <1>a, <1>24, ZenonT(60) DEF CleanupSucceeds, Pending, EndCleanup, Report
  <2> QED
    BY <1>24, <2>1, <2>2, CleanupFrame, ZenonT(60) DEF CleanupSucceeds, Points
<1>25. ASSUME NEW c \in Cleanups, CleanupCompleted(c)
      PROVE  CleanupInv' /\ DeletesFree
  <2>0. cexec' = [cexec EXCEPT ![c] = "acked"] /\ cexec[c] = "completed" /\ ctask[c] # "none"
    BY <1>25, Zenon DEF CleanupCompleted, Acked, Terminal, Aborted
  <2>1. OutcomeInv'
    BY <1>0, <1>a, <1>25, <2>0, MarkingKeepsOutcome, ZenonT(60) DEF CleanupCompleted
  <2>2. Pending(c) /\ \A k \in Cleanups : Pending(k)' => Pending(k)
    BY <1>a, <1>25, ZenonT(60) DEF CleanupCompleted, Pending, Report, Acked
  <2> QED
    BY <1>25, <2>1, <2>2, DoneCleanupKeeps, ZenonT(60) DEF CleanupCompleted
<1>26. ASSUME NEW c \in Cleanups, CleanupFailed(c)
      PROVE  CleanupInv' /\ DeletesFree
  <2>0. /\ cexec[c] # "none" /\ cexec[c] # "completed"
        /\ ctask'[c] \in {ctask[c], "failed"}
        /\ \A k \in Cleanups : k # c => ctask'[k] = ctask[k] /\ cexec'[k] = cexec[k]
    BY <1>a, <1>26, ZenonT(60) DEF CleanupFailed, EndCleanup, Acked
  <2>1. OutcomeInv'
    BY <1>0, <1>26, <2>0, ZenonT(60) DEF CleanupFailed, OutcomeInv
  <2>2. Pending(c) /\ ~Pending(c)' /\ \A k \in Cleanups : k # c => Pending(k)' = Pending(k)
    BY <1>a, <1>26, Zenon DEF CleanupFailed, Pending, EndCleanup, Report, Acked
  <2> QED
    BY <1>26, <2>1, <2>2, FailedCleanupKeeps, ZenonT(60) DEF CleanupFailed
<1>27. ASSUME NEW c \in Cleanups, CleanupAbandoned(c)
      PROVE  CleanupInv' /\ DeletesFree
  <2>1. OutcomeInv'
    BY <1>0, <1>a, <1>27, ZenonT(60) DEF CleanupAbandoned, OutcomeInv, EndCleanup, Terminal, Aborted
  <2>2. \A k \in Cleanups : Pending(k)' => Pending(k)
    BY <1>a, <1>27, ZenonT(60) DEF CleanupAbandoned, Pending, EndCleanup, Terminal, Aborted
  <2> QED
    BY <1>27, <2>1, <2>2, CleanupFrame, Zenon DEF CleanupAbandoned, Points
<1>28. ASSUME NEW c \in Cleanups, AgentStartsCleanup(c)
      PROVE  CleanupInv' /\ DeletesFree
  <2>1. OutcomeInv'
    BY <1>0, <1>a, <1>28, ZenonT(60) DEF AgentStartsCleanup, OutcomeInv
  <2>2. \A k \in Cleanups : Pending(k)' => Pending(k)
    BY <1>a, <1>28, Zenon DEF AgentStartsCleanup, Pending, Report
  <2> QED
    BY <1>28, <2>1, <2>2, CleanupFrame, ZenonT(60) DEF AgentStartsCleanup, Points
<1>29. ASSUME NEW c \in Cleanups, NEW p \in Backups, AgentDeletes(c, p)
      PROVE  CleanupInv' /\ DeletesFree
  BY <1>29, CleanupStill, ZenonT(60) DEF AgentDeletes, Points
<1>30. ASSUME NEW c \in Cleanups, NEW e \in Report, AgentEndsCleanup(c, e)
      PROVE  CleanupInv' /\ DeletesFree
  <2>1. OutcomeInv'
    BY <1>0, <1>a, <1>30, ZenonT(60) DEF AgentEndsCleanup, OutcomeInv, Report
  <2>2. \A k \in Cleanups : Pending(k)' => Pending(k)
    BY <1>a, <1>30, ZenonT(60) DEF AgentEndsCleanup, Pending, Report
  <2> QED
    BY <1>30, <2>1, <2>2, CleanupFrame, ZenonT(60) DEF AgentEndsCleanup, Points
<1>31. ASSUME NEW r \in Recoveries, NEW p \in Backups, NEW d \in BOOLEAN, CreateRecovery(r, p, d)
      PROVE  CleanupInv' /\ DeletesFree
  BY <1>31, CleanupStill, ZenonT(60) DEF CreateRecovery, Points
<1>32. ASSUME NEW r \in Recoveries, NEW s \in {"succeeded", "failed"}, EndRecovery(r, s)
      PROVE  CleanupInv' /\ DeletesFree
  BY <1>32, CleanupStill, Zenon DEF EndRecovery, Points
<1>33. ASSUME NEW p \in Retainable, NEW retain \in BOOLEAN, SetRestorePointRetention(p, retain)
      PROVE  CleanupInv' /\ DeletesFree
  BY <1>33, CleanupStill, ZenonT(60) DEF SetRestorePointRetention, Points
<1>34. ASSUME NEW n \in Counts, UpdatePolicy(n)
      PROVE  CleanupInv' /\ DeletesFree
  BY <1>34, CleanupStill, Zenon DEF UpdatePolicy, Points
<1>35. ASSUME NEW n \in Switches, SaveProtectionPlan(n)
      PROVE  CleanupInv' /\ DeletesFree
  BY <1>35, CleanupStill, Zenon DEF SaveProtectionPlan, Points
<1>36. ASSUME PlatformRestarts
      PROVE  CleanupInv' /\ DeletesFree
  <2>1. OutcomeInv'
    BY <1>0, <1>36, ZenonT(60) DEF PlatformRestarts, OutcomeInv
  <2>2. \A k \in Cleanups : Pending(k)' => Pending(k)
    BY <1>36, ZenonT(60) DEF PlatformRestarts, Pending
  <2> QED
    BY <1>36, <2>1, <2>2, CleanupFrame, ZenonT(60) DEF PlatformRestarts, Points
<1>37. CASE UNCHANGED vars
  BY <1>37, CleanupStill, Zenon DEF vars, Points
<1> QED
  BY <1>1, <1>2, <1>3, <1>4, <1>5, <1>6, <1>7, <1>8, <1>9, <1>10, <1>11, <1>12, <1>13, <1>14,
     <1>15, <1>16, <1>17, <1>18, <1>19, <1>20, <1>21, <1>22, <1>23, <1>24, <1>25, <1>26, <1>27, <1>28,
     <1>29, <1>30, <1>31, <1>32, <1>33, <1>34, <1>35, <1>36, <1>37
 , ZenonT(60) DEF Next

\* No point is deleted while a recovery uses it or while it is kept, for any
\* number of backups, cleanups and recoveries, when every report is handled once
\* (prepareRestorePointDeletion, CreateTask, SetRestorePointRetention,
\* UpdateTaskStatus).
THEOREM InUseIsKept ==
  ASSUME Redeliver = FALSE
  PROVE  Spec => NothingInUseIsDeleted
<1>1. Init => CleanupInv
  BY Zenon DEF Init, CleanupInv, PendingInv, ClaimInv, OutcomeInv, Pending, Report
<1>2. IInv /\ CleanupInv /\ [Next]_vars => CleanupInv'
  BY CleanupStep, Zenon
<1>3. IInv /\ CleanupInv /\ ReplacedPointIsFree /\ [Next]_vars =>
        [\A p \in Backups :
           point[p] = "available" /\ point'[p] = "deleted" =>
             /\ ~pointProtected(p)
             /\ \A r \in Recoveries : rtask[r] = "active" => rpoint[r] # p]_vars
  <2> SUFFICES ASSUME IInv, CleanupInv, ReplacedPointIsFree, [Next]_vars,
                      NEW p \in Backups, point[p] = "available", point'[p] = "deleted"
               PROVE  Unused(p)
    BY Zenon DEF Unused
  <2>1. p \in Points
    BY Zenon DEF Points
  <2>2. CASE Replaced(p)
    BY <2>1, <2>2, Zenon DEF Replaced, Ready, ReplacedPointIsFree, Unused, InFlight
  <2> QED
    BY <2>1, <2>2, CleanupStep, ZenonT(60) DEF DeletesFree
<1>4. Spec => [](IInv /\ CleanupInv /\ ReplacedPointIsFree)
  BY <1>1, <1>2, Invariance, ReplacedIsFree, PTL DEF Spec
<1>5. Spec => [][Next]_vars
  BY Zenon DEF Spec
<1> QED
  BY <1>3, <1>4, <1>5, PTL DEF NothingInUseIsDeleted
=============================================================================
