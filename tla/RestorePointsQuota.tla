------------------------- MODULE RestorePointsQuota -------------------------
(***************************************************************************)
(* The retention count is a hard maximum as long as a plan keeps its       *)
(* policy.  The proof rests on the inductive invariant of                  *)
(* RestorePointsSafety and on the size of finite sets.                     *)
(***************************************************************************)
EXTENDS RestorePointsSafety, FiniteSetTheorems

USE DEF policyVars, taskVars, resvVars, markVars, pointVars, claimVars, cleanupVars,
        recoveryVars, agentVars

\* The points and the slots of a plan are finite sets, and their number is a
\* natural number (the counters of reserveBackupQuota and UpdatePolicy).
LEMMA UsedIsNatural ==
  ASSUME NEW rv
  PROVE  /\ IsFiniteSet(Points) /\ IsFiniteSet(Slots(rv))
         /\ Cardinality(Points) \in Nat /\ Cardinality(Slots(rv)) \in Nat
         /\ Used(rv) \in Nat
<1>1. Points \in SUBSET Backups /\ Slots(rv) \in SUBSET Backups
  BY Zenon DEF Points, Slots
<1>2. IsFiniteSet(Points) /\ IsFiniteSet(Slots(rv))
  BY <1>1, BackupsAssumption, FS_Subset, ZenonT(60)
<1>3. Cardinality(Points) \in Nat /\ Cardinality(Slots(rv)) \in Nat
  BY <1>2, FS_CardinalityType, Zenon
<1> QED
  BY <1>2, <1>3 DEF Used

\* reserveBackupQuota replaces nothing only while a slot is free.
LEMMA ReplacementWithinCount ==
  ASSUME NEW sel, count \in Nat, ~QuotaExhausted(sel)
  PROVE  \/ /\ Replacement(sel) = None
            /\ count > 0 => Used(Released) < count
         \/ /\ Replacement(sel) \in Replaceable(sel, Released)
            /\ Replacement(sel) # None /\ Replacement(sel) \in Backups
<1>1. Used(Released) \in Nat
  BY UsedIsNatural, Zenon
<1>2. ASSUME ~(count > 0 /\ Used(Released) >= count)
      PROVE  count > 0 => Used(Released) < count
  BY <1>1, <1>2
<1> QED
  BY <1>2, ReplacementIsReplaceable, ZenonT(60)

\* Adding one element adds at most one to the size.
LEMMA CardinalityAdd ==
  ASSUME NEW S, IsFiniteSet(S), NEW x, NEW T \in SUBSET (S \cup {x})
  PROVE  Cardinality(T) \in Nat /\ Cardinality(T) <= Cardinality(S) + 1
<1>1. IsFiniteSet(S \cup {x}) /\ Cardinality(S \cup {x}) <= Cardinality(S) + 1
  <2>1. Cardinality(S) \in Nat
    BY FS_CardinalityType, Zenon
  <2>2. /\ IsFiniteSet(S \cup {x})
        /\ Cardinality(S \cup {x}) = IF x \in S THEN Cardinality(S) ELSE Cardinality(S) + 1
    BY FS_AddElement, Zenon
  <2> QED
    BY <2>1, <2>2
<1>2. IsFiniteSet(T) /\ Cardinality(T) <= Cardinality(S \cup {x})
  BY <1>1, FS_Subset, Zenon
<1>3. Cardinality(T) \in Nat /\ Cardinality(S) \in Nat /\ Cardinality(S \cup {x}) \in Nat
  BY <1>1, <1>2, FS_CardinalityType, Zenon
<1> QED
  BY <1>1, <1>2, <1>3

\* Removing one element removes one from the size.
LEMMA CardinalityDrop ==
  ASSUME NEW S, IsFiniteSet(S), NEW x \in S, NEW T \in SUBSET (S \ {x})
  PROVE  Cardinality(T) \in Nat /\ Cardinality(T) <= Cardinality(S) - 1
<1>1. IsFiniteSet(S \ {x}) /\ Cardinality(S \ {x}) = Cardinality(S) - 1
  BY FS_RemoveElement, Zenon
<1>2. IsFiniteSet(T) /\ Cardinality(T) <= Cardinality(S \ {x})
  BY <1>1, FS_Subset, Zenon
<1>3. Cardinality(T) \in Nat
  BY <1>2, FS_CardinalityType, Zenon
<1> QED
  BY <1>1, <1>2, <1>3, Zenon

\* A subset is no larger.
LEMMA CardinalitySub ==
  ASSUME NEW S, IsFiniteSet(S), NEW T \in SUBSET S
  PROVE  Cardinality(T) \in Nat /\ Cardinality(T) <= Cardinality(S)
BY FS_Subset, FS_CardinalityType, Zenon

(***************************************************************************)
(* What a step does to the number of slots in use.                         *)
(***************************************************************************)

\* No new point and no new slot.
LEMMA UsedShrinks ==
  ASSUME Points' \in SUBSET Points, Slots(resv)' \in SUBSET Slots(resv)
  PROVE  Used(resv)' \in Nat /\ Used(resv)' <= Used(resv)
<1>1. /\ IsFiniteSet(Points) /\ IsFiniteSet(Slots(resv))
      /\ Cardinality(Points) \in Nat /\ Cardinality(Slots(resv)) \in Nat
  BY UsedIsNatural, Zenon
<1>2. Cardinality(Points') \in Nat /\ Cardinality(Points') <= Cardinality(Points)
  BY <1>1, CardinalitySub, Zenon
<1>3. Cardinality(Slots(resv)') \in Nat /\ Cardinality(Slots(resv)') <= Cardinality(Slots(resv))
  BY <1>1, CardinalitySub, Zenon
<1> QED
  BY <1>1, <1>2, <1>3 DEF Used

\* A slot becomes a point: publication.
LEMMA UsedMoves ==
  ASSUME NEW b \in Slots(resv), Points' \in SUBSET (Points \cup {b}),
         Slots(resv)' \in SUBSET (Slots(resv) \ {b})
  PROVE  Used(resv)' \in Nat /\ Used(resv)' <= Used(resv)
<1>1. /\ IsFiniteSet(Points) /\ IsFiniteSet(Slots(resv))
      /\ Cardinality(Points) \in Nat /\ Cardinality(Slots(resv)) \in Nat
  BY UsedIsNatural, Zenon
<1>2. Cardinality(Points') \in Nat /\ Cardinality(Points') <= Cardinality(Points) + 1
  BY <1>1, CardinalityAdd, Zenon
<1>3. Cardinality(Slots(resv)') \in Nat /\ Cardinality(Slots(resv)') <= Cardinality(Slots(resv)) - 1
  BY <1>1, CardinalityDrop, Zenon
<1> QED
  BY <1>1, <1>2, <1>3 DEF Used

\* A point becomes a slot: deletion of a point that is being replaced.
LEMMA UsedSwaps ==
  ASSUME NEW p \in Points, NEW b, Points' \in SUBSET (Points \ {p}),
         Slots(resv)' \in SUBSET (Slots(resv) \cup {b})
  PROVE  Used(resv)' \in Nat /\ Used(resv)' <= Used(resv)
<1>1. /\ IsFiniteSet(Points) /\ IsFiniteSet(Slots(resv))
      /\ Cardinality(Points) \in Nat /\ Cardinality(Slots(resv)) \in Nat
  BY UsedIsNatural, Zenon
<1>2. Cardinality(Points') \in Nat /\ Cardinality(Points') <= Cardinality(Points) - 1
  BY <1>1, CardinalityDrop, Zenon
<1>3. Cardinality(Slots(resv)') \in Nat /\ Cardinality(Slots(resv)') <= Cardinality(Slots(resv)) + 1
  BY <1>1, CardinalityAdd, ZenonT(60)
<1> QED
  BY <1>1, <1>2, <1>3 DEF Used

\* One point or one slot more.
LEMMA UsedGrows ==
  ASSUME NEW b, \/ /\ Points' \in SUBSET (Points \cup {b})
                   /\ Slots(resv)' \in SUBSET Slots(resv)
                \/ /\ Points' \in SUBSET Points
                   /\ Slots(resv)' \in SUBSET (Slots(resv) \cup {b})
  PROVE  Used(resv)' \in Nat /\ Used(resv)' <= Used(resv) + 1
<1>1. /\ IsFiniteSet(Points) /\ IsFiniteSet(Slots(resv))
      /\ Cardinality(Points) \in Nat /\ Cardinality(Slots(resv)) \in Nat
  BY UsedIsNatural, Zenon
<1>2. CASE Points' \in SUBSET (Points \cup {b}) /\ Slots(resv)' \in SUBSET Slots(resv)
  <2>1. Cardinality(Points') \in Nat /\ Cardinality(Points') <= Cardinality(Points) + 1
    BY <1>1, <1>2, CardinalityAdd, ZenonT(60)
  <2>2. Cardinality(Slots(resv)') \in Nat /\ Cardinality(Slots(resv)') <= Cardinality(Slots(resv))
    BY <1>1, <1>2, CardinalitySub, Zenon
  <2> QED
    BY <1>1, <2>1, <2>2 DEF Used
<1>3. CASE Points' \in SUBSET Points /\ Slots(resv)' \in SUBSET (Slots(resv) \cup {b})
  <2>1. Cardinality(Points') \in Nat /\ Cardinality(Points') <= Cardinality(Points)
    BY <1>1, <1>3, CardinalitySub, Zenon
  <2>2. Cardinality(Slots(resv)') \in Nat /\ Cardinality(Slots(resv)') <= Cardinality(Slots(resv)) + 1
    BY <1>1, <1>3, CardinalityAdd, ZenonT(60)
  <2> QED
    BY <1>1, <2>1, <2>2 DEF Used
<1> QED
  BY <1>2, <1>3, Zenon

\* A step after which no more is used, under the same count.
LEMMA QuotaKept ==
  ASSUME TypeOK, QuotaRespected, UNCHANGED count,
         Used(resv)' \in Nat, Used(resv)' <= Used(resv)
  PROVE  QuotaRespected'
<1>1. count \in Nat /\ Used(resv) \in Nat
  BY UsedIsNatural, ZenonT(60) DEF TypeOK
<1>2. ASSUME count > 0
      PROVE  Used(resv)' <= count
  BY <1>1, <1>2 DEF QuotaRespected
<1> QED
  BY <1>2, Zenon DEF QuotaRespected

\* A step that neither publishes, deletes nor reserves.
LEMMA QuotaFrame ==
  ASSUME TypeOK, QuotaRespected, UNCHANGED <<count, repl, point>>,
         \A a \in Backups : resv'[a] \in InFlight => resv[a] \in InFlight
  PROVE  QuotaRespected'
<1>1. Points' \in SUBSET Points
  BY Zenon DEF Points
<1>2. Slots(resv)' \in SUBSET Slots(resv)
  BY Zenon DEF Slots
<1>3. Used(resv)' \in Nat /\ Used(resv)' <= Used(resv)
  BY <1>1, <1>2, UsedShrinks, Zenon
<1> QED
  BY <1>3, QuotaKept, Zenon

\* Admission takes a free slot or the slot of the point it will replace
\* (reserveBackupQuota).
LEMMA CreateBackupQuota ==
  ASSUME IInv, QuotaRespected, NEW b \in Backups, NEW sel, CreateBackup(b, sel)
  PROVE  QuotaRespected'
<1>1. TypeOK /\ Released = resv /\ UNCHANGED <<count, point>>
  BY NothingToRelease, Zenon DEF IInv, StoreInv, CreateBackup
<1>2. CASE QuotaExhausted(sel)
  <2>1. UNCHANGED <<resv, repl>>
    BY <1>1, <1>2, ZenonT(60) DEF CreateBackup
  <2> QED
    BY <1>1, <2>1, QuotaFrame, Zenon
<1>3. CASE ~QuotaExhausted(sel)
  <2>1. /\ resv' = [resv EXCEPT ![b] = NewReservation]
        /\ repl' = [repl EXCEPT ![b] = Replacement(sel)]
    BY <1>1, <1>3, Zenon DEF CreateBackup
  <2>2. /\ repl'[b] = Replacement(sel)
        /\ \A a \in Backups \ {b} : resv'[a] = resv[a] /\ repl'[a] = repl[a]
    BY <1>1, <2>1, ZenonT(60) DEF TypeOK
  <2>3. Points' \in SUBSET Points
    BY <1>1, Zenon DEF Points
  <2>4. CASE /\ Replacement(sel) = None
             /\ count > 0 => Used(Released) < count
    <3>1. Slots(resv)' \in SUBSET (Slots(resv) \cup {b})
      BY <1>1, <2>2, Zenon DEF Slots
    <3>2. Used(resv)' \in Nat /\ Used(resv)' <= Used(resv) + 1
      BY <2>3, <3>1, UsedGrows, ZenonT(60)
    <3>3. Used(resv) \in Nat /\ count \in Nat /\ (count > 0 => Used(resv) < count)
      BY <1>1, <2>4, UsedIsNatural, ZenonT(60) DEF TypeOK
    <3>4. ASSUME count > 0
          PROVE  Used(resv)' <= count
      BY <3>2, <3>3, <3>4
    <3> QED
      BY <1>1, <3>4, ZenonT(60) DEF QuotaRespected
  <2>5. CASE /\ Replacement(sel) \in Replaceable(sel, Released)
             /\ Replacement(sel) # None /\ Replacement(sel) \in Backups
    <3>1. point[Replacement(sel)] = "available"
      BY <2>5, Zenon DEF Replaceable, Points
    <3>2. Slots(resv)' \in SUBSET Slots(resv)
      BY <1>1, <2>2, <2>5, <3>1, Zenon DEF Slots
    <3>3. Used(resv)' \in Nat /\ Used(resv)' <= Used(resv)
      BY <2>3, <3>2, UsedShrinks, ZenonT(60)
    <3> QED
      BY <1>1, <3>3, QuotaKept, Zenon
  <2> QED
    BY <1>1, <1>3, <2>4, <2>5, ReplacementWithinCount, ZenonT(60) DEF TypeOK
<1> QED
  BY <1>2, <1>3, Zenon

\* Publication turns the slot of the backup into its point; a backup admitted
\* without a limit takes a free slot, if by now there is a limit
\* (createRestorePoint).
LEMMA PublishQuota ==
  ASSUME IInv, QuotaRespected, NEW b \in Backups, NEW sel, Publishable(b, sel),
         Publish(b, sel), UNCHANGED count
  PROVE  QuotaRespected'
<1>1. TypeOK /\ StoreInv /\ Released = resv
  BY NothingToRelease, ZenonT(60) DEF IInv, StoreInv
<1>2. \A a \in Backups \ {b} :
        task'[a] = task[a] /\ resv'[a] = resv[a] /\ repl'[a] = repl[a] /\ point'[a] = point[a]
  BY <1>1, PublishOutcomes, Zenon
<1>3. point[b] = "absent" /\ resv[b] \in {"none"} \cup InFlight
  BY <1>1, ZenonT(60) DEF Publishable, StoreInv, Stages, PublishedWithSuccess, TypeOK, Aborted
<1>4. CASE /\ task'[b] = "finalizing" /\ resv'[b] \in {"data_ready", "deleting"}
           /\ repl'[b] \in Points /\ point'[b] = point[b]
  <2>1. Points' \in SUBSET Points
    BY <1>2, <1>4, Zenon DEF Points
  <2>2. repl'[b] # None /\ point'[repl'[b]] # "deleted"
    BY <1>2, <1>4, NoneIsNoBackup, Zenon DEF Points
  <2>3. \A p \in Backups : point'[p] = point[p]
    BY <1>2, <1>4, Zenon
  <2>4. \A a \in Backups : repl[a] \in Backups \cup {None}
    BY <1>1, ZenonT(60) DEF TypeOK
  <2>5. Slots(resv)' \in SUBSET Slots(resv)
    BY <1>2, <2>2, <2>3, <2>4, ZenonT(60) DEF Slots
  <2>6. Used(resv)' \in Nat /\ Used(resv)' <= Used(resv)
    BY <2>1, <2>5, UsedShrinks, Zenon
  <2> QED
    BY <1>1, <2>6, QuotaKept, Zenon
<1>5. CASE /\ task'[b] = "succeeded" /\ point'[b] = "available"
           /\ resv'[b] = "published" \/ (resv'[b] = "none" /\ repl'[b] = None)
           /\ repl'[b] # None => resv[b] # "none" /\ point[repl'[b]] = "deleted"
           /\ repl[b] # None => repl'[b] = repl[b]
  <2>1. Points' \in SUBSET (Points \cup {b})
    BY <1>2, Zenon DEF Points
  <2>2. \A p \in Backups : point'[p] = "deleted" => point[p] = "deleted"
    BY <1>2, <1>5, ZenonT(60)
  <2>3. \A a \in Backups : repl[a] \in Backups \cup {None}
    BY <1>1, ZenonT(60) DEF TypeOK
  <2>4. Slots(resv)' \in SUBSET (Slots(resv) \ {b})
    BY <1>2, <1>5, <2>2, <2>3, ZenonT(60) DEF Slots, InFlight
  <2>5. CASE resv[b] \in InFlight
    <3>1. b \in Slots(resv)
      BY <1>5, <2>5, Zenon DEF Slots
    <3>2. Used(resv)' \in Nat /\ Used(resv)' <= Used(resv)
      BY <2>1, <2>4, <3>1, UsedMoves, Zenon
    <3> QED
      BY <1>1, <3>2, QuotaKept, Zenon
  <2>6. CASE resv[b] = "none"
    <3>1. repl'[b] = Replacement(sel) /\ repl'[b] = None
      BY <1>1, <1>5, <2>6, ZenonT(60) DEF Publish, TypeOK
    <3>2. count \in Nat /\ ~QuotaExhausted(sel)
      BY <1>1, <2>6, ZenonT(60) DEF Publishable, TypeOK
    <3>3. count > 0 => Used(resv) < count
      BY <1>1, <3>1, <3>2, ReplacementWithinCount, ZenonT(60)
    <3>4. Slots(resv)' \in SUBSET Slots(resv)
      BY <2>4, Zenon
    <3>5. Used(resv)' \in Nat /\ Used(resv)' <= Used(resv) + 1
      BY <2>1, <3>4, UsedGrows, Zenon
    <3>6. ASSUME count > 0
          PROVE  Used(resv)' <= count
      BY <3>2, <3>3, <3>5, <3>6, UsedIsNatural
    <3> QED
      BY <3>6, ZenonT(60) DEF QuotaRespected
  <2> QED
    BY <1>3, <2>5, <2>6, Zenon
<1> QED
  BY <1>1, <1>4, <1>5, PublishOutcomes, Zenon

\* A deleted point leaves its place to the reservation that waited for it
\* (finishRetentionCleanupTask, createRestorePoint).
LEMMA MarkDeletedQuota ==
  ASSUME IInv, QuotaRespected, NEW c \in Cleanups, MarkDeleted(c),
         UNCHANGED <<count, task, resv, repl, owner>>
  PROVE  QuotaRespected'
<1>1. TypeOK /\ StoreInv
  BY Zenon DEF IInv
<1>2. /\ \A p \in Backups : point'[p] = point[p] \/ point'[p] = "deleted"
  BY Zenon DEF MarkDeleted
<1>3. Points' \in SUBSET Points
  BY <1>2, Zenon DEF Points
<1>4. \A a \in Backups : repl[a] \in Backups \cup {None}
  BY <1>1, ZenonT(60) DEF TypeOK
<1>5. CASE Slots(resv)' \in SUBSET Slots(resv)
  <2>1. Used(resv)' \in Nat /\ Used(resv)' <= Used(resv)
    BY <1>3, <1>5, UsedShrinks, Zenon
  <2> QED
    BY <1>1, <2>1, QuotaKept, Zenon
<1>6. CASE ~(Slots(resv)' \in SUBSET Slots(resv))
  <2>1. PICK b \in Backups : b \in Slots(resv)' /\ b \notin Slots(resv)
    BY <1>6, Zenon DEF Slots
  <2>2. /\ resv[b] \in InFlight /\ repl[b] # None /\ point[repl[b]] # "deleted"
        /\ point'[repl[b]] = "deleted"
    BY <2>1, Zenon DEF Slots
  <2>3. repl[b] \in Points
    <3>1. point[repl[b]] # "absent" /\ repl[b] \in Backups
      BY <1>1, <1>4, <2>2, Zenon DEF StoreInv, ReplacementLock
    <3>2. point[repl[b]] \in {"absent", "available", "deleted"}
      BY <1>1, <3>1, ZenonT(60) DEF TypeOK
    <3> QED
      BY <2>2, <3>1, <3>2, Zenon DEF Points
  <2>4. Points' \in SUBSET (Points \ {repl[b]})
    BY <1>3, <2>2, Zenon DEF Points
  <2>5. Slots(resv)' \in SUBSET (Slots(resv) \cup {b})
    BY <1>1, <2>2, Zenon DEF Slots, StoreInv, Stages, OneOpenTask
  <2>6. Used(resv)' \in Nat /\ Used(resv)' <= Used(resv)
    BY <2>3, <2>4, <2>5, UsedSwaps, ZenonT(60)
  <2> QED
    BY <1>1, <2>6, QuotaKept, Zenon
<1> QED
  BY <1>5, <1>6, Zenon

\* UpdateTaskStatus never reserves.
LEMMA StatusQuota ==
  ASSUME IInv, QuotaRespected, NEW b \in Backups, NEW s,
         UpdateTaskStatus(b, s), UNCHANGED <<count, repl, point>>
  PROVE  QuotaRespected'
<1>1. \A a \in Backups : resv'[a] \in InFlight => resv[a] \in InFlight
  BY ZenonT(60) DEF UpdateTaskStatus, InFlight, IInv, TypeOK
<1> QED
  BY <1>1, QuotaFrame, ZenonT(60) DEF IInv

\* Every step of a plan that keeps its policy respects the maximum.
LEMMA QuotaStep ==
  ASSUME Switches = {}
  PROVE  IInv /\ QuotaRespected /\ [Next]_vars => QuotaRespected'
<1> SUFFICES ASSUME IInv, QuotaRespected, [Next]_vars
             PROVE  QuotaRespected'
  OBVIOUS
<1>0. TypeOK /\ StoreInv
  BY Zenon DEF IInv
<1>1. ASSUME NEW b \in Backups, NEW sel \in SUBSET Selectable, CreateBackup(b, sel)
      PROVE  QuotaRespected'
  BY <1>1, CreateBackupQuota, ZenonT(60)
<1>2. ASSUME NEW b \in Backups, NEW sel \in SUBSET Selectable, BackupCompleted(b, sel)
      PROVE  QuotaRespected'
  <2>1. CASE Publishable(b, sel) /\ Publish(b, sel)
    BY <1>2, <2>1, PublishQuota, ZenonT(60) DEF BackupCompleted
  <2>2. CASE UNCHANGED <<task, result, resvVars, point, owner>>
    BY <1>0, <1>2, <2>2, QuotaFrame, ZenonT(60) DEF BackupCompleted
  <2> QED
    BY <1>2, <2>1, <2>2, ZenonT(60) DEF BackupCompleted
<1>3. ASSUME NEW b \in Backups, NEW sel \in SUBSET Selectable, FinishReplacement(b, sel)
      PROVE  QuotaRespected'
  BY <1>3, PublishQuota, Zenon DEF FinishReplacement
<1>4. ASSUME NEW b \in Backups, MarkDispatched(b)
      PROVE  QuotaRespected'
  BY <1>4, StatusQuota, Zenon DEF MarkDispatched
<1>5. ASSUME NEW b \in Backups, DispatchFails(b)
      PROVE  QuotaRespected'
  BY <1>5, StatusQuota, Zenon DEF DispatchFails
<1>6. ASSUME NEW b \in Backups, BackupReported(b)
      PROVE  QuotaRespected'
  BY <1>6, StatusQuota, Zenon DEF BackupReported
<1>7. ASSUME NEW b \in Backups, BackupIncomplete(b)
      PROVE  QuotaRespected'
  BY <1>7, StatusQuota, Zenon DEF BackupIncomplete
<1>8. ASSUME NEW b \in Backups, MarkCanceling(b)
      PROVE  QuotaRespected'
  BY <1>8, StatusQuota, Zenon DEF MarkCanceling
<1>9. ASSUME NEW b \in Backups, CancelCompleted(b)
      PROVE  QuotaRespected'
  BY <1>9, StatusQuota, ZenonT(60) DEF CancelCompleted
<1>10. ASSUME NEW b \in Backups, BackupFailed(b)
      PROVE  QuotaRespected'
  BY <1>0, <1>10, StatusQuota, QuotaFrame, ZenonT(60) DEF BackupFailed
<1>11. ASSUME NEW b \in Backups, CancelFailed(b)
      PROVE  QuotaRespected'
  BY <1>0, <1>11, StatusQuota, QuotaFrame, ZenonT(60) DEF CancelFailed
<1>12. ASSUME NEW b \in Backups, RefinishCleanup(b)
      PROVE  QuotaRespected'
  <2>1. cleanupOf[b] \in Cleanups
    <3>1. cleanupOf[b] # NoCleanup
      BY <1>12, Zenon DEF RefinishCleanup
    <3> QED
      BY <1>0, <3>1, ZenonT(60) DEF TypeOK
  <2> QED
    BY <1>12, <2>1, MarkDeletedQuota, ZenonT(60) DEF RefinishCleanup
<1>13. ASSUME NEW c \in Cleanups, CleanupCompleted(c)
      PROVE  QuotaRespected'
  BY <1>13, MarkDeletedQuota, Zenon DEF CleanupCompleted
<1>14. ASSUME NEW c \in Cleanups, NEW sel \in SUBSET Selectable, NEW h \in Handlers,
             CreateCleanup(h, c, sel)
      PROVE  QuotaRespected'
  <2>1. \A a \in Backups : resv'[a] \in InFlight => resv[a] \in InFlight
    <3>1. CASE UNCHANGED resv
      BY <3>1, ZenonT(60)
    <3>2. CASE DeletionAllowed(claim[h], h = "manual", sel) /\ CreateDeletion(c, claim[h])
      <4>1. claim[h] \in SUBSET Backups /\ \A p \in claim[h] : point[p] # "absent"
        BY <1>14, ZenonT(60) DEF IInv, Origins, TypeOK
      <4>2. UNCHANGED <<task, repl, owner, point>>
        BY <1>14, ZenonT(60) DEF CreateCleanup
      <4> QED
        BY <1>0, <3>2, <4>1, <4>2, CreateDeletionKeeps, ZenonT(60)
    <3> QED
      BY <1>14, <3>1, <3>2, Zenon DEF CreateCleanup
  <2> QED
    BY <1>0, <1>14, <2>1, QuotaFrame, ZenonT(60) DEF CreateCleanup
<1>15. ASSUME NEW c \in Cleanups, NEW sel \in SUBSET Selectable, NEW b \in Backups,
             StartReplacement(b, c, sel)
      PROVE  QuotaRespected'
  <2>1. \A a \in Backups : resv'[a] \in InFlight => resv[a] \in InFlight
    BY <1>0, <1>15, StartReplacementKeeps, ZenonT(60)
  <2> QED
    BY <1>0, <1>15, <2>1, QuotaFrame, ZenonT(60) DEF StartReplacement
<1>16. ASSUME NEW D \in SUBSET Backups, DeleteRestorePoints(D)
      PROVE  QuotaRespected'
  BY <1>0, <1>16, QuotaFrame, ZenonT(60) DEF DeleteRestorePoints
<1>17. ASSUME NEW sel \in SUBSET Selectable, ReconcileRetention(sel)
      PROVE  QuotaRespected'
  BY <1>0, <1>17, QuotaFrame, ZenonT(60) DEF ReconcileRetention
<1>18. ASSUME NEW b \in Cancelable, CancelTask(b)
      PROVE  QuotaRespected'
  BY <1>0, <1>18, QuotaFrame, Zenon DEF CancelTask
<1>19. ASSUME NEW b \in Backups, CreateCancel(b)
      PROVE  QuotaRespected'
  BY <1>0, <1>19, QuotaFrame, Zenon DEF CreateCancel
<1>20. ASSUME NEW b \in Backups, AgentStartsBackup(b)
      PROVE  QuotaRespected'
  BY <1>0, <1>20, QuotaFrame, ZenonT(60) DEF AgentStartsBackup
<1>21. ASSUME NEW b \in Backups, NEW e \in Report, AgentEndsBackup(b, e)
      PROVE  QuotaRespected'
  BY <1>0, <1>21, QuotaFrame, Zenon DEF AgentEndsBackup
<1>22. ASSUME NEW b \in Backups, NEW found \in BOOLEAN, AgentCancels(b, found)
      PROVE  QuotaRespected'
  BY <1>0, <1>22, QuotaFrame, Zenon DEF AgentCancels
<1>23. ASSUME NEW c \in Cleanups, CleanupDispatchFails(c)
      PROVE  QuotaRespected'
  BY <1>0, <1>23, QuotaFrame, ZenonT(60) DEF CleanupDispatchFails
<1>24. ASSUME NEW c \in Cleanups, CleanupSucceeds(c)
      PROVE  QuotaRespected'
  BY <1>0, <1>24, QuotaFrame, Zenon DEF CleanupSucceeds
<1>25. ASSUME NEW c \in Cleanups, CleanupFailed(c)
      PROVE  QuotaRespected'
  BY <1>0, <1>25, QuotaFrame, Zenon DEF CleanupFailed
<1>26. ASSUME NEW c \in Cleanups, CleanupAbandoned(c)
      PROVE  QuotaRespected'
  BY <1>0, <1>26, QuotaFrame, ZenonT(60) DEF CleanupAbandoned
<1>27. ASSUME NEW c \in Cleanups, AgentStartsCleanup(c)
      PROVE  QuotaRespected'
  BY <1>0, <1>27, QuotaFrame, ZenonT(60) DEF AgentStartsCleanup
<1>28. ASSUME NEW c \in Cleanups, NEW p \in Backups, AgentDeletes(c, p)
      PROVE  QuotaRespected'
  BY <1>0, <1>28, QuotaFrame, ZenonT(60) DEF AgentDeletes
<1>29. ASSUME NEW c \in Cleanups, NEW e \in Report, AgentEndsCleanup(c, e)
      PROVE  QuotaRespected'
  BY <1>0, <1>29, QuotaFrame, ZenonT(60) DEF AgentEndsCleanup
<1>30. ASSUME NEW r \in Recoveries, NEW p \in Backups, NEW d \in BOOLEAN,
             CreateRecovery(r, p, d)
      PROVE  QuotaRespected'
  BY <1>0, <1>30, QuotaFrame, ZenonT(60) DEF CreateRecovery
<1>31. ASSUME NEW r \in Recoveries, NEW s \in {"succeeded", "failed"},
             EndRecovery(r, s)
      PROVE  QuotaRespected'
  BY <1>0, <1>31, QuotaFrame, ZenonT(60) DEF EndRecovery
<1>32. ASSUME NEW p \in Retainable, NEW retain \in BOOLEAN,
             SetRestorePointRetention(p, retain)
      PROVE  QuotaRespected'
  BY <1>0, <1>32, QuotaFrame, ZenonT(60) DEF SetRestorePointRetention
<1>33. ASSUME PlatformRestarts
      PROVE  QuotaRespected'
  BY <1>0, <1>33, QuotaFrame, Zenon DEF PlatformRestarts
<1>34. ASSUME NEW n \in Counts, UpdatePolicy(n)
      PROVE  QuotaRespected'
  <2>1. UNCHANGED <<resv, repl, point>>
    BY <1>34, ZenonT(60) DEF UpdatePolicy
  <2>2. Points' = Points /\ Slots(resv)' = Slots(resv)
    BY <2>1, Zenon DEF Points, Slots
  <2>3. Used(resv)' = Used(resv)
    BY <2>2, Zenon DEF Used
  <2>4. n \in Nat /\ (n = 0 \/ Used(resv) <= n) /\ count' = n
    BY <1>34, CountsAssumption, ZenonT(60) DEF UpdatePolicy
  <2> QED
    BY <2>3, <2>4 DEF QuotaRespected
<1>40. ASSUME NEW b \in Backups, RedispatchPendingTasks(b)
      PROVE  QuotaRespected'
  BY <1>0, <1>40, QuotaFrame, ZenonT(60) DEF RedispatchPendingTasks
<1>35. CASE UNCHANGED vars
  BY <1>0, <1>35, QuotaFrame, Zenon DEF vars
<1> QED
  BY <1>40, <1>1, <1>2, <1>3, <1>4, <1>5, <1>6, <1>7, <1>8, <1>9, <1>10, <1>11, <1>12,
     <1>13, <1>14, <1>15, <1>16, <1>17, <1>18, <1>19, <1>20, <1>21, <1>22, <1>23, <1>24,
     <1>25, <1>26, <1>27, <1>28, <1>29, <1>30, <1>31, <1>32, <1>33, <1>34, <1>35, ZenonT(60) DEF Next

\* The retention count is a hard maximum for every plan that is not moved to
\* another policy: points and slots held for points never exceed it
\* (reserveBackupQuota, createRestorePoint, UpdatePolicy).
THEOREM HardMaximum ==
  ASSUME Switches = {}
  PROVE  Spec => []QuotaRespected
<1>1. Init => QuotaRespected
  <2> SUFFICES ASSUME Init
               PROVE  QuotaRespected
    OBVIOUS
  <2>1. Points = {} /\ Slots(resv) = {}
    BY ZenonT(60) DEF Init, Points, Slots, InFlight
  <2>2. Used(resv) = 0
    BY <2>1, FS_EmptySet DEF Used
  <2>3. count \in Nat
    BY CountsAssumption, ZenonT(60) DEF Init
  <2> QED
    BY <2>2, <2>3 DEF QuotaRespected
<1>2. IInv /\ QuotaRespected /\ [Next]_vars => QuotaRespected'
  BY QuotaStep, Zenon
<1> QED
  BY <1>1, <1>2, Invariance, PTL DEF Spec

=============================================================================
