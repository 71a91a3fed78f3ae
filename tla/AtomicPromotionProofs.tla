----------------------- MODULE AtomicPromotionProofs -----------------------
(***************************************************************************)
(* GoldenPromote implements AtomicPromotion, for every set of rotators and *)
(* candidates and any number of rotations and failures.  The lemmas first  *)
(* say what is shown while a rotator is before its outcome, at it, or none *)
(* has the lock; then each action is a step of the abstract specification. *)
(***************************************************************************)
EXTENDS GoldenPromoteProofs

USE PromoteAssumption DEF PromoteAssumption

USE DEF twinVars, backVars, tmpVars, rotVars, histVars, unitVars, Images, Content, Starting,
        Early, Locked, Shut, Goto, Ends, Freed, Fault, CleanTmps, SweepTemps

-----------------------------------------------------------------------------
(* What is shown *)

InTurn(r) == pc[r] \in Locked \ {"prune"}
NoTurn    == \A r \in Rotators : pc[r] \notin Locked
Verdict(r) == IF r \in lied THEN "misreported" ELSE res[r]

\* No rotator has the lock.
Idle == /\ GoldenShown = disk /\ BaseShown = ram
        /\ WantShown = [q \in Rotators |-> NoImage] /\ ToldShown = [q \in Rotators |-> "none"]

\* r promotes, and shows the twins it found.
Promoting(r) == /\ GoldenShown = was[r].disk /\ BaseShown = was[r].ram /\ cand[r] # NoImage
                /\ WantShown = [q \in Rotators |-> IF q = r THEN cand[r] ELSE NoImage]
                /\ ToldShown = [q \in Rotators |-> "none"]

\* r has its outcome, and shows the twins as they are.
Ended(r) == /\ GoldenShown = disk /\ BaseShown = ram
            /\ WantShown = [q \in Rotators |-> NoImage]
            /\ ToldShown = [q \in Rotators |-> IF q = r THEN Verdict(r) ELSE "none"]

LEMMA ShowsIdle ==
  ASSUME NoTurn
  PROVE  Idle
  BY DEF NoTurn, Idle, GoldenShown, BaseShown, WantShown, ToldShown, Half

LEMMA ShowsPromoting ==
  ASSUME PInv, NEW r \in Rotators, InTurn(r)
  PROVE  Promoting(r)
<1>1. \A q \in Rotators : q # r => pc[q] \notin Locked
  BY DEF InTurn, PInv, LockInv
<1>2. WantShown = [q \in Rotators |-> IF q = r THEN cand[r] ELSE NoImage]
  BY <1>1 DEF WantShown, InTurn
<1>3. ToldShown = [q \in Rotators |-> "none"]
  BY <1>1 DEF ToldShown, InTurn
<1>4. cand[r] # NoImage
  BY DEF InTurn, PInv, CopyInv
<1>5. GoldenShown = was[r].disk /\ BaseShown = was[r].ram
  <2>1. CASE Half(r)
    <3>1. Halfway \in Rotators /\ Half(Halfway)
      BY <2>1 DEF Halfway
    <3>2. Halfway = r
      BY <1>1, <3>1 DEF Half
    <3> QED
      BY <2>1, <3>2 DEF GoldenShown, BaseShown
  <2>2. CASE ~Half(r)
    <3>1. \A q \in Rotators : ~Half(q)
      BY <1>1, <2>2 DEF Half
    <3>2. disk = was[r].disk /\ ram = was[r].ram
      BY <2>2 DEF Half, InTurn, PInv, TwinInv
    <3> QED
      BY <3>1, <3>2 DEF GoldenShown, BaseShown
  <2> QED
    BY <2>1, <2>2
<1> QED
  BY <1>2, <1>3, <1>4, <1>5 DEF Promoting

LEMMA ShowsEnded ==
  ASSUME PInv, NEW r \in Rotators, pc[r] = "prune"
  PROVE  Ended(r)
<1>1. \A q \in Rotators : q # r => pc[q] \notin Locked
  BY DEF PInv, LockInv
<1> QED
  BY <1>1 DEF Ended, Verdict, GoldenShown, BaseShown, WantShown, ToldShown, Half

\* All three, of a state and of its successor.
Shown == /\ NoTurn => Idle
         /\ \A r \in Rotators : (InTurn(r) => Promoting(r)) /\ (pc[r] = "prune" => Ended(r))

LEMMA Shows == PInv => Shown
  BY ShowsIdle, ShowsPromoting, ShowsEnded DEF Shown

LEMMA ShowsAfter == PInv' => Shown'
  BY Shows, PTL

-----------------------------------------------------------------------------
(* Groups of steps *)

\* A step the abstract specification allows.
Allowed == [Atomic!AbsNext]_(Atomic!absVars)

Same(r) == /\ pc'[r] = pc[r] /\ cand'[r] = cand[r] /\ was'[r] = was[r]
           /\ res'[r] = res[r] /\ (r \in lied' <=> r \in lied)

\* Nobody who holds the lock moves, and the twins stay: nothing is shown.
LEMMA NothingShown ==
  ASSUME PInv, PInv', UNCHANGED <<disk, ram>>,
         \A q \in Rotators : /\ (pc'[q] \in Locked <=> pc[q] \in Locked)
                            /\ (pc[q] \in Locked => Same(q))
  PROVE  Allowed
<1>1. Shown /\ Shown'
  BY Shows, ShowsAfter
<1>2. CASE NoTurn
  <2>1. NoTurn'
    BY <1>2 DEF NoTurn
  <2> QED
    BY <1>1, <1>2, <2>1 DEF Shown, Idle, Allowed, Atomic!absVars
<1>3. ASSUME NEW r \in Rotators, InTurn(r) PROVE Allowed
  <2>1. InTurn(r)' /\ cand'[r] = cand[r] /\ was'[r] = was[r]
    BY <1>3 DEF InTurn, Same
  <2>2. Promoting(r) /\ Promoting(r)'
    BY <1>1, <1>3, <2>1 DEF Shown
  <2> QED
    BY <2>1, <2>2 DEF Promoting, Allowed, Atomic!absVars
<1>4. ASSUME NEW r \in Rotators, pc[r] = "prune" PROVE Allowed
  <2>1. pc'[r] = "prune" /\ Verdict(r)' = Verdict(r)
    BY <1>4 DEF Verdict, Same
  <2>2. Ended(r) /\ Ended(r)'
    BY <1>1, <1>4, <2>1 DEF Shown
  <2> QED
    BY <2>1, <2>2 DEF Ended, Allowed, Atomic!absVars
<1> QED
  BY <1>2, <1>3, <1>4 DEF NoTurn, InTurn

\* A rotation goes on: whatever it has written, it shows what it found.
LEMMA GoesOn ==
  ASSUME PInv, PInv', NEW r \in Rotators, InTurn(r), InTurn(r)', cand'[r] = cand[r], was'[r] = was[r]
  PROVE  Allowed
<1>1. Promoting(r) /\ Promoting(r)'
  BY Shows, ShowsAfter DEF Shown
<1> QED
  BY <1>1 DEF Promoting, Allowed, Atomic!absVars

\* It comes to its outcome: the twins are shown as it leaves them.
LEMMA ComesToEnd ==
  ASSUME PInv, PInv', NEW r \in Rotators, InTurn(r), pc'[r] = "prune",
         \/ Verdict(r)' = "promoted" /\ disk' = cand[r] /\ ram' = cand[r]
         \/ Verdict(r)' = "nothing" /\ disk' = was[r].disk /\ ram' = was[r].ram
         \/ Verdict(r)' = "split" /\ disk' = cand[r] /\ ram' = was[r].ram
         \/ /\ Verdict(r)' = "misreported"
            /\ disk' \in {was[r].disk, cand[r]} /\ ram' \in {was[r].ram, cand[r]}
  PROVE  Allowed
<1>1. Promoting(r) /\ Ended(r)'
  BY Shows, ShowsAfter DEF Shown
<1>2. Atomic!Ends(r, Verdict(r)')
  BY <1>1 DEF Promoting, Ended, Atomic!Ends
<1>3. GoldenShown' = disk' /\ BaseShown' = ram' /\ WantShown[r] = cand[r]
  BY <1>1 DEF Promoting, Ended
<1>4. GoldenShown = was[r].disk /\ BaseShown = was[r].ram
  BY <1>1 DEF Promoting
<1>5. Atomic!Promotes(r) \/ Atomic!ChangesNone(r) \/ Atomic!Splits(r) \/ Atomic!Misreports(r)
  BY <1>2, <1>3, <1>4 DEF Atomic!Promotes, Atomic!ChangesNone, Atomic!Splits, Atomic!Misreports
<1> QED
  BY <1>5 DEF Allowed, Atomic!AbsNext

\* Everybody is out of the lock when a rotation returns or dies with its outcome.
LEMMA GivesUp ==
  ASSUME PInv, PInv', NEW r \in Rotators, pc[r] = "prune", NoTurn', UNCHANGED <<disk, ram>>
  PROVE  Allowed
<1>1. Ended(r) /\ Idle'
  BY Shows, ShowsAfter DEF Shown
<1>2. Verdict(r) # "none"
  BY DEF Verdict, PInv, TypeOK, ProcessTypeOK
<1>3. Atomic!Returns(r)
  BY <1>1, <1>2 DEF Ended, Idle, Atomic!Returns
<1> QED
  BY <1>3 DEF Allowed, Atomic!AbsNext

\* It dies on the way: the disk twin may have been published, the RAM twin only after it.
LEMMA DiesHalfway ==
  ASSUME PInv, PInv', NEW r \in Rotators, InTurn(r), NoTurn', UNCHANGED <<disk, ram>>
  PROVE  Allowed
<1>1. Promoting(r) /\ Idle'
  BY Shows, ShowsAfter DEF Shown
<1>2. \/ disk = was[r].disk /\ ram = was[r].ram
      \/ disk = cand[r] /\ ram \in {was[r].ram, cand[r]}
  BY DEF PInv, TwinInv, InTurn
<1>3. Atomic!Killed(r)
  BY <1>1, <1>2 DEF Promoting, Idle, Atomic!Killed
<1> QED
  BY <1>3 DEF Allowed, Atomic!AbsNext

-----------------------------------------------------------------------------
(* The actions *)

LEMMA ShownInit == Init => Atomic!AbsInit
<1> SUFFICES ASSUME Init PROVE Atomic!AbsInit
  OBVIOUS
<1>1. Idle
  BY ShowsIdle DEF Init, NoTurn
<1> QED
  BY <1>1 DEF Init, Idle, Atomic!AbsInit

LEMMA BeginShown ==
  ASSUME PInv, PInv', NEW r \in Rotators, NEW c \in Candidates, NEW n, Begin(r, c, n)
  PROVE  Allowed
<1>1. NoTurn
  BY DEF NoTurn, Begin, PInv, LockInv
<1>2. InTurn(r)' /\ cand'[r] = c /\ was'[r] = [disk |-> disk, ram |-> ram]
  BY DEF InTurn, Begin, PInv, TypeOK, ProcessTypeOK
<1>3. Idle /\ Promoting(r)'
  BY <1>1, <1>2, Shows, ShowsAfter DEF Shown
<1>4. Atomic!Begin(r)
  BY <1>2, <1>3 DEF Idle, Promoting, Atomic!Begin, Atomic!Quiet
<1> QED
  BY <1>4 DEF Allowed, Atomic!AbsNext

LEMMA CopiesShown ==
  ASSUME PInv, PInv', NEW r \in Rotators,
         Check(r) \/ CopyDisk(r) \/ CopyRam(r) \/ BackupCopy(r) \/ BackupRename(r)
  PROVE  Allowed
<1>1. InTurn(r) /\ pc[r] \in Early
  BY DEF InTurn, Check, CopyDisk, CopyRam, BackupCopy, BackupRename
<1>2. UNCHANGED <<disk, ram, cand, was>>
  BY DEF Check, CopyDisk, CopyRam, BackupCopy, BackupRename
<1>3. InTurn(r)' \/ (pc'[r] = "prune" /\ res'[r] = "nothing")
  <2> r \in DOMAIN pc /\ r \in DOMAIN res
    BY DEF PInv, TypeOK, ProcessTypeOK
  <2>1. CASE Check(r)
    BY <2>1 DEF InTurn, Check
  <2>2. CASE CopyDisk(r)
    BY <2>2 DEF InTurn, CopyDisk
  <2>3. CASE CopyRam(r)
    BY <2>3 DEF InTurn, CopyRam
  <2>4. CASE BackupCopy(r)
    BY <2>4 DEF InTurn, BackupCopy
  <2>5. CASE BackupRename(r)
    BY <2>5 DEF InTurn, BackupRename
  <2> QED
    BY <2>1, <2>2, <2>3, <2>4, <2>5
<1>4. disk = was[r].disk /\ ram = was[r].ram
  BY <1>1 DEF PInv, TwinInv
<1>5. CASE InTurn(r)'
  BY <1>1, <1>2, <1>5, GoesOn
<1>6. CASE pc'[r] = "prune" /\ res'[r] = "nothing"
  <2>1. Verdict(r)' \in {"nothing", "misreported"}
    BY <1>6 DEF Verdict
  <2> QED
    BY <1>1, <1>2, <1>4, <1>6, <2>1, ComesToEnd
<1> QED
  BY <1>3, <1>5, <1>6

LEMMA MvDiskShown ==
  ASSUME PInv, PInv', NEW r \in Rotators, MvDisk(r)
  PROVE  Allowed
<1>1. InTurn(r) /\ cand'[r] = cand[r] /\ was'[r] = was[r]
  BY DEF InTurn, MvDisk
<1>2. disk = was[r].disk /\ ram = was[r].ram /\ tmpDisk = cand[r]
  BY DEF MvDisk, PInv, TwinInv, CopyInv
<1>3. PICK o \in Outcome : MvDisk(r)!2!(o)
  BY DEF MvDisk
<1>4. CASE o = "ok"
  BY <1>1, <1>3, <1>4, GoesOn DEF InTurn, PInv, TypeOK, ProcessTypeOK
<1>5. CASE o # "ok"
  <2>1. pc'[r] = "prune" /\ res'[r] = "nothing" /\ ram' = ram
    BY <1>3, <1>5 DEF MvDisk, PInv, TypeOK, ProcessTypeOK
  <2>2. \/ disk' = disk
        \/ disk' = cand[r] /\ r \in lied'
    BY <1>2, <1>3, <1>5 DEF Outcome
  <2>3. \/ Verdict(r)' = "nothing" /\ disk' = was[r].disk
        \/ Verdict(r)' = "misreported" /\ disk' \in {was[r].disk, cand[r]}
    BY <1>2, <2>1, <2>2 DEF Verdict
  <2> QED
    BY <1>1, <1>2, <2>1, <2>3, ComesToEnd
<1> QED
  BY <1>4, <1>5

LEMMA MvRamShown ==
  ASSUME PInv, PInv', NEW r \in Rotators, MvRam(r)
  PROVE  Allowed
<1>1. InTurn(r) /\ cand'[r] = cand[r] /\ was'[r] = was[r]
  BY DEF InTurn, MvRam
<1>2. disk = cand[r] /\ tmpRam = cand[r]
  BY DEF MvRam, PInv, TwinInv, CopyInv
<1>3. CASE pc'[r] = "rollback"
  BY <1>1, <1>3, GoesOn DEF InTurn
<1>4. CASE pc'[r] = "prune"
  <2>1. res'[r] = "promoted" /\ disk' = cand[r] /\ ram' = cand[r]
    BY <1>2, <1>4 DEF MvRam, PInv, TypeOK, ProcessTypeOK
  <2>2. Verdict(r)' \in {"promoted", "misreported"}
    BY <2>1 DEF Verdict
  <2> QED
    BY <1>1, <1>4, <2>1, <2>2, ComesToEnd
<1> QED
  BY <1>3, <1>4 DEF MvRam, PInv, TypeOK, ProcessTypeOK

LEMMA RollbackShown ==
  ASSUME PInv, PInv', NEW r \in Rotators, Rollback(r)
  PROVE  Allowed
<1>1. InTurn(r) /\ pc'[r] = "prune" /\ UNCHANGED <<ram, cand, was>>
  BY DEF InTurn, Rollback, RollbackFrom, PInv, TypeOK, ProcessTypeOK
<1>2. disk = cand[r] /\ (ram = was[r].ram \/ (r \in lied /\ ram = cand[r]))
  BY DEF Rollback, PInv, TwinInv
<1>3. lied \subseteq lied' /\ r \in DOMAIN res
  BY DEF Rollback, RollbackFrom, PInv, TypeOK, ProcessTypeOK
<1>4. \/ res'[r] = "split" /\ disk' = cand[r]
      \/ res'[r] = "nothing" /\ disk' = was[r].disk
      \/ r \in lied' /\ disk' \in {was[r].disk, cand[r]}
  <2>1. CASE \A b \in backups : b.at # bak[r]
    BY <1>2, <1>3, <2>1 DEF Rollback, RollbackFrom
  <2>2. ASSUME NEW b \in backups, NEW o \in Outcome, RollbackFrom(r, b, o)
        PROVE  \/ res'[r] = "split" /\ disk' = cand[r]
               \/ res'[r] = "nothing" /\ disk' = was[r].disk
               \/ r \in lied' /\ disk' \in {was[r].disk, cand[r]}
    <3>1. b.img = was[r].disk
      BY <2>2 DEF Rollback, RollbackFrom, PInv, BackupInv, BackupOf
    <3> QED
      BY <1>2, <1>3, <2>2, <3>1 DEF RollbackFrom, Outcome
  <2> QED
    BY <2>1, <2>2 DEF Rollback
<1>5. CASE r \in lied'
  <2>1. Verdict(r)' = "misreported" /\ disk' \in {was[r].disk, cand[r]}
    BY <1>4, <1>5 DEF Verdict
  <2> QED
    BY <1>1, <1>2, <2>1, ComesToEnd
<1>6. CASE r \notin lied'
  <2>1. ram' = was[r].ram /\ Verdict(r)' = res'[r]
    BY <1>1, <1>2, <1>3, <1>6 DEF Verdict
  <2> QED
    BY <1>1, <1>4, <1>6, <2>1, ComesToEnd
<1> QED
  BY <1>5, <1>6

\* The lock has one owner: when it is given up nobody has it.
LEMMA PruneShown ==
  ASSUME PInv, PInv', NEW r \in Rotators, Prune(r)
  PROVE  Allowed
<1>1. pc[r] = "prune" /\ UNCHANGED <<disk, ram>>
  BY DEF Prune
<1>2. NoTurn'
  BY DEF NoTurn, Prune, PInv, LockInv, TypeOK, ProcessTypeOK
<1> QED
  BY <1>1, <1>2, GivesUp

LEMMA RestartShown ==
  ASSUME PInv, PInv', NEW r \in Rotators, Restart(r) \/ Settle(r)
  PROVE  Allowed
<1>1. UNCHANGED <<disk, ram, cand, was, lied>>
  BY DEF Restart, Settle
<1>2. pc[r] \notin Locked /\ pc'[r] \notin Locked
  BY DEF Restart, Settle, PInv, TypeOK, ProcessTypeOK
<1>3. \A q \in Rotators : q # r => pc'[q] = pc[q] /\ res'[q] = res[q]
  BY DEF Restart, Settle, PInv, TypeOK, ProcessTypeOK
<1> QED
  BY <1>1, <1>2, <1>3, NothingShown DEF Same

LEMMA RotatorKilledShown ==
  ASSUME PInv, PInv', NEW r \in Rotators, RotatorKilled(r)
  PROVE  Allowed
<1>1. UNCHANGED <<disk, ram>> /\ pc' = [pc EXCEPT ![r] = "idle"]
  BY DEF RotatorKilled
<1>2. CASE pc[r] \in Locked
  <2>1. NoTurn'
    BY <1>1, <1>2 DEF NoTurn, PInv, LockInv, TypeOK, ProcessTypeOK
  <2> QED
    BY <1>1, <1>2, <2>1, GivesUp, DiesHalfway DEF InTurn
<1>3. CASE pc[r] \notin Locked
  <2>1. \A q \in Rotators : q # r => pc'[q] = pc[q] /\ Same(q)
    BY <1>1 DEF RotatorKilled, Forget, Same, PInv, TypeOK, ProcessTypeOK
  <2>2. pc'[r] \notin Locked
    BY <1>1 DEF PInv, TypeOK, ProcessTypeOK
  <2> QED
    BY <1>1, <1>3, <2>1, <2>2, NothingShown
<1> QED
  BY <1>2, <1>3

\* The unit writes the RAM twin only when no rotator has the lock.
LEMMA BaseShownRefilled ==
  ASSUME PInv, PInv', BaseCheck \/ BasePublish
  PROVE  Allowed
<1>1. NoTurn /\ NoTurn'
  BY DEF NoTurn, BaseCheck, BasePublish, PInv, LockInv
<1>2. Idle /\ Idle'
  BY <1>1, Shows, ShowsAfter DEF Shown
<1>3. Atomic!Quiet /\ UNCHANGED <<GoldenShown, WantShown, ToldShown>>
  BY <1>2 DEF Idle, Atomic!Quiet, BaseCheck, BasePublish
<1>4. \/ ram' = ram
      \/ disk # NoImage /\ ram' = NoImage
      \/ ram = NoImage /\ ram' = IF disk = NoImage THEN Master ELSE disk
  <2>1. CASE BaseCheck
    BY <2>1 DEF BaseCheck, BaseUsable
  <2>2. CASE BasePublish
    BY <2>2 DEF BasePublish, Outcome, PInv, UnitInv, Source, TypeOK, ProcessTypeOK
  <2> QED
    BY <2>1, <2>2
<1>5. BaseShown = ram /\ BaseShown' = ram' /\ GoldenShown = disk
  BY <1>2 DEF Idle
<1>6. UNCHANGED BaseShown \/ Atomic!Discards \/ Atomic!Refills
  BY <1>3, <1>4, <1>5 DEF Atomic!Discards, Atomic!Refills
<1> QED
  BY <1>3, <1>6 DEF Allowed, Atomic!AbsNext, Atomic!absVars

\* Steps that leave the twins and the rotators alone.
LEMMA OthersShown ==
  ASSUME PInv, PInv',
         \/ \E n \in {0} \cup {b.at : b \in backups} : Preflight(n)
         \/ UnitStart \/ UnitStop \/ UnitRetry \/ UnitLock \/ UnitLockTimeout \/ BaseCopy
         \/ UnitWarm \/ UnitDies \/ Chown \/ UNCHANGED vars
  PROVE  Allowed
<1>1. UNCHANGED <<disk, ram, pc, cand, was, res, lied>>
  BY DEF Preflight, UnitStart, UnitStop, UnitRetry, UnitLock, UnitLockTimeout, BaseCopy, UnitWarm,
         UnitDies, Chown, vars
<1> QED
  BY <1>1, NothingShown DEF Same

\* A reboot ends every rotation; the one between its renames has published the disk twin.
LEMMA RebootShown ==
  ASSUME PInv, PInv', Reboot
  PROVE  Allowed
<1>1. NoTurn' /\ disk' = disk /\ ram' = NoImage
  BY DEF NoTurn, Reboot
<1>2. Shown /\ Idle'
  BY <1>1, Shows, ShowsAfter DEF Shown
<1>3. disk = GoldenShown \/ \E r \in Rotators : WantShown[r] # NoImage /\ disk = WantShown[r]
  <2>1. CASE NoTurn
    BY <1>2, <2>1 DEF Shown, Idle
  <2>2. ASSUME NEW r \in Rotators, pc[r] = "prune" PROVE disk = GoldenShown
    BY <1>2, <2>2 DEF Shown, Ended
  <2>3. ASSUME NEW r \in Rotators, InTurn(r)
        PROVE  disk = GoldenShown \/ (WantShown[r] # NoImage /\ disk = WantShown[r])
    <3>1. Promoting(r)
      BY <1>2, <2>3 DEF Shown
    <3>2. disk \in {was[r].disk, cand[r]}
      BY <2>3 DEF InTurn, PInv, TwinInv
    <3> QED
      BY <3>1, <3>2 DEF Promoting
  <2> QED
    BY <2>1, <2>2, <2>3 DEF NoTurn, InTurn
<1>4. Atomic!Reboots
  BY <1>1, <1>2, <1>3 DEF Idle, Atomic!Reboots
<1> QED
  BY <1>4 DEF Allowed, Atomic!AbsNext

-----------------------------------------------------------------------------
(* The refinement *)

\* Every step is one of the abstract specification, or none.
LEMMA StepShown == PInv /\ PInv' /\ [Next]_vars => Allowed
<1> SUFFICES ASSUME PInv, PInv', [Next]_vars PROVE Allowed
  OBVIOUS
<1>1. ASSUME NEW r \in Rotators, NEW b \in backups, Begin(r, b.img, b.at) PROVE Allowed
  BY <1>1, BeginShown, BackupsKnown
<1>2. ASSUME NEW r \in Rotators, NEW c \in Candidates, Begin(r, c, 0) PROVE Allowed
  BY <1>2, BeginShown
<1>3. ASSUME NEW r \in Rotators, RotatorStep(r) PROVE Allowed
  BY <1>3, CopiesShown, MvDiskShown, MvRamShown, RollbackShown, PruneShown, RestartShown
     DEF RotatorStep
<1>4. CASE UnitStep
  BY <1>4, BaseShownRefilled, OthersShown DEF UnitStep
<1> QED
  BY <1>1, <1>2, <1>3, <1>4, RotatorKilledShown, OthersShown, RebootShown DEF Next

\* A promotion is one step on both twins, or none, as the outcome says, but for a split state,
\* a misreported command and a kill: what the other modules of the rotation take a promotion
\* to be is what rotate() does to whoever takes its lock next.
THEOREM PromoteImplementsAtomic == Spec => ImplementsAtomic
<1>1. PInv /\ PInv' /\ [Next]_vars => [Atomic!AbsNext]_(Atomic!absVars)
  BY StepShown DEF Allowed
<1> QED
  BY ShownInit, <1>1, PromoteInvariance, PTL DEF Spec, ImplementsAtomic, Atomic!AbsSpec

=============================================================================
