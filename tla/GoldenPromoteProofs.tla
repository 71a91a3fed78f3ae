------------------------ MODULE GoldenPromoteProofs ------------------------
(***************************************************************************)
(* Proofs about GoldenPromote, for every set of rotators and candidates,   *)
(* every GOLDEN_KEEP_N and any number of rotations and failures: PInv is   *)
(* inductive (a lemma per action), and the properties follow from it.      *)
(***************************************************************************)
EXTENDS GoldenPromote, FiniteSetTheorems, TLAPS

USE PromoteAssumption DEF PromoteAssumption

\* Notation is always expanded.
USE DEF twinVars, backVars, tmpVars, rotVars, histVars, unitVars, Images, Content, Starting,
        Early, Locked, Shut, Goto, Ends, Freed, Fault, CleanTmps, SweepTemps

\* A preflight prunes and sweeps while nobody publishes.
LEMMA PreflightStep ==
  ASSUME PInv, NEW n \in Nat, Preflight(n)
  PROVE  PInv'
<1>1. ImageTypeOK'
  BY DEF Preflight, ImageTypeOK, TypeOK, PInv
<1>2. WholeInv'
  BY DEF Preflight, WholeInv, PInv
<1>3. CopyInv'
  BY DEF Preflight, LockInv, CopyInv, PInv
<1>4. BackupInv'
  BY DEF Preflight, LockInv, BackupOf, BackupInv, PInv
<1>5. UnitInv'
  BY DEF Preflight, LockInv, UnitInv, PInv
<1>6. ProcessTypeOK' /\ LockInv' /\ TwinInv' /\ AgreeInv' /\ OutcomeTrue'
  BY DEF Preflight, ProcessTypeOK, TypeOK, OutcomeTrue, LockInv, TwinInv, AgreeInv, PInv
<1>. QED
  BY <1>1, <1>2, <1>3, <1>4, <1>5, <1>6 DEF PInv, TypeOK

\* A rotation starts from what it finds, with a whole candidate.
LEMMA BeginStep ==
  ASSUME PInv, NEW r \in Rotators, NEW i \in Candidates, NEW n \in 0..MaxRuns, Begin(r, i, n)
  PROVE  PInv'
<1>1. ProcessTypeOK'
  BY SMTT(30) DEF Begin, ImageTypeOK, ProcessTypeOK, TypeOK, PInv
<1>2. LockInv'
  BY DEF Begin, LockInv, PInv
<1>3. WholeInv'
  BY DEF Begin, ProcessTypeOK, TypeOK, WholeInv, PInv
<1>4. CopyInv'
  BY DEF Begin, ProcessTypeOK, TypeOK, CopyInv, PInv
<1>5. TwinInv'
  BY DEF Begin, ProcessTypeOK, TypeOK, TwinInv, PInv
<1>6. BackupInv'
  BY DEF Begin, ProcessTypeOK, TypeOK, LockInv, WholeInv, BackupOf, BackupInv, PInv
<1>7. AgreeInv'
  BY DEF Begin, AgreeInv, PInv
<1>8. OutcomeTrue'
  BY DEF Begin, OutcomeTrue, PInv
<1>9. ImageTypeOK' /\ UnitInv'
  BY DEF Begin, Source, ImageTypeOK, TypeOK, UnitInv, PInv
<1>. QED
  BY <1>1, <1>2, <1>3, <1>4, <1>5, <1>6, <1>7, <1>8, <1>9 DEF PInv, TypeOK

\* Nothing is published yet.
LEMMA CheckStep ==
  ASSUME PInv, NEW r \in Rotators, Check(r)
  PROVE  PInv'
<1>1. ImageTypeOK'
  BY DEF Check, ImageTypeOK, TypeOK, PInv
<1>2. ProcessTypeOK'
  BY SMTT(30) DEF Check, Backup, ImageTypeOK, ProcessTypeOK, TypeOK, PInv
<1>3. LockInv'
  BY DEF Check, ProcessTypeOK, TypeOK, LockInv, PInv
<1>4. CopyInv'
  BY DEF Check, ProcessTypeOK, TypeOK, LockInv, CopyInv, PInv
<1>5. TwinInv'
  BY DEF Check, ProcessTypeOK, TypeOK, TwinInv, PInv
<1>6. BackupInv'
  BY DEF Check, ProcessTypeOK, TypeOK, BackupOf, BackupInv, PInv
<1>7. AgreeInv'
  BY DEF Check, ProcessTypeOK, TypeOK, AgreeInv, PInv
<1>8. UnitInv'
  BY DEF Check, LockInv, UnitInv, PInv
<1>9. OutcomeTrue'
  BY DEF Check, ProcessTypeOK, TypeOK, OutcomeTrue, TwinInv, PInv
<1>10. WholeInv'
  BY DEF Check, WholeInv, PInv
<1>. QED
  BY <1>1, <1>2, <1>3, <1>4, <1>5, <1>6, <1>7, <1>8, <1>9, <1>10 DEF PInv, TypeOK

\* Only a whole copy goes on.
LEMMA CopyDiskStep ==
  ASSUME PInv, NEW r \in Rotators, CopyDisk(r)
  PROVE  PInv'
<1>1. ImageTypeOK'
  BY DEF CopyDisk, ImageTypeOK, ProcessTypeOK, TypeOK, PInv
<1>2. ProcessTypeOK'
  BY SMTT(30) DEF Rc, Copied, Checked, CopyDisk, ProcessTypeOK, TypeOK, PInv
<1>3. LockInv'
  BY DEF CopyDisk, ProcessTypeOK, TypeOK, LockInv, PInv
<1>4. CopyInv'
  BY DEF Checked, CopyDisk, ProcessTypeOK, TypeOK, LockInv, CopyInv, PInv
<1>5. TwinInv'
  BY DEF CopyDisk, ProcessTypeOK, TypeOK, TwinInv, PInv
<1>6. BackupInv'
  BY DEF CopyDisk, ProcessTypeOK, TypeOK, BackupOf, BackupInv, PInv
<1>7. AgreeInv'
  BY DEF CopyDisk, ProcessTypeOK, TypeOK, AgreeInv, PInv
<1>8. OutcomeTrue'
  BY DEF CopyDisk, ProcessTypeOK, TypeOK, OutcomeTrue, TwinInv, PInv
<1>9. WholeInv' /\ UnitInv'
  BY DEF CopyDisk, Source, WholeInv, UnitInv, PInv
<1>. QED
  BY <1>1, <1>2, <1>3, <1>4, <1>5, <1>6, <1>7, <1>8, <1>9 DEF PInv, TypeOK

\* Only a whole copy goes on.
LEMMA CopyRamStep ==
  ASSUME PInv, NEW r \in Rotators, CopyRam(r)
  PROVE  PInv'
<1>1. ImageTypeOK'
  BY DEF CopyRam, ImageTypeOK, ProcessTypeOK, TypeOK, PInv
<1>2. ProcessTypeOK'
  BY SMTT(30) DEF Copied, CopyRam, Backup, ImageTypeOK, ProcessTypeOK, TypeOK, PInv
<1>3. LockInv'
  BY DEF CopyRam, ProcessTypeOK, TypeOK, LockInv, PInv
<1>4. CopyInv'
  BY DEF Checked, CopyRam, ProcessTypeOK, TypeOK, LockInv, CopyInv, PInv
<1>5. TwinInv'
  BY DEF CopyRam, ProcessTypeOK, TypeOK, TwinInv, PInv
<1>6. BackupInv'
  BY DEF CopyRam, ProcessTypeOK, TypeOK, BackupOf, BackupInv, PInv
<1>7. AgreeInv'
  BY DEF CopyRam, ProcessTypeOK, TypeOK, AgreeInv, PInv
<1>8. OutcomeTrue'
  BY DEF CopyRam, ProcessTypeOK, TypeOK, OutcomeTrue, TwinInv, PInv
<1>9. WholeInv' /\ UnitInv'
  BY DEF CopyRam, Source, WholeInv, UnitInv, PInv
<1>. QED
  BY <1>1, <1>2, <1>3, <1>4, <1>5, <1>6, <1>7, <1>8, <1>9 DEF PInv, TypeOK

\* The backup is copied whole or not at all.
LEMMA BackupCopyStep ==
  ASSUME PInv, NEW r \in Rotators, BackupCopy(r)
  PROVE  PInv'
<1>1. ImageTypeOK'
  BY DEF BackupCopy, ImageTypeOK, TypeOK, PInv
<1>2. ProcessTypeOK'
  BY SMTT(30) DEF Rc, Copied, BackupCopy, Backup, ImageTypeOK, ProcessTypeOK, TypeOK, PInv
<1>3. LockInv'
  BY DEF BackupCopy, ProcessTypeOK, TypeOK, LockInv, PInv
<1>4. CopyInv'
  BY DEF Checked, BackupCopy, ProcessTypeOK, TypeOK, LockInv, CopyInv, PInv
<1>5. TwinInv'
  BY DEF BackupCopy, ProcessTypeOK, TypeOK, TwinInv, PInv
<1>6. BackupInv'
  BY DEF BackupCopy, Backup, ImageTypeOK, ProcessTypeOK, TypeOK, TwinInv, BackupOf, BackupInv,
         PInv
<1>7. AgreeInv'
  BY DEF BackupCopy, ProcessTypeOK, TypeOK, AgreeInv, PInv
<1>8. OutcomeTrue'
  BY DEF BackupCopy, ProcessTypeOK, TypeOK, OutcomeTrue, TwinInv, PInv
<1>9. WholeInv' /\ UnitInv'
  BY DEF BackupCopy, Source, WholeInv, UnitInv, PInv
<1>. QED
  BY <1>1, <1>2, <1>3, <1>4, <1>5, <1>6, <1>7, <1>8, <1>9 DEF PInv, TypeOK

\* The backup a rename keeps is newer than every other and is the golden found.
LEMMA BackupRenameBackups ==
  ASSUME PInv, NEW r \in Rotators, BackupRename(r)
  PROVE  BackupInv'
<1>1. /\ pc[r] = "keepBackup" /\ bak[r] = 0 /\ runs \notin kept
      /\ \A q \in Rotators : q # r => pc[q] \notin Locked
      /\ part = was[r].disk
      /\ runs \in 1..MaxRuns
      /\ \A b \in backups : b.at < runs /\ b.at \in 1..runs
  BY DEF BackupRename, PInv, TypeOK, ProcessTypeOK, LockInv, CopyInv, TwinInv, BackupInv,
         BackupOf, WholeInv
<1>2. UNCHANGED <<was, kept, runs>>
  BY DEF BackupRename
<1>3. BackupOf(r)'
  <2>1. PICK o \in Outcome :
          /\ backups' = IF o = "lost" THEN backups ELSE backups \cup {[img |-> part, at |-> runs]}
          /\ \/ o = "ok" /\ bak' = [bak EXCEPT ![r] = runs] /\ pc' = [pc EXCEPT ![r] = "mvDisk"]
             \/ o # "ok" /\ pc' = [pc EXCEPT ![r] = "prune"] /\ res' = [res EXCEPT ![r] = "nothing"]
    BY DEF BackupRename
  <2>2. CASE o = "ok"
    <3>1. pc'[r] = "mvDisk" /\ bak'[r] = runs
      BY <2>1, <2>2 DEF PInv, TypeOK, ProcessTypeOK
    <3>2. backups' = backups \cup {[img |-> was[r].disk, at |-> runs]}
      BY <1>1, <2>1, <2>2
    <3>3. \A b \in backups' : b.at = runs => b.img = was[r].disk
      BY <1>1, <3>2
    <3>4. \E b \in backups' : b.at = runs /\ b.img = was[r].disk
      <4>. DEFINE new == [img |-> was[r].disk, at |-> runs]
      <4>1. new \in backups' /\ new.at = runs /\ new.img = was[r].disk
        BY <3>2
      <4>. QED
        BY <4>1
    <3>. QED
      BY <1>1, <1>2, <3>1, <3>3, <3>4 DEF BackupOf
  <2>3. CASE o # "ok"
    BY <1>1, <1>2, <2>1, <2>3 DEF PInv, TypeOK, ProcessTypeOK, BackupOf
  <2>. QED
    BY <2>2, <2>3
<1>4. ASSUME NEW q \in Rotators, q # r PROVE BackupOf(q)'
  <2>1. pc'[q] = pc[q] /\ bak'[q] = bak[q]
    BY <1>4 DEF BackupRename, PInv, TypeOK, ProcessTypeOK
  <2>. QED
    BY <1>1, <1>2, <1>4, <2>1 DEF PInv, BackupInv, BackupOf
<1>. QED
  BY <1>3, <1>4 DEF BackupInv

\* The backup is the golden found.
LEMMA BackupRenameStep ==
  ASSUME PInv, NEW r \in Rotators, BackupRename(r)
  PROVE  PInv'
<1>1. ImageTypeOK'
  BY DEF BackupRename, Backup, ImageTypeOK, ProcessTypeOK, TypeOK, CopyInv, PInv
<1>2. ProcessTypeOK'
  BY DEF Outcome, Rename, BackupRename, ProcessTypeOK, TypeOK, PInv
<1>3. LockInv'
  BY DEF BackupRename, ProcessTypeOK, TypeOK, LockInv, PInv
<1>4. WholeInv'
  BY DEF BackupRename, WholeInv, CopyInv, PInv
<1>5. CopyInv'
  BY DEF BackupRename, ProcessTypeOK, TypeOK, LockInv, CopyInv, PInv
<1>6. TwinInv'
  BY DEF BackupRename, ProcessTypeOK, TypeOK, TwinInv, PInv
<1>7. BackupInv'
  BY BackupRenameBackups
<1>8. AgreeInv'
  BY DEF BackupRename, ProcessTypeOK, TypeOK, AgreeInv, PInv
<1>9. OutcomeTrue'
  BY DEF BackupRename, ProcessTypeOK, TypeOK, OutcomeTrue, TwinInv, PInv
<1>10. UnitInv'
  BY DEF BackupRename, Source, UnitInv, PInv
<1>. QED
  BY <1>1, <1>2, <1>3, <1>4, <1>5, <1>6, <1>7, <1>8, <1>9, <1>10 DEF PInv, TypeOK

\* The disk twin becomes the candidate.
LEMMA MvDiskStep ==
  ASSUME PInv, NEW r \in Rotators, MvDisk(r)
  PROVE  PInv'
<1>1. ImageTypeOK'
  BY DEF WithoutBackup, MvDisk, ImageTypeOK, TypeOK, PInv
<1>2. ProcessTypeOK'
  BY SMTT(30) DEF Rename, MvDisk, Backup, ImageTypeOK, ProcessTypeOK, TypeOK, PInv
<1>3. LockInv'
  BY DEF MvDisk, ProcessTypeOK, TypeOK, LockInv, PInv
<1>4. WholeInv'
  BY DEF WithoutBackup, MvDisk, WholeInv, CopyInv, PInv
<1>5. CopyInv'
  BY DEF MvDisk, ProcessTypeOK, TypeOK, LockInv, CopyInv, PInv
<1>6. TwinInv'
  BY DEF MvDisk, ProcessTypeOK, TypeOK, LockInv, CopyInv, TwinInv, PInv
<1>7. BackupInv'
  BY DEF MvDisk, ProcessTypeOK, TypeOK, LockInv, BackupOf, BackupInv, PInv
<1>8. AgreeInv'
  BY DEF Outcome, MvDisk, ProcessTypeOK, TypeOK, LockInv, TwinInv, AgreeInv, PInv
<1>9. UnitInv'
  BY DEF MvDisk, LockInv, UnitInv, PInv
<1>10. OutcomeTrue'
  BY DEF Outcome, MvDisk, ProcessTypeOK, TypeOK, OutcomeTrue, LockInv, TwinInv, PInv
<1>. QED
  BY <1>1, <1>2, <1>3, <1>4, <1>5, <1>6, <1>7, <1>8, <1>9, <1>10 DEF PInv, TypeOK

\* The RAM twin follows, or a rollback does.
LEMMA MvRamStep ==
  ASSUME PInv, NEW r \in Rotators, MvRam(r)
  PROVE  PInv'
<1>1. ImageTypeOK'
  BY DEF MvRam, ImageTypeOK, TypeOK, PInv
<1>2. ProcessTypeOK'
  BY DEF Rename, MvRam, ProcessTypeOK, TypeOK, PInv
<1>3. LockInv'
  BY DEF MvRam, LockInv, PInv
<1>4. WholeInv'
  BY DEF MvRam, WholeInv, CopyInv, PInv
<1>5. CopyInv'
  BY DEF MvRam, ProcessTypeOK, TypeOK, LockInv, CopyInv, PInv
<1>6. TwinInv'
  BY DEF Outcome, MvRam, ProcessTypeOK, TypeOK, LockInv, CopyInv, TwinInv, PInv
<1>7. BackupInv'
  BY DEF MvRam, BackupOf, BackupInv, PInv
<1>8. AgreeInv'
  BY DEF Outcome, MvRam, ProcessTypeOK, TypeOK, LockInv, CopyInv, TwinInv, Agree, AgreeInv, PInv
<1>9. UnitInv'
  BY DEF MvRam, LockInv, UnitInv, PInv
<1>10. OutcomeTrue'
  BY DEF MvRam, ProcessTypeOK, TypeOK, OutcomeTrue, LockInv, CopyInv, TwinInv, PInv
<1>. QED
  BY <1>1, <1>2, <1>3, <1>4, <1>5, <1>6, <1>7, <1>8, <1>9, <1>10 DEF PInv, TypeOK

\* A rollback puts back the image of a backup; nothing else appears anywhere.
LEMMA RollbackTypes ==
  ASSUME PInv, NEW r \in Rotators, Rollback(r)
  PROVE  ImageTypeOK' /\ ProcessTypeOK' /\ WholeInv'
<1>1. /\ disk' \in Candidates \cup {NoImage}
      /\ backups' \subseteq backups
      /\ \A n \in kept' : n \in kept \/ n \in 1..runs
      /\ lied' \subseteq lied \cup {r} /\ twins' \in {twins, "apart"}
      /\ faults' \in 0..MaxFaults
      /\ pc' = [pc EXCEPT ![r] = "prune"]
      /\ \E out \in {"nothing", "split"} : res' = [res EXCEPT ![r] = out]
  <2>1. CASE \E b \in backups, o \in Outcome : RollbackFrom(r, b, o)
    BY <2>1 DEF RollbackFrom, WithoutBackup, Rename, PInv, TypeOK, ProcessTypeOK, WholeInv
  <2>2. CASE ~\E b \in backups, o \in Outcome : RollbackFrom(r, b, o)
    BY <2>2 DEF Rollback, PInv, TypeOK, ProcessTypeOK, WholeInv
  <2>. QED
    BY <2>1, <2>2
<1>2. UNCHANGED <<ram, owner, part, tmpVars, lock, cand, src, bak, was, unitVars, runs>>
  BY DEF Rollback
<1>3. ImageTypeOK' /\ WholeInv'
  <2>1. runs \in 0..MaxRuns
    BY DEF PInv, TypeOK, ProcessTypeOK
  <2>2. \A n \in kept : n \in 1..runs
    BY DEF PInv, WholeInv
  <2>3. \A n \in kept' : n \in 1..runs
    BY <1>1, <2>2
  <2>4. 1..runs \subseteq 1..MaxRuns
    BY <2>1
  <2>5. kept' \subseteq 1..MaxRuns /\ \A n \in kept' : n \in 1..runs
    BY <2>3, <2>4
  <2>6. disk' \in Content
    BY <1>1
  <2>7. backups \subseteq Backup /\ backups' \subseteq backups
    BY <1>1 DEF PInv, TypeOK, ImageTypeOK
  <2>8. ImageTypeOK'
    BY <1>2, <2>5, <2>6, <2>7 DEF PInv, TypeOK, ImageTypeOK
  <2>9. WholeInv'
    BY <1>1, <1>2, <2>5, <2>7 DEF PInv, WholeInv
  <2>. QED
    BY <2>8, <2>9
<1>4. ProcessTypeOK'
  BY <1>1, <1>2 DEF PInv, TypeOK, ProcessTypeOK
<1>. QED
  BY <1>3, <1>4

\* The disk twin is what it was, or the split state is said.
LEMMA RollbackStep ==
  ASSUME PInv, NEW r \in Rotators, Rollback(r)
  PROVE  PInv'
<1>1. ImageTypeOK'
  BY RollbackTypes
<1>2. ProcessTypeOK'
  BY RollbackTypes
<1>3. LockInv'
  BY DEF RollbackFrom, Rollback, ProcessTypeOK, TypeOK, LockInv, PInv
<1>4. WholeInv'
  BY RollbackTypes
<1>5. CopyInv'
  BY DEF RollbackFrom, Rollback, ProcessTypeOK, TypeOK, LockInv, CopyInv, PInv
<1>6. TwinInv'
  BY DEF RollbackFrom, Rollback, ProcessTypeOK, TypeOK, LockInv, TwinInv, PInv
<1>7. BackupInv'
  BY DEF RollbackFrom, Rollback, ProcessTypeOK, TypeOK, LockInv, BackupOf, BackupInv, PInv
<1>8. AgreeInv'
  BY DEF RollbackFrom, Rollback, ProcessTypeOK, TypeOK, BackupOf, BackupInv, AgreeInv, PInv
<1>9. UnitInv'
  BY DEF Rollback, LockInv, UnitInv, PInv
<1>10. OutcomeTrue'
  BY DEF Outcome, RollbackFrom, Rollback, ProcessTypeOK, TypeOK, OutcomeTrue, LockInv, TwinInv,
         BackupOf, BackupInv, PInv
<1>. QED
  BY <1>1, <1>2, <1>3, <1>4, <1>5, <1>6, <1>7, <1>8, <1>9, <1>10 DEF PInv, TypeOK

\* The rotation is over and its locals are gone.
LEMMA PruneStep ==
  ASSUME PInv, NEW r \in Rotators, Prune(r)
  PROVE  PInv'
<1>1. ImageTypeOK'
  BY DEF Prune, ImageTypeOK, TypeOK, PInv
<1>2. ProcessTypeOK'
  BY DEF NoTwins, Forget, Prune, ProcessTypeOK, TypeOK, PInv
<1>3. LockInv'
  BY DEF Prune, ProcessTypeOK, TypeOK, LockInv, PInv
<1>4. WholeInv'
  BY DEF Prune, WholeInv, PInv
<1>5. CopyInv'
  BY DEF Forget, Prune, ProcessTypeOK, TypeOK, CopyInv, PInv
<1>6. TwinInv'
  BY DEF Forget, Prune, TwinInv, PInv
<1>7. BackupInv'
  BY DEF NoTwins, Forget, Prune, LockInv, BackupOf, BackupInv, PInv
<1>8. AgreeInv'
  BY DEF Forget, Prune, AgreeInv, PInv
<1>9. OutcomeTrue'
  BY DEF Forget, Prune, ProcessTypeOK, TypeOK, OutcomeTrue, PInv
<1>10. UnitInv'
  BY DEF Prune, Source, UnitInv, PInv
<1>. QED
  BY <1>1, <1>2, <1>3, <1>4, <1>5, <1>6, <1>7, <1>8, <1>9, <1>10 DEF PInv, TypeOK

\* A restart touches no image.
LEMMA RestartStep ==
  ASSUME PInv, NEW r \in Rotators, Restart(r)
  PROVE  PInv'
<1>1. ImageTypeOK'
  BY DEF CutShort, Restart, ImageTypeOK, TypeOK, PInv
<1>2. ProcessTypeOK'
  BY SMTT(30) DEF CutShort, Restart, Backup, ImageTypeOK, ProcessTypeOK, TypeOK, PInv
<1>3. LockInv'
  BY DEF Restart, ProcessTypeOK, TypeOK, LockInv, PInv
<1>4. WholeInv'
  BY DEF Restart, WholeInv, PInv
<1>5. CopyInv'
  BY DEF Restart, ProcessTypeOK, TypeOK, CopyInv, PInv
<1>6. TwinInv'
  BY DEF Restart, ProcessTypeOK, TypeOK, TwinInv, PInv
<1>7. BackupInv'
  BY DEF Restart, ProcessTypeOK, TypeOK, BackupOf, BackupInv, PInv
<1>8. AgreeInv'
  BY DEF Restart, ProcessTypeOK, TypeOK, AgreeInv, PInv
<1>9. UnitInv'
  BY DEF Restart, Source, UnitInv, PInv
<1>10. OutcomeTrue'
  BY DEF Restart, ProcessTypeOK, TypeOK, OutcomeTrue, PInv
<1>. QED
  BY <1>1, <1>2, <1>3, <1>4, <1>5, <1>6, <1>7, <1>8, <1>9, <1>10 DEF PInv, TypeOK

\* Waiting touches nothing.
LEMMA SettleStep ==
  ASSUME PInv, NEW r \in Rotators, Settle(r)
  PROVE  PInv'
<1>1. ProcessTypeOK'
  BY DEF Settle, ProcessTypeOK, TypeOK, PInv
<1>2. LockInv'
  BY DEF Settle, LockInv, PInv
<1>3. CopyInv'
  BY DEF Settle, CopyInv, PInv
<1>4. TwinInv'
  BY DEF Settle, TwinInv, PInv
<1>5. BackupInv'
  BY DEF Settle, ProcessTypeOK, TypeOK, BackupOf, BackupInv, PInv
<1>6. AgreeInv'
  BY DEF Settle, AgreeInv, PInv
<1>7. OutcomeTrue'
  BY DEF Settle, ProcessTypeOK, TypeOK, OutcomeTrue, PInv
<1>8. ImageTypeOK' /\ WholeInv' /\ UnitInv'
  BY DEF Settle, Source, ImageTypeOK, TypeOK, WholeInv, UnitInv, PInv
<1>. QED
  BY <1>1, <1>2, <1>3, <1>4, <1>5, <1>6, <1>7, <1>8 DEF PInv, TypeOK

\* A kill leaves temporaries and says so if the twins may be apart.
LEMMA RotatorKilledStep ==
  ASSUME PInv, NEW r \in Rotators, RotatorKilled(r)
  PROVE  PInv'
<1>1. ImageTypeOK'
  BY DEF CutShort, RotatorKilled, ImageTypeOK, TypeOK, PInv
<1>2. ProcessTypeOK'
  BY DEF NoTwins, Forget, RotatorKilled, ProcessTypeOK, TypeOK, PInv
<1>3. LockInv'
  BY DEF RotatorKilled, ProcessTypeOK, TypeOK, LockInv, PInv
<1>4. CopyInv'
  BY DEF CutShort, Forget, RotatorKilled, ProcessTypeOK, TypeOK, LockInv, CopyInv, PInv
<1>5. TwinInv'
  BY DEF Forget, RotatorKilled, ProcessTypeOK, TypeOK, TwinInv, PInv
<1>6. BackupInv'
  BY DEF NoTwins, Forget, RotatorKilled, Backup, ImageTypeOK, TypeOK, BackupOf, BackupInv, PInv
<1>7. AgreeInv'
  BY DEF Forget, RotatorKilled, AgreeInv, PInv
<1>8. OutcomeTrue'
  BY DEF Forget, RotatorKilled, ProcessTypeOK, TypeOK, OutcomeTrue, PInv
<1>9. WholeInv' /\ UnitInv'
  BY DEF RotatorKilled, Source, WholeInv, UnitInv, PInv
<1>. QED
  BY <1>1, <1>2, <1>3, <1>4, <1>5, <1>6, <1>7, <1>8, <1>9 DEF PInv, TypeOK

\* The unit's own temporary is the only image file these steps leave changed.
LEMMA UnitQuietImages == ASSUME PInv, \/ UnitStart \/ UnitStop \/ UnitRetry \/ UnitLock
                  \/ UnitLockTimeout \/ UnitWarm \/ UnitDies
  PROVE ImageTypeOK'
<1>1. tmpUnit' \in {tmpUnit, Torn} /\ UNCHANGED <<disk, ram, owner, backups, kept, part, tmpDisk, tmpRam>>
  BY DEF UnitStart, UnitStop, UnitRetry, UnitLock, UnitLockTimeout, UnitWarm, UnitDies, CutShort
<1>. QED
  BY <1>1 DEF PInv, TypeOK, ImageTypeOK

\* The unit's steps that write no image.
LEMMA UnitQuietStep ==
  ASSUME PInv, \/ UnitStart \/ UnitStop \/ UnitRetry \/ UnitLock
                  \/ UnitLockTimeout \/ UnitWarm \/ UnitDies
  PROVE  PInv'
<1>1. ImageTypeOK'
  BY UnitQuietImages
<1>2. ProcessTypeOK'
  BY SMTT(30) DEF StartFails, UnitRetry, UnitStart, UnitStop, UnitLock, UnitLockTimeout,
         UnitWarm, UnitDies, ImageTypeOK, ProcessTypeOK, TypeOK, PInv
<1>3. LockInv'
  BY DEF StartFails, UnitRetry, UnitStart, UnitStop, UnitLock, UnitLockTimeout, UnitWarm,
         UnitDies, LockInv, PInv
<1>4. WholeInv'
  BY DEF StartFails, UnitRetry, UnitStart, UnitStop, UnitLock, UnitLockTimeout, UnitWarm,
         UnitDies, WholeInv, PInv
<1>5. UnitInv'
  BY DEF StartFails, UnitRetry, UnitStart, UnitStop, UnitLock, UnitLockTimeout, UnitWarm,
         UnitDies, UnitInv, PInv
<1>6. CopyInv' /\ TwinInv' /\ BackupInv' /\ AgreeInv' /\ OutcomeTrue'
  BY DEF UnitRetry, UnitStart, UnitStop, UnitLock, UnitLockTimeout, UnitWarm, UnitDies, TypeOK,
         OutcomeTrue, CopyInv, TwinInv, BackupOf, BackupInv, AgreeInv, PInv
<1>. QED
  BY <1>1, <1>2, <1>3, <1>4, <1>5, <1>6 DEF PInv, TypeOK

\* A base is discarded only when it can be made afresh.
LEMMA BaseCheckStep ==
  ASSUME PInv, BaseCheck
  PROVE  PInv'
<1>1. ImageTypeOK'
  BY DEF BaseCheck, ImageTypeOK, TypeOK, PInv
<1>2. ProcessTypeOK'
  BY DEF StartFails, BaseCheck, ProcessTypeOK, TypeOK, PInv
<1>3. LockInv'
  BY DEF StartFails, BaseCheck, LockInv, PInv
<1>4. WholeInv'
  BY DEF StartFails, BaseCheck, WholeInv, PInv
<1>5. TwinInv'
  BY DEF BaseCheck, LockInv, TwinInv, PInv
<1>6. AgreeInv'
  BY DEF BaseCheck, LockInv, Agree, AgreeInv, PInv
<1>7. UnitInv'
  BY DEF StartFails, BaseCheck, UnitInv, PInv
<1>8. OutcomeTrue'
  BY DEF BaseCheck, OutcomeTrue, LockInv, PInv
<1>9. CopyInv' /\ BackupInv'
  BY DEF BaseCheck, CopyInv, BackupOf, BackupInv, PInv
<1>. QED
  BY <1>1, <1>2, <1>3, <1>4, <1>5, <1>6, <1>7, <1>8, <1>9 DEF PInv, TypeOK

\* The pre-start goes on with a whole copy only.
LEMMA BaseCopyStep ==
  ASSUME PInv, BaseCopy
  PROVE  PInv'
<1>1. ImageTypeOK'
  BY DEF Source, BaseCopy, ImageTypeOK, TypeOK, PInv
<1>2. ProcessTypeOK'
  BY DEF Copied, StartFails, BaseCopy, ProcessTypeOK, TypeOK, PInv
<1>3. LockInv'
  BY DEF StartFails, BaseCopy, LockInv, PInv
<1>4. WholeInv'
  BY DEF StartFails, BaseCopy, WholeInv, PInv
<1>5. UnitInv'
  BY DEF Checked, StartFails, Source, BaseCopy, UnitInv, PInv
<1>6. CopyInv' /\ TwinInv' /\ BackupInv' /\ AgreeInv' /\ OutcomeTrue'
  BY DEF BaseCopy, OutcomeTrue, CopyInv, TwinInv, BackupOf, BackupInv, AgreeInv, PInv
<1>. QED
  BY <1>1, <1>2, <1>3, <1>4, <1>5, <1>6 DEF PInv, TypeOK

\* The pre-start publishes the source it chose.
LEMMA BasePublishStep ==
  ASSUME PInv, BasePublish
  PROVE  PInv'
<1>1. ImageTypeOK'
  BY DEF BasePublish, ImageTypeOK, TypeOK, PInv
<1>2. ProcessTypeOK'
  BY DEF Rename, StartFails, BasePublish, ProcessTypeOK, TypeOK, PInv
<1>3. LockInv'
  BY DEF StartFails, BasePublish, LockInv, PInv
<1>4. WholeInv'
  BY DEF StartFails, Source, BasePublish, WholeInv, UnitInv, PInv
<1>5. TwinInv'
  BY DEF BasePublish, LockInv, TwinInv, PInv
<1>6. AgreeInv'
  BY DEF Source, BasePublish, ProcessTypeOK, TypeOK, LockInv, Agree, AgreeInv, UnitInv, PInv
<1>7. UnitInv'
  BY DEF StartFails, BasePublish, UnitInv, PInv
<1>8. OutcomeTrue'
  BY DEF BasePublish, OutcomeTrue, LockInv, PInv
<1>9. CopyInv' /\ BackupInv'
  BY DEF BasePublish, CopyInv, BackupOf, BackupInv, PInv
<1>. QED
  BY <1>1, <1>2, <1>3, <1>4, <1>5, <1>6, <1>7, <1>8, <1>9 DEF PInv, TypeOK

\* The owner is no image.
LEMMA ChownStep ==
  ASSUME PInv, Chown
  PROVE  PInv'
<1>1. ImageTypeOK'
  BY DEF Chown, ImageTypeOK, TypeOK, PInv
<1>2. ProcessTypeOK'
  BY DEF Chown, ProcessTypeOK, TypeOK, PInv
<1>3. LockInv' /\ WholeInv' /\ CopyInv' /\ TwinInv' /\ BackupInv' /\ AgreeInv' /\ UnitInv' /\ OutcomeTrue'
  BY DEF Chown, OutcomeTrue, LockInv, WholeInv, CopyInv, TwinInv, BackupOf, BackupInv,
         AgreeInv, UnitInv, PInv
<1>. QED
  BY <1>1, <1>2, <1>3 DEF PInv, TypeOK

\* A reboot leaves no RAM twin and no process.
LEMMA RebootStep ==
  ASSUME PInv, Reboot
  PROVE  PInv'
<1>1. ImageTypeOK'
  BY DEF CutShort, Reboot, ImageTypeOK, TypeOK, PInv
<1>2. ProcessTypeOK'
  BY DEF NoTwins, Forget, Reboot, ProcessTypeOK, TypeOK, PInv
<1>3. LockInv'
  BY DEF Reboot, LockInv, PInv
<1>4. WholeInv'
  BY DEF Reboot, WholeInv, PInv
<1>5. CopyInv'
  BY DEF Reboot, CopyInv, PInv
<1>6. TwinInv'
  BY DEF Reboot, TwinInv, PInv
<1>7. BackupInv'
  BY DEF Forget, Reboot, BackupOf, BackupInv, PInv
<1>8. AgreeInv'
  BY DEF Reboot, Agree, AgreeInv, PInv
<1>9. UnitInv'
  BY DEF Reboot, UnitInv, PInv
<1>10. OutcomeTrue'
  BY DEF Reboot, OutcomeTrue, PInv
<1>. QED
  BY <1>1, <1>2, <1>3, <1>4, <1>5, <1>6, <1>7, <1>8, <1>9, <1>10 DEF PInv, TypeOK

\* The invariant holds on every host the program may start on.
LEMMA PInit == Init => PInv
<1>. SUFFICES ASSUME Init PROVE PInv
  OBVIOUS
<1>1. ImageTypeOK /\ WholeInv
  BY DEF Init, ImageTypeOK, WholeInv
<1>2. ProcessTypeOK
  BY DEF Init, NoTwins, ProcessTypeOK
<1>3. LockInv /\ CopyInv /\ TwinInv /\ BackupInv /\ OutcomeTrue
  BY DEF Init, LockInv, CopyInv, TwinInv, BackupInv, BackupOf, OutcomeTrue
<1>4. AgreeInv /\ UnitInv
  BY DEF Init, AgreeInv, Agree, UnitInv
<1>. QED
  BY <1>1, <1>2, <1>3, <1>4 DEF PInv, TypeOK

\* A rotator's step, from its beginning on.
LEMMA RotatorNext ==
  ASSUME PInv, NEW r \in Rotators, RotatorStep(r) \/ RotatorKilled(r)
  PROVE  PInv'
BY CheckStep, CopyDiskStep, CopyRamStep, BackupCopyStep, BackupRenameStep, MvDiskStep, MvRamStep,
   RollbackStep, PruneStep, RestartStep, SettleStep, RotatorKilledStep DEF RotatorStep

\* A step of the unit.
LEMMA UnitNext ==
  ASSUME PInv, UnitStart \/ UnitStop \/ UnitStep \/ UnitLockTimeout \/ UnitDies
  PROVE  PInv'
BY UnitQuietStep, BaseCheckStep, BaseCopyStep, BasePublishStep DEF UnitStep

\* Every backup is of a gated image and of a past rotation.
LEMMA BackupsKnown ==
  ASSUME PInv, NEW b \in backups
  PROVE  b.img \in Candidates /\ b.at \in 1..runs /\ b.at \in 0..MaxRuns
<1>1. b.img \in Candidates /\ b.at \in 1..runs /\ runs \in 0..MaxRuns
  BY DEF PInv, WholeInv, TypeOK, ProcessTypeOK
<1>. QED
  BY <1>1

\* Every step preserves the invariant.
LEMMA PStep == PInv /\ [Next]_vars => PInv'
<1>. SUFFICES ASSUME PInv, [Next]_vars PROVE PInv'
  OBVIOUS
<1>1. ASSUME NEW n \in {0} \cup {b.at : b \in backups}, Preflight(n) PROVE PInv'
  <2>1. n \in Nat
    BY BackupsKnown
  <2>. QED
    BY <1>1, <2>1, PreflightStep
<1>2. ASSUME NEW r \in Rotators, NEW c \in Candidates, Begin(r, c, 0) PROVE PInv'
  BY <1>2, BeginStep
<1>3. ASSUME NEW r \in Rotators, NEW b \in backups, Begin(r, b.img, b.at) PROVE PInv'
  BY <1>3, BeginStep, BackupsKnown
<1>4. CASE UNCHANGED vars
  BY <1>4 DEF vars, PInv, TypeOK, ImageTypeOK, ProcessTypeOK, LockInv, WholeInv, CopyInv, TwinInv,
              BackupInv, BackupOf, AgreeInv, Agree, UnitInv, Source, OutcomeTrue
<1>. QED
  BY <1>1, <1>2, <1>3, <1>4, RotatorNext, UnitNext, ChownStep, RebootStep DEF Next

-----------------------------------------------------------------------------
\* PInv is an invariant: what a rotation has published, copied and backed up at each of its
\* steps, whoever else runs and whatever fails.
THEOREM PromoteInvariance == Spec => []PInv
BY PInit, PStep, PTL DEF Spec

\* The state is well typed.
THEOREM PromoteTypes == Spec => []TypeOK
<1>1. PInv => TypeOK
  BY DEF PInv
<1>. QED
  BY <1>1, PromoteInvariance, PTL

\* No short copy is ever a base, a backup or what workers are cloned from.
THEOREM PromotePublishesWhole == Spec => []PublishedWhole
<1>1. PInv => PublishedWhole
  BY DEF PInv, WholeInv, PublishedWhole
<1>. QED
  BY <1>1, PromoteInvariance, PTL

\* A rotation's outcome says what became of the twins.
THEOREM PromoteTellsTruth == Spec => []OutcomeTrue
<1>1. PInv => OutcomeTrue
  BY DEF PInv
<1>. QED
  BY <1>1, PromoteInvariance, PTL

\* While nobody publishes the RAM twin is the disk twin or missing, unless a split state or a
\* kill said otherwise.
THEOREM PromoteTwinsAgree == Spec => []RamFollowsDisk
<1>1. PInv => RamFollowsDisk
  BY DEF PInv, LockInv, AgreeInv, Agree, RamFollowsDisk
<1>. QED
  BY <1>1, PromoteInvariance, PTL

-----------------------------------------------------------------------------
(* Which steps reach the backups and the RAM twin *)

\* Backups go by a preflight's or a rotation's prune, or by the rotation that took them.
LEMMA BackupsChange ==
  ASSUME PInv, [Next]_vars
  PROVE  \/ backups \subseteq backups'
         \/ lock = Free /\ \E n \in Nat : backups' = backups \ Surplus({n})
         \/ \E r \in Rotators : Prune(r)
         \/ \E r \in Rotators :
              pc[r] \in {"mvDisk", "rollback"} /\ backups' = WithoutBackup(bak[r])
<1>1. ASSUME NEW n \in {0} \cup {b.at : b \in backups}, Preflight(n)
      PROVE  lock = Free /\ \E k \in Nat : backups' = backups \ Surplus({k})
  <2>1. n \in Nat
    BY BackupsKnown
  <2>. QED
    BY <1>1, <2>1 DEF Preflight
<1>2. ASSUME NEW r \in Rotators, NEW i, NEW n, Begin(r, i, n) PROVE backups \subseteq backups'
  BY <1>2 DEF Begin
<1>3. ASSUME NEW r \in Rotators, RotatorStep(r) \/ RotatorKilled(r)
      PROVE  \/ backups \subseteq backups'
             \/ Prune(r)
             \/ pc[r] \in {"mvDisk", "rollback"} /\ backups' = WithoutBackup(bak[r])
  <2>1. CASE Check(r) \/ CopyDisk(r) \/ CopyRam(r) \/ BackupCopy(r) \/ BackupRename(r) \/ MvRam(r)
    BY <2>1 DEF Check, CopyDisk, CopyRam, BackupCopy, BackupRename, MvRam
  <2>2. CASE MvDisk(r)
    BY <2>2 DEF MvDisk
  <2>3. CASE Rollback(r)
    BY <2>3 DEF Rollback, RollbackFrom
  <2>4. CASE Restart(r) \/ Settle(r) \/ RotatorKilled(r)
    BY <2>4 DEF Restart, Settle, RotatorKilled
  <2>. QED
    BY <1>3, <2>1, <2>2, <2>3, <2>4 DEF RotatorStep
<1>4. ASSUME UnitStart \/ UnitStop \/ UnitStep \/ UnitLockTimeout \/ UnitDies
      PROVE  backups' = backups
  BY <1>4 DEF UnitStart, UnitStop, UnitStep, UnitLockTimeout, UnitDies, UnitRetry, UnitLock,
              BaseCheck, BaseCopy, BasePublish, UnitWarm
<1>5. Chown \/ Reboot \/ UNCHANGED vars => backups' = backups
  BY DEF Chown, Reboot, vars
<1>. QED
  BY <1>1, <1>2, <1>3, <1>4, <1>5 DEF Next

\* The RAM twin is written by a rotation's publish, a pre-start and a reboot.
LEMMA RamChanges ==
  ASSUME [Next]_vars
  PROVE  ram' = ram \/ (\E r \in Rotators : MvRam(r)) \/ BaseCheck \/ BasePublish \/ Reboot
<1>1. ASSUME NEW n, Preflight(n) PROVE ram' = ram
  BY <1>1 DEF Preflight
<1>2. ASSUME NEW r, NEW i, NEW n, Begin(r, i, n) PROVE ram' = ram
  BY <1>2 DEF Begin
<1>3. ASSUME NEW r \in Rotators, RotatorStep(r) \/ RotatorKilled(r) PROVE ram' = ram \/ MvRam(r)
  BY <1>3 DEF RotatorStep, Check, CopyDisk, CopyRam, BackupCopy, BackupRename, MvDisk, Rollback,
              Prune, Restart, Settle, RotatorKilled
<1>4. ASSUME UnitStart \/ UnitStop \/ UnitStep \/ UnitLockTimeout \/ UnitDies
      PROVE  ram' = ram \/ BaseCheck \/ BasePublish
  BY <1>4 DEF UnitStart, UnitStop, UnitStep, UnitLockTimeout, UnitDies, UnitRetry, UnitLock,
              BaseCopy, UnitWarm
<1>5. Chown \/ UNCHANGED vars => ram' = ram
  BY DEF Chown, vars
<1>. QED
  BY <1>1, <1>2, <1>3, <1>4, <1>5 DEF Next

\* A rotation that ends as promoted ends with its prune.
LEMMA RestartAfterPrune ==
  ASSUME PInv, [Next]_vars, NEW r \in Rotators, pc[r] = "prune", pc'[r] = "restart"
  PROVE  Prune(r)
<1>. USE DEF PInv, TypeOK, ProcessTypeOK
<1>1. ASSUME NEW q \in Rotators, RotatorStep(q) \/ RotatorKilled(q) PROVE Prune(r)
  <2>1. CASE q = r
    BY <1>1, <2>1 DEF RotatorStep, Check, CopyDisk, CopyRam, BackupCopy, BackupRename, MvDisk,
                      MvRam, Rollback, Restart, Settle, RotatorKilled
  <2>2. CASE q # r
    <3>1. pc'[r] = pc[r]
      BY <1>1, <2>2 DEF RotatorStep, Check, CopyDisk, CopyRam, BackupCopy, BackupRename, MvDisk,
                        MvRam, Rollback, RollbackFrom, Prune, Restart, Settle, RotatorKilled
    <3>. QED
      BY <3>1
  <2>. QED
    BY <2>1, <2>2
<1>2. ASSUME NEW q \in Rotators, NEW i, NEW n, Begin(q, i, n) PROVE pc'[r] # "restart"
  BY <1>2 DEF Begin
<1>3. ASSUME NEW n, Preflight(n) PROVE pc' = pc
  BY <1>3 DEF Preflight
<1>4. ASSUME UnitStart \/ UnitStop \/ UnitStep \/ UnitLockTimeout \/ UnitDies PROVE pc' = pc
  BY <1>4 DEF UnitStart, UnitStop, UnitStep, UnitLockTimeout, UnitDies, UnitRetry, UnitLock,
              BaseCheck, BaseCopy, BasePublish, UnitWarm
<1>5. /\ Chown \/ UNCHANGED vars => pc' = pc
      /\ Reboot => pc'[r] # "restart"
  BY DEF Chown, Reboot, vars
<1>. QED
  BY <1>1, <1>2, <1>3, <1>4, <1>5 DEF Next

-----------------------------------------------------------------------------
\* When a promotion is over its previous golden is among the backups, if any are to be kept.
THEOREM PromoteKeepsRollback == Spec => RollbackKept
<1>1. ASSUME PInv, [Next]_vars, NEW r \in Rotators,
             pc[r] = "prune", pc'[r] = "restart", KeepN > 0, was[r].disk # NoImage
      PROVE  \E b \in backups' : b.img = was[r].disk
  <2>1. Prune(r)
    BY <1>1, RestartAfterPrune
  <2>2. res[r] = "promoted"
    BY <1>1, <2>1 DEF Prune, PInv, TypeOK, ProcessTypeOK
  <2>3. PICK b \in backups : b.at = runs /\ b.img = was[r].disk
    BY <1>1, <2>2 DEF PInv, BackupInv, BackupOf
  <2>4. {c \in backups : c.at > b.at} = {}
    <3>1. \A c \in backups : c.at \in 1..runs /\ runs \in Nat
      BY <1>1 DEF PInv, WholeInv, TypeOK, ProcessTypeOK
    <3>. QED
      BY <2>3, <3>1
  <2>5. Cardinality({c \in backups : c.at > b.at}) = 0
    BY <2>4, FS_EmptySet
  <2>6. b \notin Surplus({src[r]} \cup Needed(r))
    BY <1>1, <2>5 DEF Surplus
  <2>. QED
    BY <2>1, <2>3, <2>6 DEF Prune
<1>2. PInv /\ [Next]_vars =>
        [\A r \in Rotators :
           pc[r] = "prune" /\ pc'[r] = "restart" /\ KeepN > 0 /\ was[r].disk # NoImage
             => \E b \in backups' : b.img = was[r].disk]_vars
  BY <1>1
<1>. QED
  BY <1>2, PromoteInvariance, PTL DEF Spec, RollbackKept

\* The recovery copy of a split state outlives that rotation's prune, and every later one once
\* it is marked.
THEOREM PromoteHoldsRecoveryCopy == Spec => RecoveryCopyHeld
<1>1. ASSUME PInv, [Next]_vars, NEW b \in backups, b.at \in kept PROVE b \in backups'
  <2>1. ASSUME NEW spare PROVE b \notin Surplus(spare)
    BY <1>1 DEF Surplus
  <2>2. ASSUME NEW r \in Rotators, pc[r] \in {"mvDisk", "rollback"} PROVE b \in WithoutBackup(bak[r])
    <3>1. b.at # 0
      BY <1>1, BackupsKnown
    <3>. QED
      BY <1>1, <2>2, <3>1 DEF PInv, BackupInv, BackupOf, WithoutBackup
  <2>. QED
    BY <1>1, <2>1, <2>2, BackupsChange DEF Prune
<1>2. ASSUME PInv, [Next]_vars, NEW r \in Rotators, pc[r] = "prune", res[r] = "split",
             NEW b \in backups, b.at = bak[r]
      PROVE  b \in backups'
  <2>1. lock = r /\ lock # Free /\ \A q \in Rotators : pc[q] \in Locked => q = r
    BY <1>2 DEF PInv, LockInv
  <2>2. Prune(r) => b \in backups'
    BY <1>2 DEF Prune, Needed, Surplus
  <2>3. \A q \in Rotators : Prune(q) => q = r
    BY <2>1 DEF Prune
  <2>. QED
    BY <1>2, <2>1, <2>2, <2>3, BackupsChange
<1>3. PInv /\ [Next]_vars =>
        [/\ \A b \in backups : b.at \in kept => b \in backups'
         /\ \A r \in Rotators : pc[r] = "prune" /\ res[r] = "split"
              => \A b \in backups : b.at = bak[r] => b \in backups']_vars
  BY <1>1, <1>2
<1>. QED
  BY <1>3, PromoteInvariance, PTL DEF Spec, RecoveryCopyHeld

\* A start discards a base only when the disk twin can replace it, and falls back to the
\* agent-less master only when there is no twin at all.
THEOREM PromoteKeepsOnlyGolden == Spec => OnlyGoldenKept
<1>1. ASSUME PInv, [Next]_vars, ram # NoImage, ram' = NoImage, unit' = "copy" PROVE disk # NoImage
  <2>1. ASSUME NEW r \in Rotators, MvRam(r) PROVE FALSE
    BY <1>1, <2>1 DEF MvRam, PInv, CopyInv
  <2>2. CASE BaseCheck
    BY <1>1, <2>2 DEF BaseCheck, BaseUsable, StartFails
  <2>3. CASE BasePublish
    BY <1>1, <2>3 DEF BasePublish, PInv, UnitInv
  <2>4. CASE Reboot
    BY <1>1, <2>4 DEF Reboot
  <2>. QED
    BY <1>1, <2>1, <2>2, <2>3, <2>4, RamChanges
<1>2. ASSUME PInv, [Next]_vars, ram # Master, ram' = Master PROVE disk = NoImage /\ ram = NoImage
  <2>1. ASSUME NEW r \in Rotators, MvRam(r) PROVE FALSE
    BY <1>2, <2>1 DEF MvRam, PInv, CopyInv
  <2>2. ~BaseCheck /\ ~Reboot
    BY <1>2 DEF BaseCheck, Reboot
  <2>3. CASE BasePublish
    BY <1>2, <2>3 DEF BasePublish, Source, PInv, UnitInv, WholeInv, TypeOK, ProcessTypeOK
  <2>. QED
    BY <1>2, <2>1, <2>2, <2>3, RamChanges
<1>. QED
  BY <1>1, <1>2, PromoteInvariance, PTL DEF Spec, OnlyGoldenKept

=============================================================================
