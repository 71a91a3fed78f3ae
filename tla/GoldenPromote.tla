---------------------------- MODULE GoldenPromote ----------------------------
(***************************************************************************)
(* The promotion of a golden image: rotators (the timer's oneshot, the     *)
(* retry CLI, build-and-promote) publish a candidate to the disk twin and  *)
(* then to the RAM twin, with a backup of the previous golden to roll back *)
(* from; the pool-manager unit materialises the RAM twin before a start.   *)
(* Both work under the rotation lock.                                      *)
(*                                                                         *)
(* A copy may end whole or cut short and report success or not; a rename   *)
(* may fail without effect ("lost") or be reported failed after its effect *)
(* ("landed": _run turns a timeout into rc 124).  Every process may be     *)
(* killed between two steps, and a reboot empties /dev/shm.                *)
(***************************************************************************)
EXTENDS Naturals, FiniteSets

CONSTANTS
  Rotators,    \* processes that promote
  Candidates,  \* gated images
  Master,      \* the packer image GOLDEN_MASTER, which carries no agent
  Torn,        \* what a copy cut short leaves
  NoImage,
  KeepN,       \* GOLDEN_KEEP_N
  MaxRuns,     \* bound on rotations
  MaxFaults,   \* bound on environment failures
  Unit, Free   \* lock holders besides rotators: the unit's pre-start, nobody

ASSUME PromoteAssumption ==
  /\ KeepN \in Nat /\ MaxRuns \in Nat /\ MaxFaults \in Nat
  /\ Master \notin Candidates
  /\ Torn \notin Candidates \cup {Master}
  /\ NoImage \notin Candidates \cup {Master, Torn}
  /\ Unit \notin Rotators /\ Free \notin Rotators \cup {Unit}

VARIABLES
  disk,        \* GOLDEN_BASE_DISK
  ram,         \* AUTHENTICODE_GOLDEN_BASE in /dev/shm
  owner,       \* the RAM twin's owner: "root", or "other" (libvirt's chown)
  backups,     \* retained backups: image, and the rotation they were taken in
  kept,        \* rotations whose backup carries a .keep marker
  part,        \* the backup being copied (.part)
  tmpDisk,     \* the rotator's temporary beside the disk twin
  tmpRam,      \* ... and beside the RAM twin
  tmpUnit,     \* the unit's temporary beside the RAM twin
  lock,        \* holder of the rotation lock
  pc,          \* rotator: where rotate() is
  cand,        \* rotator: the candidate's image
  src,         \* rotator: the backup it restores, 0 for a candidate
  bak,         \* rotator: the backup it took, 0 for none
  res,         \* rotator: the outcome
  was,         \* history: the twins when the rotator took the lock
  lied,        \* history: rotators a landed rename was reported failed to
  twins,       \* history: "apart" when a split, a kill or a landed rename may have left them so
  unit,        \* pool-manager unit: where its start is
  from,        \* pre-start: the chosen source
  serving,     \* the image the warm workers were cloned from
  runs,        \* rotations so far
  faults       \* environment failures so far

twinVars  == <<disk, ram, owner>>
backVars  == <<backups, kept, part>>
tmpVars   == <<tmpDisk, tmpRam, tmpUnit>>
rotVars   == <<pc, cand, src, bak, res>>
histVars  == <<was, lied, twins>>
unitVars  == <<unit, from, serving>>
vars == <<twinVars, backVars, tmpVars, lock, rotVars, histVars, unitVars, runs, faults>>

-----------------------------------------------------------------------------
(* Copies, renames and the lock *)

Images  == Candidates \cup {Master}
Content == Images \cup {Torn, NoImage}

NoTwins == [disk |-> NoImage, ram |-> NoImage]

Fault == faults < MaxFaults /\ faults' = faults + 1

Outcome == {"ok", "lost", "landed"}
Rename(o) == IF o = "ok" THEN UNCHANGED faults ELSE Fault

\* cp leaves a file (whole, cut short or none) and a return code.
Rc == {"zero", "nonzero"}
Copied(left, rc, want) == IF left = want /\ rc = "zero" THEN UNCHANGED faults ELSE Fault

\* Mutant: the return code alone is checked.
CheckedRc(left, rc, want) == rc = "zero" /\ left # NoImage

\* _checked_copy: return code and size.
Checked(left, rc, want) == rc = "zero" /\ left = want

\* What a copy killed half way leaves.
CutShort(cut, x) == IF cut THEN Torn ELSE x

Freed(p) == lock' = IF lock = p THEN Free ELSE lock

\* rotate()'s local variables are gone when it returns or dies.
Forget(R) ==
  /\ cand' = [r \in Rotators |-> IF r \in R THEN NoImage ELSE cand[r]]
  /\ src' = [r \in Rotators |-> IF r \in R THEN 0 ELSE src[r]]
  /\ bak' = [r \in Rotators |-> IF r \in R THEN 0 ELSE bak[r]]
  /\ was' = [r \in Rotators |-> IF r \in R THEN NoTwins ELSE was[r]]
  /\ lied' = lied \ R

-----------------------------------------------------------------------------
(* A rotator: rotate, _rotate_locked, _promote *)

\* Mutant: the surplus is what is newest.
SurplusOldest(spare) ==
  {b \in backups : /\ b.at \notin spare \cup kept
                   /\ Cardinality({c \in backups : c.at < b.at}) >= KeepN}

\* Mutant: the .keep markers are not read.
SurplusMarked(spare) ==
  {b \in backups : /\ b.at \notin spare
                   /\ Cardinality({c \in backups : c.at > b.at}) >= KeepN}

\* _prune_backups: all but the newest KEEP_N, never a marked one nor a spared one.
Surplus(spare) ==
  {b \in backups : /\ b.at \notin spare \cup kept
                   /\ Cardinality({c \in backups : c.at > b.at}) >= KeepN}

\* _sweep_own_temps: what killed rotations and starts left, under the lock.
SweepTemps ==
  /\ tmpDisk' = NoImage /\ tmpRam' = NoImage /\ tmpUnit' = NoImage
  /\ part' = NoImage

CleanTmps == tmpDisk' = NoImage /\ tmpRam' = NoImage

Goto(r, l) == pc' = [pc EXCEPT ![r] = l]
Ends(r, outcome) == Goto(r, "prune") /\ res' = [res EXCEPT ![r] = outcome]

\* rotation_preflight of a cycle or of the retry CLI (which keeps the file it was given): a
\* short hold of the lock, hours before rotate() takes it again.
Preflight(keep) ==
  /\ lock = Free
  /\ SweepTemps
  /\ backups' = backups \ Surplus({keep})
  /\ UNCHANGED <<twinVars, kept, lock, rotVars, histVars, unitVars, runs, faults>>

\* rotate() takes the lock for a candidate, or for a backup the operator restores.  A held
\* lock fails fast and changes nothing.
Begin(r, image, at) ==
  /\ pc[r] = "idle" /\ runs < MaxRuns
  /\ lock = Free
  /\ lock' = r
  /\ Goto(r, "check")
  /\ cand' = [cand EXCEPT ![r] = image]
  /\ src' = [src EXCEPT ![r] = at]
  /\ was' = [was EXCEPT ![r] = [disk |-> disk, ram |-> ram]]
  /\ runs' = runs + 1
  /\ UNCHANGED <<twinVars, backVars, tmpVars, bak, res, lied, twins, unitVars, faults>>

\* A base path that is no regular file, or too little space, refuses.
Check(r) ==
  /\ pc[r] = "check"
  /\ \/ /\ SweepTemps
        /\ Goto(r, "copyDisk")
        /\ UNCHANGED <<res, faults>>
     \/ /\ Fault
        /\ Ends(r, "nothing")
        /\ SweepTemps \/ UNCHANGED <<tmpVars, part>>
  /\ UNCHANGED <<twinVars, backups, kept, lock, cand, src, bak, histVars, unitVars, runs>>

CopyDisk(r) ==
  /\ pc[r] = "copyDisk"
  /\ \E left \in {cand[r], Torn, NoImage}, rc \in Rc :
       /\ Copied(left, rc, cand[r])
       /\ \/ /\ Checked(left, rc, cand[r])
             /\ tmpDisk' = left
             /\ Goto(r, "copyRam")
             /\ UNCHANGED <<tmpRam, res>>
          \/ /\ ~Checked(left, rc, cand[r])
             /\ CleanTmps
             /\ Ends(r, "nothing")
  /\ UNCHANGED <<twinVars, backVars, tmpUnit, lock, cand, src, bak, histVars, unitVars, runs>>

CopyRam(r) ==
  /\ pc[r] = "copyRam"
  /\ \E left \in {cand[r], Torn, NoImage}, rc \in Rc :
       /\ Copied(left, rc, cand[r])
       /\ \/ /\ Checked(left, rc, cand[r])
             /\ tmpRam' = left
             /\ Goto(r, "backup")
             /\ UNCHANGED <<tmpDisk, res>>
          \/ /\ ~Checked(left, rc, cand[r])
             /\ CleanTmps
             /\ Ends(r, "nothing")
  /\ UNCHANGED <<twinVars, backVars, tmpUnit, lock, cand, src, bak, histVars, unitVars, runs>>

\* _backup_current: the golden on disk, if there is one, is copied to a .part ...
BackupCopy(r) ==
  /\ pc[r] = "backup"
  /\ \/ /\ disk = NoImage
        /\ Goto(r, "mvDisk")
        /\ UNCHANGED <<part, tmpDisk, tmpRam, res, faults>>
     \/ /\ disk # NoImage
        /\ \E left \in {disk, Torn, NoImage}, rc \in Rc :
             /\ Copied(left, rc, disk)
             /\ \/ /\ Checked(left, rc, disk)
                   /\ part' = left
                   /\ Goto(r, "keepBackup")
                   /\ UNCHANGED <<tmpDisk, tmpRam, res>>
                \/ /\ ~Checked(left, rc, disk)
                   /\ part' = NoImage
                   /\ CleanTmps
                   /\ Ends(r, "nothing")
  /\ UNCHANGED <<twinVars, backups, kept, tmpUnit, lock, cand, src, bak, histVars, unitVars, runs>>

\* ... and renamed to the name every reader matches.
BackupRename(r) ==
  /\ pc[r] = "keepBackup"
  /\ \E o \in Outcome :
       /\ Rename(o)
       /\ backups' = IF o = "lost" THEN backups ELSE backups \cup {[img |-> part, at |-> runs]}
       /\ \/ /\ o = "ok"
             /\ bak' = [bak EXCEPT ![r] = runs]
             /\ Goto(r, "mvDisk")
             /\ UNCHANGED <<tmpDisk, tmpRam, res>>
          \/ /\ o # "ok"
             /\ CleanTmps
             /\ Ends(r, "nothing")
             /\ UNCHANGED bak
  /\ part' = NoImage
  /\ UNCHANGED <<twinVars, kept, tmpUnit, lock, cand, src, histVars, unitVars, runs>>

WithoutBackup(at) == {b \in backups : b.at # at}

\* The disk twin is published; a failure drops the backup of the unchanged golden (the sick
\* store may refuse that too).
MvDisk(r) ==
  /\ pc[r] = "mvDisk"
  /\ \E o \in Outcome :
       /\ Rename(o)
       /\ disk' = IF o = "lost" THEN disk ELSE tmpDisk
       /\ \/ /\ o = "ok"
             /\ tmpDisk' = NoImage
             /\ Goto(r, "mvRam")
             /\ UNCHANGED <<tmpRam, backups, res>>
          \/ /\ o # "ok"
             /\ CleanTmps
             /\ backups' \in {backups, WithoutBackup(bak[r])}
             /\ Ends(r, "nothing")
       /\ lied' = IF o = "landed" THEN lied \cup {r} ELSE lied
       /\ twins' = IF o = "landed" THEN "apart" ELSE twins
  /\ UNCHANGED <<ram, owner, kept, part, tmpUnit, lock, cand, src, bak, was, unitVars, runs>>

\* The RAM twin is published: all is; or the disk twin has to be rolled back.
MvRam(r) ==
  /\ pc[r] = "mvRam"
  /\ \E o \in Outcome :
       /\ Rename(o)
       /\ ram' = IF o = "lost" THEN ram ELSE tmpRam
       /\ owner' = IF o = "lost" THEN owner ELSE "root"
       /\ Goto(r, IF o = "ok" THEN "prune" ELSE "rollback")
       /\ res' = IF o = "ok" THEN [res EXCEPT ![r] = "promoted"] ELSE res
       /\ lied' = IF o = "landed" THEN lied \cup {r} ELSE lied
       /\ twins' = IF o = "ok" THEN "agree" ELSE IF o = "landed" THEN "apart" ELSE twins
  /\ CleanTmps
  /\ UNCHANGED <<disk, backVars, tmpUnit, lock, cand, src, bak, was, unitVars, runs>>

\* Mutant: a failed rollback is reported as a rotation that changed nothing.
RollbackSilent(r) ==
  /\ pc[r] = "rollback"
  /\ Ends(r, "nothing")
  /\ UNCHANGED <<twinVars, backVars, tmpVars, lock, cand, src, bak, histVars, unitVars, runs, faults>>

\* The disk twin is rolled back from the backup just taken, which is then dropped; or that
\* fails, and the backup is marked kept (both sidecar writes may fail).
RollbackFrom(r, b, o) ==
  /\ b.at = bak[r]
  /\ Rename(o)
  /\ disk' = IF o = "lost" THEN disk ELSE b.img
  /\ \/ /\ o = "ok"
        /\ backups' \in {backups, WithoutBackup(bak[r])}
        /\ Ends(r, "nothing")
        /\ UNCHANGED <<kept, lied, twins>>
     \/ /\ o # "ok"
        /\ kept' \in {kept, kept \cup {bak[r]}}
        /\ Ends(r, "split")
        /\ lied' = IF o = "landed" THEN lied \cup {r} ELSE lied
        /\ twins' = "apart"
        /\ UNCHANGED backups

\* No backup, or a failed rollback: the split state.
Rollback(r) ==
  /\ pc[r] = "rollback"
  /\ \/ /\ \A b \in backups : b.at # bak[r]
        /\ Ends(r, "split")
        /\ twins' = "apart"
        /\ UNCHANGED <<disk, backups, kept, lied, faults>>
     \/ \E b \in backups, o \in Outcome : RollbackFrom(r, b, o)
  /\ UNCHANGED <<ram, owner, part, tmpVars, lock, cand, src, bak, was, unitVars, runs>>

\* The copy a split state's message names.
Needed(r) == IF res[r] = "split" THEN {bak[r]} ELSE {}

\* Mutant: the pool is restarted under the lock.
PruneHoldingLock(r) ==
  /\ pc[r] = "prune"
  /\ backups' = backups \ Surplus({src[r]} \cup Needed(r))
  /\ IF res[r] = "promoted" THEN UNCHANGED lock ELSE Freed(r)
  /\ Goto(r, IF res[r] = "promoted" THEN "restart" ELSE "idle")
  /\ Forget({r})
  /\ UNCHANGED <<twinVars, kept, part, tmpVars, res, twins, unitVars, runs, faults>>

\* The prune on every outcome, then the lock is released.
Prune(r) ==
  /\ pc[r] = "prune"
  /\ backups' = backups \ Surplus({src[r]} \cup Needed(r))
  /\ Freed(r)
  /\ Goto(r, IF res[r] = "promoted" THEN "restart" ELSE "idle")
  /\ Forget({r})
  /\ UNCHANGED <<twinVars, kept, part, tmpVars, res, twins, unitVars, runs, faults>>

Starting == {"retry", "waiting", "base", "copy", "publish", "warming"}

\* restart_pool: a running, starting or failed unit is restarted, a stopped one is left alone.
Restart(r) ==
  /\ pc[r] = "restart"
  /\ \/ /\ unit = "down"
        /\ Goto(r, "idle")
        /\ UNCHANGED <<tmpUnit, lock, res, unit, serving, faults>>
     \/ /\ unit # "down"
        /\ unit' = "waiting"
        /\ serving' = NoImage
        /\ Freed(Unit)
        /\ tmpUnit' = CutShort(unit = "copy", tmpUnit)
        /\ Goto(r, "settle")
        /\ UNCHANGED <<res, faults>>
     \/ /\ Fault
        /\ Goto(r, "idle")
        /\ res' = [res EXCEPT ![r] = "restartFailed"]
        /\ UNCHANGED <<tmpUnit, lock, unit, serving>>
  /\ UNCHANGED <<twinVars, backVars, tmpDisk, tmpRam, cand, src, bak, histVars, from, runs>>

\* It waits for the pool to report warm, for a failed or stopped unit, or for the ceiling.  A
\* start whose pre-start failed may have failed the restart command itself.
Settle(r) ==
  /\ pc[r] = "settle"
  /\ Goto(r, "idle")
  /\ \/ /\ unit = "up"
        /\ UNCHANGED <<res, faults>>
     \/ /\ unit \in {"failed", "down", "retry"}
        /\ res' = [res EXCEPT ![r] = "restartFailed"]
        /\ UNCHANGED faults
     \/ /\ unit \in Starting
        /\ Fault
        /\ res' = [res EXCEPT ![r] = "restartFailed"]
  /\ UNCHANGED <<twinVars, backVars, tmpVars, lock, cand, src, bak, histVars, unitVars, runs>>

\* A stop of the oneshot, the OOM killer, ^C of a hand run.
RotatorKilled(r) ==
  /\ pc[r] # "idle"
  /\ Fault
  /\ Goto(r, "idle")
  /\ res' = [res EXCEPT ![r] = "killed"]
  /\ Freed(r)
  /\ tmpDisk' = CutShort(pc[r] \in {"copyDisk", "rollback"}, tmpDisk)
  /\ tmpRam' = CutShort(pc[r] = "copyRam", tmpRam)
  /\ part' = CutShort(pc[r] = "backup", part)
  /\ twins' = IF pc[r] \in {"mvRam", "rollback"} THEN "apart" ELSE twins
  /\ Forget({r})
  /\ UNCHANGED <<twinVars, backups, kept, tmpUnit, unitVars, runs>>

RotatorStep(r) ==
  \/ Check(r) \/ CopyDisk(r) \/ CopyRam(r) \/ BackupCopy(r) \/ BackupRename(r)
  \/ MvDisk(r) \/ MvRam(r) \/ Rollback(r) \/ Prune(r) \/ Restart(r) \/ Settle(r)

-----------------------------------------------------------------------------
(* The pool-manager unit: its pre-start and its pool *)

\* A start that failed is retried, or the unit is latched failed by the start limit.
StartFails == unit' \in {"retry", "failed"} /\ serving' = NoImage /\ Freed(Unit)

\* RestartSec.
UnitRetry ==
  /\ unit = "retry"
  /\ unit' = "waiting"
  /\ UNCHANGED <<twinVars, backVars, tmpVars, lock, rotVars, histVars, from, serving, runs, faults>>

UnitStart ==
  /\ unit \in {"down", "failed"}
  /\ unit' = "waiting"
  /\ UNCHANGED <<twinVars, backVars, tmpVars, lock, rotVars, histVars, from, serving, runs, faults>>

\* systemctl stop.
UnitStop ==
  /\ unit # "down"
  /\ unit' = "down"
  /\ serving' = NoImage
  /\ Freed(Unit)
  /\ tmpUnit' = CutShort(unit = "copy", tmpUnit)
  /\ UNCHANGED <<twinVars, backVars, tmpDisk, tmpRam, rotVars, histVars, from, runs, faults>>

\* Mutant: the pre-start does not take the lock.
UnitLockNot ==
  /\ unit = "waiting"
  /\ unit' = "base"
  /\ UNCHANGED <<twinVars, backVars, tmpVars, lock, rotVars, histVars, from, serving, runs, faults>>

\* flock -w 1800.
UnitLock ==
  /\ unit = "waiting"
  /\ lock = Free
  /\ lock' = Unit
  /\ unit' = "base"
  /\ UNCHANGED <<twinVars, backVars, tmpVars, rotVars, histVars, from, serving, runs, faults>>

UnitLockTimeout ==
  /\ unit = "waiting" /\ lock # Free
  /\ Fault
  /\ StartFails
  /\ UNCHANGED <<twinVars, backVars, tmpVars, rotVars, histVars, from, runs>>

\* Mutant: an unowned base is replaced from whatever source there is.
BaseUsableMaster == TRUE

\* An unowned base is replaced only from a disk golden.
BaseUsable == ram = NoImage \/ disk # NoImage

\* The present, owned base is the pool's; a missing or unowned one is made afresh from the disk
\* twin, the master only when there is neither.
BaseCheck ==
  /\ unit = "base"
  /\ \/ /\ ram # NoImage /\ owner = "root"
        /\ unit' = "warming"
        /\ Freed(Unit)
        /\ tmpUnit' = NoImage
        /\ UNCHANGED <<ram, owner, twins, from, serving, faults>>
     \/ /\ ram = NoImage \/ owner # "root"
        /\ BaseUsable
        /\ from' = IF disk # NoImage THEN "disk" ELSE "master"
        /\ ram' = NoImage /\ owner' = "root"
        /\ twins' = "agree"
        /\ unit' = "copy"
        /\ tmpUnit' = NoImage
        /\ UNCHANGED <<lock, serving, faults>>
     \/ /\ owner # "root" /\ ~BaseUsable
        /\ StartFails
        /\ tmpUnit' = NoImage
        /\ UNCHANGED <<ram, owner, twins, from, faults>>
     \/ /\ Fault
        /\ StartFails
        /\ tmpUnit' \in {tmpUnit, NoImage}
        /\ UNCHANGED <<ram, owner, twins, from>>
  /\ UNCHANGED <<disk, backVars, tmpDisk, tmpRam, rotVars, was, lied, runs>>

Source == IF from = "disk" THEN disk ELSE Master

BaseCopy ==
  /\ unit = "copy"
  /\ \E left \in {Source, Torn, NoImage}, rc \in Rc :
       /\ Copied(left, rc, Source)
       /\ \/ /\ Checked(left, rc, Source)
             /\ tmpUnit' = left
             /\ unit' = "publish"
             /\ UNCHANGED <<lock, serving>>
          \/ /\ ~Checked(left, rc, Source)
             /\ tmpUnit' = NoImage
             /\ StartFails
  /\ UNCHANGED <<twinVars, backVars, tmpDisk, tmpRam, rotVars, histVars, from, runs>>

BasePublish ==
  /\ unit = "publish"
  /\ \E o \in Outcome :
       /\ Rename(o)
       /\ ram' = IF o = "lost" THEN ram ELSE tmpUnit
       /\ owner' = "root"
       /\ \/ o = "ok" /\ unit' = "warming" /\ Freed(Unit) /\ UNCHANGED serving
          \/ o # "ok" /\ StartFails
  /\ tmpUnit' = NoImage
  /\ UNCHANGED <<disk, backVars, tmpDisk, tmpRam, rotVars, histVars, from, runs>>

\* The manager warms workers off the RAM twin and reports ready.
UnitWarm ==
  /\ unit = "warming"
  /\ ram # NoImage
  /\ serving' = ram
  /\ unit' = "up"
  /\ UNCHANGED <<twinVars, backVars, tmpVars, lock, rotVars, histVars, from, runs, faults>>

\* A start or a running manager that dies: a refusal, a start timeout, a crash.
UnitDies ==
  /\ unit \in (Starting \ {"retry"}) \cup {"up"}
  /\ Fault
  /\ StartFails
  /\ tmpUnit' = CutShort(unit = "copy", tmpUnit)
  /\ UNCHANGED <<twinVars, backVars, tmpDisk, tmpRam, rotVars, histVars, from, runs>>

UnitStep == UnitRetry \/ UnitLock \/ BaseCheck \/ BaseCopy \/ BasePublish \/ UnitWarm

\* libvirt leaves the RAM twin chowned to the qemu user.
Chown ==
  /\ ram # NoImage /\ owner = "root"
  /\ Fault
  /\ owner' = "other"
  /\ UNCHANGED <<disk, ram, backVars, tmpVars, lock, rotVars, histVars, unitVars, runs>>

\* /dev/shm and /run are empty afterwards, every process is gone.
Reboot ==
  /\ Fault
  /\ ram' = NoImage /\ owner' = "root" /\ tmpRam' = NoImage /\ tmpUnit' = NoImage
  /\ tmpDisk' = CutShort(\E r \in Rotators : pc[r] \in {"copyDisk", "rollback"}, tmpDisk)
  /\ part' = CutShort(\E r \in Rotators : pc[r] = "backup", part)
  /\ lock' = Free
  /\ res' = [r \in Rotators |-> IF pc[r] = "idle" THEN res[r] ELSE "killed"]
  /\ pc' = [r \in Rotators |-> "idle"]
  /\ unit' = "waiting" /\ serving' = NoImage
  /\ twins' = "agree"
  /\ Forget(Rotators)
  /\ UNCHANGED <<disk, backups, kept, from, runs>>

-----------------------------------------------------------------------------
(* The specification *)

\* A fresh host, a host provisioned by a hand bake into RAM, a host with a promoted golden.
Init ==
  /\ disk \in Candidates \cup {NoImage}
  /\ ram \in {NoImage} \cup (IF disk = NoImage THEN Candidates ELSE {disk})
  /\ owner = "root"
  /\ backups = {} /\ kept = {} /\ part = NoImage
  /\ tmpDisk = NoImage /\ tmpRam = NoImage /\ tmpUnit = NoImage
  /\ lock = Free
  /\ pc = [r \in Rotators |-> "idle"]
  /\ cand = [r \in Rotators |-> NoImage]
  /\ src = [r \in Rotators |-> 0]
  /\ bak = [r \in Rotators |-> 0]
  /\ res = [r \in Rotators |-> "nothing"]
  /\ was = [r \in Rotators |-> NoTwins]
  /\ lied = {} /\ twins = "agree"
  /\ unit = "down" /\ from = "disk" /\ serving = NoImage
  /\ runs = 0 /\ faults = 0

Next ==
  \/ Preflight(0) \/ \E b \in backups : Preflight(b.at)
  \/ \E r \in Rotators : \/ \E c \in Candidates : Begin(r, c, 0)
                         \/ \E b \in backups : Begin(r, b.img, b.at)
                         \/ RotatorStep(r)
                         \/ RotatorKilled(r)
  \/ UnitStart \/ UnitStop \/ UnitStep \/ UnitLockTimeout \/ UnitDies
  \/ Chown \/ Reboot

Spec == Init /\ [][Next]_vars

\* Rotators and starts run on; a blocked flock gets the lock if it is freed again and again.
Fairness ==
  /\ \A r \in Rotators : WF_vars(RotatorStep(r))
  /\ SF_vars(UnitLock) /\ WF_vars(UnitStep)

FairSpec == Spec /\ Fairness

-----------------------------------------------------------------------------
(* Properties *)

Backup == [img : Images \cup {Torn}, at : 1..MaxRuns]

ImageTypeOK ==
  /\ disk \in Content /\ ram \in Content /\ owner \in {"root", "other"}
  /\ backups \subseteq Backup /\ kept \subseteq 1..MaxRuns
  /\ part \in Content
  /\ tmpDisk \in Content /\ tmpRam \in Content /\ tmpUnit \in Content

ProcessTypeOK ==
  /\ lock \in Rotators \cup {Unit, Free}
  /\ pc \in [Rotators -> {"idle", "check", "copyDisk", "copyRam", "backup", "keepBackup", "mvDisk",
                          "mvRam", "rollback", "prune", "restart", "settle"}]
  /\ cand \in [Rotators -> Candidates \cup {NoImage}]
  /\ src \in [Rotators -> 0..MaxRuns] /\ bak \in [Rotators -> 0..MaxRuns]
  /\ res \in [Rotators -> {"nothing", "promoted", "split", "restartFailed", "killed"}]
  /\ was \in [Rotators -> [disk : Content, ram : Content]]
  /\ lied \subseteq Rotators /\ twins \in {"agree", "apart"}
  /\ unit \in {"down", "failed", "up"} \cup Starting
  /\ from \in {"disk", "master"} /\ serving \in Content
  /\ runs \in 0..MaxRuns /\ faults \in 0..MaxFaults

TypeOK == ImageTypeOK /\ ProcessTypeOK

\* No interrupted or short copy is ever a base, a backup or what workers are cloned from.
PublishedWhole ==
  /\ Torn \notin {disk, ram, serving}
  /\ \A b \in backups : b.img \in Candidates

\* What rotate() reports is what happened: a promotion put the candidate on both twins, a
\* rotation that published nothing left both as they were, and a split state is the new golden
\* on disk and the old one in RAM; unless a rename took effect and was reported failed.
OutcomeTrue ==
  \A r \in Rotators : pc[r] = "prune" /\ r \notin lied =>
    /\ res[r] \in {"promoted", "nothing", "split"}
    /\ res[r] = "promoted" => disk = cand[r] /\ ram = cand[r]
    /\ res[r] = "nothing"  => disk = was[r].disk /\ ram = was[r].ram
    /\ res[r] = "split"    => disk = cand[r] /\ ram = was[r].ram

\* Whenever nobody publishes, the pool would boot the promoted golden, now or after the next
\* start: the RAM twin is the disk twin or is missing, unless a split state or a kill between
\* the renames left them apart.
RamFollowsDisk == lock = Free /\ twins = "agree" => ram \in {NoImage, disk} \/ disk = NoImage

\* A promotion's previous golden is there to roll back to when the promotion is over.
RollbackKept ==
  [][\A r \in Rotators :
       pc[r] = "prune" /\ pc'[r] = "restart" /\ KeepN > 0 /\ was[r].disk # NoImage
         => \E b \in backups' : b.img = was[r].disk]_vars

\* The copy a split state tells the operator to restore from survives that rotation's prune
\* whatever KEEP_N is, and every later prune once it is marked.
RecoveryCopyHeld ==
  [][/\ \A b \in backups : b.at \in kept => b \in backups'
     /\ \A r \in Rotators : pc[r] = "prune" /\ res[r] = "split"
          => \A b \in backups : b.at = bak[r] => b \in backups']_vars

\* A start never destroys the only golden: the unowned base it discards can be made afresh from
\* the disk twin, and the agent-less master becomes the base only when there is neither twin.
OnlyGoldenKept ==
  [][/\ ram # NoImage /\ ram' = NoImage /\ unit' = "copy" => disk # NoImage
     /\ ram # Master /\ ram' = Master => disk = NoImage /\ ram = NoImage]_vars

\* The inductive invariant: what PublishedWhole, OutcomeTrue, RamFollowsDisk and the action
\* properties rest on.

\* Where a rotation has published nothing yet, and where it holds the lock.
Early  == {"check", "copyDisk", "copyRam", "backup", "keepBackup", "mvDisk"}
Locked == Early \cup {"mvRam", "rollback", "prune"}
Shut   == {"base", "copy", "publish"}

\* Whoever touches the twins, the backups or the temporaries holds the lock.
LockInv ==
  /\ \A r \in Rotators : pc[r] \in Locked => lock = r
  /\ unit \in Shut => lock = Unit

\* Only whole images are where a reader looks.
WholeInv ==
  /\ disk \in Candidates \cup {NoImage}
  /\ ram \in Images \cup {NoImage} /\ serving \in Images \cup {NoImage}
  /\ \A b \in backups : b.img \in Candidates /\ b.at \in 1..runs
  /\ \A n \in kept : n \in 1..runs

\* The temporaries that are renamed next are whole copies.
CopyInv ==
  \A r \in Rotators :
    /\ pc[r] \in Locked => cand[r] \in Candidates /\ runs \in Nat \ {0}
    /\ pc[r] \in {"copyRam", "backup", "keepBackup", "mvDisk"} => tmpDisk = cand[r]
    /\ pc[r] \in {"backup", "keepBackup", "mvDisk", "mvRam"} => tmpRam = cand[r]
    /\ pc[r] = "keepBackup" => part = disk /\ disk # NoImage

\* Where the twins stand against what the rotation found and promotes.
TwinInv ==
  \A r \in Rotators :
    /\ pc[r] \in Early => disk = was[r].disk /\ ram = was[r].ram
    /\ pc[r] = "mvRam" => disk = cand[r] /\ ram = was[r].ram
    /\ pc[r] = "rollback" =>
         /\ disk = cand[r]
         /\ ram = was[r].ram \/ (r \in lied /\ ram = cand[r])

\* The backup taken by this rotation is the one of the golden it found, and is not marked.
BackupOf(r) ==
  /\ pc[r] \notin {"mvDisk", "mvRam", "rollback", "prune"} => bak[r] = 0
  /\ pc[r] \in Early \ {"mvDisk"} => \A b \in backups : b.at < runs
  /\ pc[r] \in {"mvDisk", "mvRam", "rollback"} =>
       /\ bak[r] \in {0, runs}
       /\ \A b \in backups : b.at = bak[r] => b.img = was[r].disk
  /\ \/ pc[r] \in {"mvDisk", "mvRam"}
     \/ pc[r] = "prune" /\ res[r] = "promoted"
     => was[r].disk = NoImage \/ \E b \in backups : b.at = runs /\ b.img = was[r].disk
  /\ pc[r] \in Early \cup {"mvRam", "rollback"} => runs \notin kept
BackupInv == \A r \in Rotators : BackupOf(r)

\* The twins agree, or agreed before the publish that is under way.
Agree(d, m) == m \in {NoImage, d} \/ d = NoImage
AgreeInv ==
  twins = "agree" =>
    /\ Agree(disk, ram) \/ \E r \in Rotators : pc[r] \in {"mvRam", "rollback"}
    /\ \A r \in Rotators : pc[r] \in {"mvRam", "rollback"} =>
         Agree(was[r].disk, was[r].ram) /\ ram = was[r].ram

\* A start publishes in the place of nothing, from the source it chose.
UnitInv ==
  /\ unit \in {"copy", "publish"} =>
       /\ ram = NoImage
       /\ from = "disk" => disk # NoImage
       /\ from = "master" => disk = NoImage
  /\ unit = "publish" => tmpUnit = Source

PInv ==
  /\ TypeOK /\ LockInv /\ WholeInv /\ CopyInv /\ TwinInv /\ BackupInv /\ AgreeInv /\ UnitInv
  /\ OutcomeTrue

\* What the twins show whoever holds the lock next: a rotation between its two renames shows
\* the twins it found, and its outcome until it gives the lock up.
Half(r)  == pc[r] \in {"mvRam", "rollback"}
Halfway  == CHOOSE r \in Rotators : Half(r)
GoldenShown == IF \E r \in Rotators : Half(r) THEN was[Halfway].disk ELSE disk
BaseShown   == IF \E r \in Rotators : Half(r) THEN was[Halfway].ram ELSE ram
WantShown == [r \in Rotators |-> IF pc[r] \in Locked \ {"prune"} THEN cand[r] ELSE NoImage]
ToldShown == [r \in Rotators |-> IF pc[r] # "prune" THEN "none"
                                 ELSE IF r \in lied THEN "misreported" ELSE res[r]]

Atomic == INSTANCE AtomicPromotion WITH
            golden <- GoldenShown, base <- BaseShown, want <- WantShown, told <- ToldShown

\* Copies, backups, two renames and a rollback together are one step on both twins, or none,
\* as the outcome says; the exceptions are a split state, a misreported command and a kill.
ImplementsAtomic == Atomic!AbsSpec

\* A promoted golden gets into service, or the rotation says that it did not (or was killed),
\* or the unit is stopped or latched: the restart never waits for a lock its rotator holds.
EventuallyInService ==
  \A r \in Rotators :
    pc[r] = "restart" ~> \/ unit = "up" /\ serving = ram
                         \/ unit \in {"down", "failed"}
                         \/ res[r] \in {"restartFailed", "killed"}

\* "A rotation that changed NOTHING": NothingPublished leaves the disk twin as it was.
NothingPublishedChangesNothing ==
  \A r \in Rotators : pc[r] = "prune" /\ res[r] = "nothing" => disk = was[r].disk /\ ram = was[r].ram

=============================================================================
