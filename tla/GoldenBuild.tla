---------------------------- MODULE GoldenBuild ----------------------------
(***************************************************************************)
(* The images beside the goldens and the runs that make, use and prune     *)
(* them: the timer's refresh_and_rotate, an operator's build-and-promote   *)
(* from any base and the `rotate` of a kept candidate or of a backup.      *)
(* A run holds the rotation lock only for its preflight, for the copy of   *)
(* the golden it bakes from, for a hold and for its promotion; between     *)
(* them other runs prune.  What a prune must leave is said by age, by the  *)
(* pid in a copy's name and by holds, each naming the process it is valid  *)
(* for.  Runs are killed.                                                  *)
(*                                                                         *)
(* The promotion is a step here (see GoldenPromote), the depth a candidate *)
(* travels with is ChainRecord's.                                          *)
(***************************************************************************)
EXTENDS Naturals, FiniteSets

CONSTANTS
  Pids,        \* process numbers, reused
  Files,       \* image names, reused: the space of the backup dir
  KeepN,       \* GOLDEN_KEEP_N
  MaxJobs,     \* bound on the operator's runs
  MaxFaults,   \* bound on kills and failed commands
  NoFile, NoPid

ASSUME BuildAssumption ==
  /\ KeepN \in Nat /\ MaxJobs \in Nat /\ MaxFaults \in Nat
  /\ NoFile \notin Files /\ NoPid \notin Pids

VARIABLES
  file,        \* each name: what image it is, whether its age is past its retention, the pid in a copy's name
  newer,       \* the retained backups modified after each retained backup
  later,       \* those made after it
  job,         \* each pid: the run that has it
  holds,       \* .keep.build-<pid>.<start> sidecars; live: the start time is the running process's
  lock,        \* ROTATE_LOCK
  jobs, faults

vars == <<file, newer, later, job, holds, lock, jobs, faults>>

NoImage   == [kind |-> "none", old |-> FALSE, pid |-> NoPid]
Candidate == [kind |-> "candidate", old |-> FALSE, pid |-> NoPid]
Copy(p)   == [kind |-> "copy", old |-> FALSE, pid |-> p]

NoJob   == [kind |-> "none", pc |-> "idle", base |-> NoFile, cand |-> NoFile, seen |-> {}, kept |-> FALSE,
            stale |-> FALSE]

Running(p)  == job[p].pc # "idle"
At(p, s)    == job[p].pc = s
Is(f, k)    == f # NoFile /\ file[f].kind = k
Pays        == faults < MaxFaults /\ faults' = faults + 1

To(p, s)     == job' = [job EXCEPT ![p].pc = s]
End(p)       == job' = [job EXCEPT ![p] = NoJob]
HoldsOf(p)   == {h \in holds : h.pid = p /\ h.live}
Hold(p, f)   == [file |-> f, pid |-> p, live |-> TRUE]

\* Files that are somebody's: the base, the copy or the candidate of a run.
Used == {job[p].base : p \in Pids} \cup {job[p].cand : p \in Pids}

\* Names are stamps: a new one is no file's, and nothing still speaks of it.
Spare   == {f \in Files : Is(f, "none")}
Free    == (Spare \ Used) \ ({h.file : h \in holds} \cup UNION {job[p].seen : p \in Pids})
NewName == CHOOSE f \in Free : TRUE

-----------------------------------------------------------------------------
(* What a prune removes *)

\* Mutant: a copy is its run's whether or not that still runs.
SrcLiveNamed(f) == Is(f, "copy")

\* _rebake_src_live: the number alone.
SrcLive(f) == Is(f, "copy") /\ Running(file[f].pid)

\* _held_backups, read once; the holds of a process that is gone are removed.
LiveHolds   == {h \in holds : h.live}
HeldFiles   == {h.file : h \in LiveHolds}

Aged(f)     == file[f].kind \in {"candidate", "copy"} /\ file[f].old /\ ~SrcLive(f)
Surplus     == {f \in Files : Is(f, "backup") /\ Cardinality(newer[f]) >= KeepN}

Doomed(keep, seen) == ({f \in Files : Aged(f)} \cup Surplus) \ (seen \cup {keep})

Removed(fs) ==
  /\ file' = [f \in Files |-> IF f \in fs THEN NoImage ELSE file[f]]
  /\ newer' = [f \in Files |-> IF f \in fs THEN {} ELSE newer[f] \ fs]
  /\ later' = [f \in Files |-> IF f \in fs THEN {} ELSE later[f] \ fs]

\* The order with a backup after every other.
Latest(order, b) ==
  [f \in Files |-> IF f = b THEN {} ELSE IF Is(f, "backup") THEN order[f] \cup {b} ELSE {}]

\* A touch re-dates a candidate, or fails and leaves it.  A retained backup is never touched.
Touched(f) ==
  IF Is(f, "candidate") THEN [file EXCEPT ![f].old = FALSE] ELSE file

Touch(f, failed) ==
  IF failed THEN Pays /\ UNCHANGED file ELSE file' = Touched(f) /\ UNCHANGED faults

\* A candidate whose retention the run has restarted: it wrote it, or freshened it as its
\* base or as what it keeps for a retry.
Fresh(p, f) ==
  \/ f = job[p].cand /\ job[p].kind # "retry"
  \/ f = job[p].base /\ job[p].pc \in {"overlay", "baking"} /\ ~job[p].stale
  \/ f = job[p].cand /\ At(p, "unhold") /\ job[p].kept /\ ~job[p].stale

-----------------------------------------------------------------------------
(* Runs start *)

Start(p, kind, base) ==
  job' = [job EXCEPT ![p] = [kind |-> kind, pc |-> "preflight", base |-> base,
                             cand |-> IF kind = "retry" THEN base ELSE NoFile, seen |-> {}, kept |-> FALSE,
                             stale |-> FALSE]]

\* The timer's service is a oneshot: one at a time.
StartCycle(p) ==
  /\ At(p, "idle") /\ \A q \in Pids : job[q].kind \notin {"cycle", "reset"}
  /\ Start(p, "cycle", NoFile)
  /\ UNCHANGED <<file, newer, later, holds, lock, jobs, faults>>

\* An operator names an image no run is making: a base (NoFile: the packer image, the
\* master or the golden) or a candidate or backup to promote.
StartJob(p) ==
  /\ At(p, "idle") /\ jobs < MaxJobs /\ jobs' = jobs + 1
  /\ \E f \in {g \in Files : file[g].kind \in {"candidate", "backup"}} \cup {NoFile} :
       /\ \A q \in Pids : job[q].cand = f => f = NoFile \/ job[q].kind = "retry"
       /\ \/ Start(p, "bake", f)
          \/ f # NoFile /\ Start(p, "retry", f)
  /\ UNCHANGED <<file, newer, later, holds, lock, faults>>

-----------------------------------------------------------------------------
(* rotation_preflight *)

\* Mutant: the candidate is spared by this prune only.
PreflightUnheld(p) ==
  /\ At(p, "preflight") /\ lock = NoPid
  /\ lock' = p
  /\ holds' = LiveHolds
  /\ job' = [job EXCEPT ![p].pc = "pruning", ![p].seen = HeldFiles]
  /\ UNCHANGED <<file, newer, later, jobs, faults>>

\* Under the lock: the retry's hold on its candidate, then the holds are read.
Preflight(p) ==
  /\ At(p, "preflight") /\ lock = NoPid
  /\ lock' = p
  /\ LET mine == IF job[p].kind = "retry" THEN {Hold(p, job[p].base)} ELSE {}
     IN  /\ holds' = LiveHolds \cup mine
         /\ job' = [job EXCEPT ![p].pc = "pruning", ![p].seen = {h.file : h \in holds'}]
  /\ UNCHANGED <<file, newer, later, jobs, faults>>

\* The lock is held too long, a knob is refused, or the hold cannot be written.
Refuse(p) ==
  /\ At(p, "preflight")
  /\ \/ lock # NoPid /\ UNCHANGED faults
     \/ Pays
  /\ End(p)
  /\ UNCHANGED <<file, newer, later, holds, lock, jobs>>

\* The rest of the prune, with the holds that were read; then the lock is released.
PreflightPrune(p) ==
  /\ At(p, "pruning")
  /\ Removed(Doomed(job[p].base, job[p].seen))
  /\ lock' = NoPid
  /\ job' = [job EXCEPT ![p].pc = "sweep", ![p].seen = {}]
  /\ UNCHANGED <<holds, jobs, faults>>

\* _sweep_stranded_sources, without the lock: a builder removes its copy without it too.
Stranded == {f \in Files : Is(f, "copy") /\ file[f].old /\ ~SrcLive(f)}

\* Then the space for the run's peak; a refusal gives up the hold.
Sweep(p) ==
  /\ At(p, "sweep")
  /\ Removed(Stranded)
  /\ LET left == Cardinality(Spare \cup Stranded)
         need == IF job[p].kind = "retry" THEN 1 ELSE 2
     IN  IF left < need
         THEN End(p) /\ holds' = holds \ HoldsOf(p)
         ELSE To(p, IF job[p].kind = "retry" THEN "rotate" ELSE "build") /\ UNCHANGED holds
  /\ UNCHANGED <<lock, jobs, faults>>

-----------------------------------------------------------------------------
(* build_candidate, build *)

\* A reset of the chain is due: the cycle is golden_build's bake from the master.
CycleFromMaster(p) ==
  /\ At(p, "build") /\ job[p].kind = "cycle"
  /\ job' = [job EXCEPT ![p].pc = "preflight", ![p].kind = "reset"]
  /\ UNCHANGED <<file, newer, later, holds, lock, jobs, faults>>

\* snapshot_source: the stranded copies go, then under the lock a copy named for this pid.
Snapshot(p) ==
  /\ At(p, "build") /\ job[p].kind \in {"cycle", "bake"} /\ job[p].base = NoFile
  /\ lock = NoPid /\ Free # {}
  /\ LET c == NewName IN
       /\ file' = [f \in Files |-> IF f = c THEN Copy(p)
                                   ELSE IF f \in Stranded THEN NoImage ELSE file[f]]
       /\ job' = [job EXCEPT ![p].pc = "baking", ![p].base = c]
  /\ UNCHANGED <<newer, later, holds, lock, jobs, faults>>

\* The packer image and the master are renamed by nothing: no copy.
FromOutside(p) ==
  /\ At(p, "build") /\ job[p].kind \in {"reset", "bake"} /\ job[p].base = NoFile
  /\ To(p, "baking")
  /\ UNCHANGED <<file, newer, later, holds, lock, jobs, faults>>

\* A candidate as the base is freshened; whether the touch succeeds is not looked at.
FromCandidate(p) ==
  /\ At(p, "build") /\ Is(job[p].base, "candidate")
  /\ \E failed \in BOOLEAN :
       /\ Touch(job[p].base, failed)
       /\ job' = [job EXCEPT ![p].pc = "overlay", ![p].stale = failed]
  /\ UNCHANGED <<newer, later, holds, lock, jobs>>

\* Mutant: the hold is written beside a prune that has read the holds.
FromBackupUnlocked(p) ==
  /\ At(p, "build") /\ Is(job[p].base, "backup")
  /\ holds' = holds \cup {Hold(p, job[p].base)}
  /\ To(p, "overlay")
  /\ UNCHANGED <<file, newer, later, lock, jobs, faults>>

\* A retained backup as the base is held, under the lock.
FromBackup(p) ==
  /\ At(p, "build") /\ Is(job[p].base, "backup") /\ lock = NoPid
  /\ holds' = holds \cup {Hold(p, job[p].base)}
  /\ To(p, "overlay")
  /\ UNCHANGED <<file, newer, later, lock, jobs, faults>>

\* qemu-img create, which fails on a base that is gone by now.
Overlay(p) ==
  /\ At(p, "overlay")
  /\ ~Is(job[p].base, "none")
  /\ To(p, "baking")
  /\ UNCHANGED <<file, newer, later, holds, lock, jobs, faults>>

\* What every exit of a bake removes: its own copy of the golden, and its hold.
OwnCopy(p) == IF Is(job[p].base, "copy") THEN {job[p].base} ELSE {}

\* The flattened candidate, read through to the base; the removal of the copy is not looked at.
Built(p) ==
  /\ At(p, "baking") /\ ~Is(job[p].base, "none") /\ Free # {}
  /\ LET c == NewName IN
       /\ \E gone \in {OwnCopy(p), {}} :
            /\ IF gone = OwnCopy(p) THEN UNCHANGED faults ELSE Pays
            /\ file' = [f \in Files |-> IF f = c THEN Candidate
                                        ELSE IF f \in gone THEN NoImage ELSE file[f]]
       /\ job' = [job EXCEPT ![p].pc = "gate", ![p].cand = c, ![p].base = NoFile, ![p].stale = FALSE]
  /\ holds' = holds \ HoldsOf(p)
  /\ UNCHANGED <<newer, later, lock, jobs>>

\* The lock wait, the hold, the base, the guest, a step or the flatten fails.
BakeFails(p) ==
  /\ job[p].pc \in {"build", "overlay", "baking"}
  /\ Removed(OwnCopy(p))
  /\ holds' = holds \ HoldsOf(p)
  /\ End(p)
  /\ UNCHANGED <<lock, jobs, faults>>

\* validate_golden: a rejected candidate is discarded.
Gate(p) ==
  /\ At(p, "gate")
  /\ \/ To(p, "rotate") /\ UNCHANGED <<file, newer, later>>
     \/ Removed({job[p].cand}) /\ End(p)
  /\ UNCHANGED <<holds, lock, jobs, faults>>

-----------------------------------------------------------------------------
(* rotate *)

\* A held lock, or a candidate that is gone, fails fast: nothing is published.
RotateRefused(p) ==
  /\ At(p, "rotate")
  /\ lock # NoPid \/ Is(job[p].cand, "none")
  /\ job' = [job EXCEPT ![p].pc = "after", ![p].kept = TRUE]
  /\ UNCHANGED <<file, newer, later, holds, lock, jobs, faults>>

\* The promotion with the backup of the golden it replaces, or nothing published; then
\* the holds are read.
Promote(p) ==
  /\ At(p, "rotate") /\ lock = NoPid /\ ~Is(job[p].cand, "none")
  /\ lock' = p
  /\ holds' = LiveHolds
  /\ \E kept \in BOOLEAN :
       /\ job' = [job EXCEPT ![p].pc = "dropping", ![p].seen = HeldFiles, ![p].kept = kept]
       /\ IF kept THEN UNCHANGED <<file, newer, later>>
          ELSE /\ Free # {}
               /\ file' = [file EXCEPT ![NewName].kind = "backup"]
               /\ newer' = Latest(newer, NewName) /\ later' = Latest(later, NewName)
  /\ UNCHANGED <<jobs, faults>>

\* The prune of every outcome, then the lock is released.
PromotePrune(p) ==
  /\ At(p, "dropping")
  /\ Removed(Doomed(job[p].cand, job[p].seen))
  /\ lock' = NoPid
  /\ job' = [job EXCEPT ![p].pc = "after", ![p].seen = {}]
  /\ UNCHANGED <<holds, jobs, faults>>

\* A built candidate goes once promoted, and is kept for a retry when nothing was published.
After(p) ==
  /\ At(p, "after") /\ job[p].kind # "retry"
  /\ Removed(IF job[p].kept THEN {} ELSE {job[p].cand})
  /\ End(p)
  /\ UNCHANGED <<holds, lock, jobs, faults>>

\* Mutant: a backup is re-dated as a candidate is.
RetryAfterRedates(p) ==
  /\ At(p, "after") /\ job[p].kind = "retry"
  /\ \E failed \in BOOLEAN :
       /\ failed => job[p].kept /\ Is(job[p].cand, "candidate")
       /\ IF job[p].kept THEN Touch(job[p].cand, failed) ELSE UNCHANGED <<file, faults>>
       /\ job' = [job EXCEPT ![p].pc = "unhold", ![p].stale = failed]
  /\ newer' = IF job[p].kept /\ Is(job[p].cand, "backup") THEN Latest(newer, job[p].cand) ELSE newer
  /\ UNCHANGED <<later, holds, lock, jobs>>

\* A retry that published nothing freshens its candidate, still held; a touch that fails is
\* only warned of.
RetryAfter(p) ==
  /\ At(p, "after") /\ job[p].kind = "retry"
  /\ \E failed \in BOOLEAN :
       /\ failed => job[p].kept /\ Is(job[p].cand, "candidate")
       /\ IF job[p].kept THEN Touch(job[p].cand, failed) ELSE UNCHANGED <<file, faults>>
       /\ job' = [job EXCEPT ![p].pc = "unhold", ![p].stale = failed]
  /\ UNCHANGED <<newer, later, holds, lock, jobs>>

Unhold(p) ==
  /\ At(p, "unhold")
  /\ holds' = holds \ HoldsOf(p)
  /\ End(p)
  /\ UNCHANGED <<file, newer, later, lock, jobs, faults>>

-----------------------------------------------------------------------------
(* Kills and time *)

Killed(p) ==
  /\ Running(p) /\ Pays
  /\ holds' = {IF h.pid = p THEN [h EXCEPT !.live = FALSE] ELSE h : h \in holds}
  /\ lock' = IF lock = p THEN NoPid ELSE lock
  /\ End(p)
  /\ UNCHANGED <<file, newer, later, jobs>>

\* Retention is days and a run is hours: a candidate does not pass it under the run that
\* wrote or freshened it.  Any other file may.
Age(f) ==
  /\ file[f].kind \in {"candidate", "copy"} /\ ~file[f].old
  /\ Is(f, "candidate") => \A p \in Pids : ~Fresh(p, f)
  /\ file' = [file EXCEPT ![f].old = TRUE]
  /\ UNCHANGED <<newer, later, job, holds, lock, jobs, faults>>

-----------------------------------------------------------------------------
(* The specification *)

Init ==
  /\ file = [f \in Files |-> NoImage]
  /\ newer = [f \in Files |-> {}] /\ later = newer
  /\ job = [p \in Pids |-> NoJob]
  /\ holds = {} /\ lock = NoPid
  /\ jobs = 0 /\ faults = 0

Step(p) ==
  \/ Preflight(p) \/ Refuse(p) \/ PreflightPrune(p) \/ Sweep(p)
  \/ CycleFromMaster(p) \/ Snapshot(p) \/ FromOutside(p) \/ FromCandidate(p) \/ FromBackup(p)
  \/ Overlay(p) \/ Built(p) \/ BakeFails(p) \/ Gate(p)
  \/ RotateRefused(p) \/ Promote(p) \/ PromotePrune(p)
  \/ After(p) \/ RetryAfter(p) \/ Unhold(p)

Next ==
  \/ \E p \in Pids : StartCycle(p) \/ StartJob(p) \/ Step(p) \/ Killed(p)
  \/ \E f \in Files : Age(f)

Spec == Init /\ [][Next]_vars

\* A run goes on, time passes, and the timer fires for good, not always with the same pid.
FairSpec ==
  /\ Spec
  /\ \A p \in Pids : WF_vars(Step(p)) /\ SF_vars(StartCycle(p))
  /\ \A f \in Files : WF_vars(Age(f))

-----------------------------------------------------------------------------
(* Properties *)

Image == [kind : {"none", "candidate", "copy", "backup"}, old : BOOLEAN, pid : Pids \cup {NoPid}]
Run   == [kind : {"none", "cycle", "reset", "bake", "retry"},
          pc : {"idle", "preflight", "pruning", "sweep", "build", "overlay", "baking", "gate",
                "rotate", "dropping", "after", "unhold"},
          base : Files \cup {NoFile}, cand : Files \cup {NoFile}, seen : SUBSET Files, kept : BOOLEAN,
          stale : BOOLEAN]

\* A strict total order of the retained backups.
Ordered(order) ==
  LET backups == {f \in Files : Is(f, "backup")} IN
    /\ order \in [Files -> SUBSET backups]
    /\ \A f \in Files \ backups : order[f] = {}
    /\ \A f \in backups : f \notin order[f]
    /\ \A f, g \in backups : f = g \/ f \in order[g] \/ g \in order[f]
    /\ \A f, g, h \in backups : g \in order[f] /\ h \in order[g] => h \in order[f]

TypeOK ==
  /\ file \in [Files -> Image] /\ job \in [Pids -> Run]
  /\ Ordered(newer) /\ Ordered(later)
  /\ holds \in SUBSET [file : Files, pid : Pids, live : BOOLEAN]
  /\ \A p \in Pids : lock = p <=> job[p].pc \in {"pruning", "dropping"}
  /\ jobs \in 0..MaxJobs /\ faults \in 0..MaxFaults

\* The image a running bake's overlay is backed by stays what it was until that bake ends,
\* whoever prunes or promotes meanwhile (_rebake_src_live, the touch and the hold of build).
\* One exception, which nothing reports: golden_build.py:169 does not look at its touch, and
\* a candidate past its retention that the touch has failed to freshen may be pruned.
BackingKept ==
  [][\A p \in Pids :
        LET f == job[p].base IN
          At(p, "baking") /\ job'[p] = job[p] /\ f # NoFile /\ ~(job[p].stale /\ file[f].old)
            => file'[f].kind = file[f].kind]_vars

\* The image an operator has asked to promote stays from the preflight's hold to the end of
\* that run; one kept for another try has its retention ahead of it, unless the run has warned
\* that it could not freshen it (the rotate command's hold and touch).
RetryKept ==
  [][\A p \in Pids : job[p].kind = "retry" /\ job[p].pc \in {"sweep", "rotate", "dropping", "after", "unhold"} =>
        LET f == job[p].cand IN
          /\ file'[f].kind = file[f].kind
          /\ At(p, "unhold") /\ job[p].kept /\ Is(f, "candidate") /\ ~job[p].stale => ~file[f].old]_vars

\* A prune takes a retained backup only when KeepN newer ones were made after it (the order
\* by modification time is the order of the promotions: no touch of a backup).
NewestRetained ==
  [][\A f \in Files : Is(f, "backup") /\ file'[f].kind = "none" =>
        Cardinality(later[f]) >= KeepN]_vars

\* What a run left is reclaimed, each time: an image nobody uses and is no backup, a hold of
\* a process that is gone (_prune_backups, _held_backups, _sweep_stranded_sources).
Litter(f) ==
  \/ file[f].kind \in {"candidate", "copy"} /\ f \notin Used
  \/ \E h \in holds : h.file = f /\ ~h.live

Reclaimed == \A f \in Files : []<>~Litter(f)
=============================================================================
