------------------------- MODULE GoldenBuildProofs -------------------------
(***************************************************************************)
(* That no prune, whoever runs it and whenever, takes the image a bake is  *)
(* backed by, the candidate an operator promotes, or one of the newest     *)
(* backups: for any number of runs, pids, images and kills.                *)
(***************************************************************************)
EXTENDS GoldenBuild, TLAPS

OrderInv == Ordered(newer) /\ Ordered(later) /\ newer = later

\* A prune that has begun knows every hold there is.
HeldSeen ==
  \A q \in Pids : job[q].pc \in {"pruning", "dropping"} => HeldFiles \subseteq job[q].seen

\* What an overlay is backed by: a candidate with its retention ahead, unless its touch failed,
\* a backup with its hold.
BaseKept(p) ==
  job[p].pc \in {"overlay", "baking"} =>
    /\ Is(job[p].base, "candidate") /\ ~job[p].stale => ~file[job[p].base].old
    /\ Is(job[p].base, "backup") => Hold(p, job[p].base) \in holds

\* A copy of the golden is the base of one bake only, and bears its pid.
CopyOwned(p) == Is(job[p].base, "copy") => At(p, "baking") /\ file[job[p].base].pid = p

\* A retry holds what it promotes from its preflight on.
RetryHeld(p) ==
  job[p].kind = "retry" =>
    /\ job[p].base = job[p].cand /\ job[p].cand # NoFile
    /\ job[p].pc \in {"preflight", "pruning", "sweep", "rotate", "dropping", "after", "unhold"}
    /\ ~At(p, "preflight") => Hold(p, job[p].cand) \in holds
    /\ At(p, "unhold") /\ job[p].kept /\ Is(job[p].cand, "candidate") /\ ~job[p].stale => ~file[job[p].cand].old

\* A candidate a run has built is no other run's.
CandOwned(p) ==
  job[p].kind # "retry" /\ job[p].cand # NoFile =>
    /\ file[job[p].cand].kind \in {"none", "candidate"}
    /\ \A q \in Pids : job[q].base # job[p].cand /\ (q # p => job[q].cand # job[p].cand)

RunInv(p) == BaseKept(p) /\ CopyOwned(p) /\ RetryHeld(p)

IInv ==
  /\ TypeOK /\ OrderInv /\ HeldSeen
  /\ \A p \in Pids : RunInv(p)
  /\ \A p \in Pids : CandOwned(p)

-----------------------------------------------------------------------------
(* Images and their order *)

\* An image somebody uses may go or be freshened; its name is given to no other.
UsedStep ==
  \A f \in Files \cap Used :
    \/ file'[f] = file[f]
    \/ file'[f].kind = "none"
    \/ file'[f].kind = file[f].kind /\ file'[f].pid = file[f].pid /\ ~file'[f].old

\* What a step does to the images as a whole.
FilesStep == file' \in [Files -> Image] /\ OrderInv' /\ UsedStep

LEMMA Images ==
  NoImage \in Image /\ Candidate \in Image /\ NoImage.kind = "none" /\ Candidate.kind = "candidate"
  BY DEF NoImage, Candidate, Image

LEMMA SameFiles ==
  ASSUME TypeOK, OrderInv, UNCHANGED <<file, newer, later>>
  PROVE  FilesStep
<1>1. OrderInv'
  BY DEF OrderInv, Ordered, Is
<1> QED
  BY <1>1 DEF FilesStep, UsedStep, TypeOK

LEMMA SameBackups ==
  ASSUME OrderInv, UNCHANGED <<newer, later>>,
         \A f \in Files : file'[f].kind = "backup" <=> file[f].kind = "backup"
  PROVE  OrderInv'
<1>1. \A f \in Files : Is(f, "backup")' <=> Is(f, "backup")
  BY DEF Is
<1>2. Ordered(newer)'
  BY <1>1 DEF OrderInv, Ordered
<1> QED
  BY <1>2 DEF OrderInv

LEMMA RemovedFiles ==
  ASSUME TypeOK, OrderInv, NEW fs, Removed(fs)
  PROVE  /\ FilesStep
         /\ \A f \in Files : file'[f] = IF f \in fs THEN NoImage ELSE file[f]
<1>1. \A f \in Files : file'[f] = IF f \in fs THEN NoImage ELSE file[f]
  BY DEF Removed
<1>2. file' \in [Files -> Image]
  BY Images DEF Removed, TypeOK
<1>3. UsedStep
  BY <1>1, Images DEF UsedStep
<1>4. \A f \in Files : Is(f, "backup")' <=> Is(f, "backup") /\ f \notin fs
  BY <1>1, Images, BuildAssumption DEF Is
<1>5. \A f \in Files : newer'[f] = IF f \in fs THEN {} ELSE newer[f] \ fs
  BY DEF Removed
<1>6. newer' = later'
  BY DEF Removed, OrderInv
<1>7. Ordered(newer)'
  <2> DEFINE backups == {f \in Files : Is(f, "backup")}
  <2>1. backups' = backups \ fs
    BY <1>4
  <2>2. newer' \in [Files -> SUBSET backups']
    <3>1. \A f \in Files : newer[f] \subseteq backups
      BY DEF OrderInv, Ordered
    <3>2. \A f \in Files : newer'[f] \subseteq backups'
      BY <1>5, <2>1, <3>1
    <3>3. newer' = [f \in Files |-> newer'[f]]
      BY DEF Removed
    <3> QED
      BY <3>2, <3>3
  <2> QED
    BY <1>4, <1>5, <2>2 DEF OrderInv, Ordered
<1> QED
  BY <1>1, <1>2, <1>3, <1>6, <1>7 DEF FilesStep, OrderInv

LEMMA LatestFiles ==
  ASSUME TypeOK, OrderInv, NEW b \in Free,
         file' = [file EXCEPT ![b].kind = "backup"],
         newer' = Latest(newer, b), later' = Latest(later, b)
  PROVE  /\ FilesStep
         /\ \A f \in Files \ {b} : file'[f] = file[f]
<1>1. b \in Files /\ b \notin Used /\ file[b].kind = "none"
  BY DEF Free, Spare, Is
<1>2. /\ \A f \in Files \ {b} : file'[f] = file[f]
      /\ file'[b].kind = "backup" /\ file' \in [Files -> Image]
  BY <1>1 DEF TypeOK, Image
<1>3. UsedStep
  BY <1>1, <1>2 DEF UsedStep
<1>4. \A f \in Files : Is(f, "backup")' <=> f = b \/ Is(f, "backup")
  BY <1>1, <1>2, BuildAssumption DEF Is
<1>5. ~Is(b, "backup") /\ \A f \in Files : b \notin newer[f]
  BY <1>1 DEF Is, OrderInv, Ordered
<1>6. \A f \in Files : newer'[f] = IF f = b THEN {} ELSE IF Is(f, "backup") THEN newer[f] \cup {b} ELSE {}
  BY DEF Latest
<1>7. newer' = later'
  BY DEF OrderInv
<1>8. Ordered(newer)'
  <2> DEFINE backups == {f \in Files : Is(f, "backup")}
  <2>1. backups' = backups \cup {b}
    BY <1>1, <1>4
  <2>2. newer' \in [Files -> SUBSET backups']
    <3>1. \A f \in Files : newer[f] \subseteq backups
      BY DEF OrderInv, Ordered
    <3>2. \A f \in Files : newer'[f] \subseteq backups'
      BY <1>6, <2>1, <3>1
    <3>3. newer' = [f \in Files |-> newer'[f]]
      BY DEF Latest
    <3> QED
      BY <3>2, <3>3
  <2> QED
    BY <1>4, <1>5, <1>6, <2>2 DEF OrderInv, Ordered
<1> QED
  BY <1>2, <1>3, <1>7, <1>8 DEF FilesStep, OrderInv

\* A touch of an image in use.
LEMMA TouchedFiles ==
  ASSUME TypeOK, OrderInv, NEW f \in Files \cup {NoFile}, file' = Touched(f), UNCHANGED <<newer, later>>
  PROVE  /\ FilesStep
         /\ \A g \in Files : file'[g].kind = file[g].kind
         /\ Is(f, "candidate") => ~file'[f].old
<1>1. CASE Is(f, "candidate")
  <2>1. f \in Files /\ file' = [file EXCEPT ![f].old = FALSE]
    BY <1>1 DEF Is, Touched
  <2>2. /\ file' \in [Files -> Image] /\ \A g \in Files \ {f} : file'[g] = file[g]
        /\ file'[f].kind = file[f].kind /\ file'[f].pid = file[f].pid /\ ~file'[f].old
    BY <2>1 DEF TypeOK, Image
  <2>3. UsedStep
    BY <2>2 DEF UsedStep
  <2>4. \A g \in Files : file'[g].kind = file[g].kind
    BY <2>2
  <2> QED
    BY <2>2, <2>3, <2>4, SameBackups DEF FilesStep
<1>2. CASE ~Is(f, "candidate")
  BY <1>2, SameFiles DEF Touched
<1> QED
  BY <1>1, <1>2

LEMMA TouchFiles ==
  ASSUME TypeOK, OrderInv, NEW f \in Files \cup {NoFile}, NEW failed \in BOOLEAN, Touch(f, failed),
         UNCHANGED <<newer, later>>
  PROVE  /\ FilesStep
         /\ \A g \in Files : file'[g].kind = file[g].kind
         /\ ~failed /\ Is(f, "candidate") => ~file'[f].old
         /\ UNCHANGED faults \/ Pays
<1>1. CASE failed
  BY <1>1, SameFiles DEF Touch
<1>2. CASE ~failed
  BY <1>2, TouchedFiles DEF Touch
<1> QED
  BY <1>1, <1>2

-----------------------------------------------------------------------------
(* What a run's step leaves of the others *)

Locking == {"pruning", "dropping"}

\* A run's step takes the lock, gives it up or leaves it as the run's new step says.
LEMMA LockStep ==
  ASSUME TypeOK, NEW p \in Pids, NEW j \in Run, job' = [job EXCEPT ![p] = j],
         j.pc \in Locking => lock \in {NoPid, p},
         lock' = IF j.pc \in Locking THEN p ELSE IF lock = p THEN NoPid ELSE lock
  PROVE  \A q \in Pids : lock' = q <=> job'[q].pc \in Locking
<1> SUFFICES ASSUME NEW q \in Pids PROVE lock' = q <=> job'[q].pc \in Locking
  OBVIOUS
<1>1. lock = q <=> job[q].pc \in Locking
  BY DEF TypeOK, Locking
<1>2. CASE q = p
  <2>1. job'[q] = j
    BY <1>2 DEF TypeOK
  <2> QED
    BY <1>2, <2>1, BuildAssumption
<1>3. CASE q # p
  <2>1. job'[q] = job[q]
    BY <1>3 DEF TypeOK
  <2> QED
    BY <1>1, <1>3, <2>1, BuildAssumption
<1> QED
  BY <1>2, <1>3

\* No hold is made while another run prunes.
LEMMA SeenStep ==
  ASSUME TypeOK, HeldSeen, NEW p \in Pids, NEW j \in Run, job' = [job EXCEPT ![p] = j],
         lock = NoPid \/ {h \in holds' : h.live} \subseteq holds,
         j.pc \in Locking => {h.file : h \in {k \in holds' : k.live}} \subseteq j.seen
  PROVE  HeldSeen'
<1> SUFFICES ASSUME NEW q \in Pids, job'[q].pc \in Locking PROVE HeldFiles' \subseteq job'[q].seen
  BY DEF HeldSeen, Locking
<1>1. CASE q = p
  BY <1>1 DEF TypeOK, HeldFiles, LiveHolds
<1>2. CASE q # p
  <2>1. job'[q] = job[q]
    BY <1>2 DEF TypeOK
  <2>2. lock = q /\ HeldFiles \subseteq job[q].seen
    BY <2>1 DEF TypeOK, HeldSeen, Locking
  <2>3. {h \in holds' : h.live} \subseteq holds
    BY <2>2, BuildAssumption
  <2>4. HeldFiles' \subseteq HeldFiles
    BY <2>3 DEF HeldFiles, LiveHolds
  <2> QED
    BY <2>1, <2>2, <2>4
<1> QED
  BY <1>1, <1>2

LEMMA OtherRuns ==
  ASSUME TypeOK, NEW q \in Pids, job'[q] = job[q], UsedStep, RunInv(q),
         \A h \in holds : h.live /\ h.pid = q => h \in holds'
  PROVE  RunInv(q)'
<1>1. \A f : Hold(q, f) \in holds => Hold(q, f) \in holds'
  BY DEF Hold
<1>2. job[q].base \in (Files \cap Used) \cup {NoFile} /\ job[q].cand \in (Files \cap Used) \cup {NoFile}
  BY DEF TypeOK, Run, Used
<1>3. BaseKept(q)'
  BY <1>1, <1>2 DEF RunInv, BaseKept, UsedStep, Is
<1>4. CopyOwned(q)'
  BY <1>2 DEF RunInv, CopyOwned, UsedStep, Is, At
<1>5. RetryHeld(q)'
  BY <1>1, <1>2 DEF RunInv, RetryHeld, UsedStep, Is, At
<1> QED
  BY <1>3, <1>4, <1>5 DEF RunInv

\* A run that names no image it did not name leaves every candidate to its owner.
LEMMA CandStep ==
  ASSUME TypeOK, UsedStep, \A q \in Pids : CandOwned(q),
         NEW p \in Pids, NEW j \in Run, job' = [job EXCEPT ![p] = j],
         j.base \in {job[p].base, NoFile}, j.cand \in {job[p].cand, NoFile},
         j.kind # "retry" /\ j.cand # NoFile => job[p].kind # "retry"
  PROVE  \A q \in Pids : CandOwned(q)'
<1> SUFFICES ASSUME NEW q \in Pids, job'[q].kind # "retry", job'[q].cand # NoFile
             PROVE  /\ file'[job'[q].cand].kind \in {"none", "candidate"}
                    /\ \A r \in Pids : job'[r].base # job'[q].cand /\ (r # q => job'[r].cand # job'[q].cand)
  BY DEF CandOwned
<1>1. /\ \A r \in Pids \ {p} : job'[r] = job[r]
      /\ job'[p] = j
  BY DEF TypeOK
<1>2. job'[q].cand = job[q].cand /\ job[q].kind # "retry" /\ job[q].cand # NoFile
  BY <1>1
<1>3. job[q].cand \in Files \cap Used
  BY <1>2 DEF TypeOK, Run, Used
<1>4. CandOwned(q)
  OBVIOUS
<1>5. file'[job[q].cand].kind \in {"none", "candidate"}
  BY <1>2, <1>3, <1>4 DEF CandOwned, UsedStep
<1>6. ASSUME NEW r \in Pids
      PROVE  job'[r].base # job[q].cand /\ (r # q => job'[r].cand # job[q].cand)
  <2>1. job'[r].base \in {job[r].base, NoFile} /\ job'[r].cand \in {job[r].cand, NoFile}
    BY <1>1
  <2> QED
    BY <1>2, <1>4, <2>1 DEF CandOwned
<1> QED
  BY <1>2, <1>5, <1>6

HoldType == [file : Files, pid : Pids, live : BOOLEAN]

\* What a run's step keeps, whatever the images, the holds and the lock become.
LEMMA StepKeeps ==
  ASSUME IInv, NEW p \in Pids, NEW j \in Run, job' = [job EXCEPT ![p] = j], FilesStep,
         holds' \in SUBSET HoldType,
         \A h \in holds : h.live /\ h.pid # p => h \in holds',
         lock = NoPid \/ {h \in holds' : h.live} \subseteq holds,
         j.pc \in Locking => {h.file : h \in {k \in holds' : k.live}} \subseteq j.seen,
         j.pc \in Locking => lock \in {NoPid, p},
         lock' = IF j.pc \in Locking THEN p ELSE IF lock = p THEN NoPid ELSE lock,
         jobs' \in 0..MaxJobs, faults' \in 0..MaxFaults,
         RunInv(p)', \A q \in Pids : CandOwned(q)'
  PROVE  IInv'
<1>1. job' \in [Pids -> Run]
  BY DEF IInv, TypeOK
<1>2. \A q \in Pids : lock' = q <=> job'[q].pc \in Locking
  BY LockStep DEF IInv
<1>3. TypeOK'
  BY <1>1, <1>2 DEF TypeOK, FilesStep, OrderInv, Locking, HoldType
<1>4. HeldSeen'
  BY SeenStep DEF IInv
<1>5. \A q \in Pids : RunInv(q)'
  <2> SUFFICES ASSUME NEW q \in Pids, q # p PROVE RunInv(q)'
    OBVIOUS
  <2>1. job'[q] = job[q]
    BY DEF IInv, TypeOK
  <2> QED
    BY <2>1, OtherRuns DEF IInv, FilesStep
<1> QED
  BY <1>3, <1>4, <1>5 DEF IInv, FilesStep

\* A base that is not a bake's own copy is no copy.
LEMMA NoCopy ==
  ASSUME IInv, NEW p \in Pids, UsedStep, ~At(p, "baking")
  PROVE  job[p].base = NoFile \/ file'[job[p].base].kind # "copy"
<1>1. job[p].base # NoFile => job[p].base \in Files \cap Used
  BY DEF IInv, TypeOK, Run, Used
<1>2. job[p].base = NoFile \/ file[job[p].base].kind # "copy"
  BY DEF IInv, RunInv, CopyOwned, Is
<1> QED
  BY <1>1, <1>2 DEF UsedStep

\* A run between its steps: no overlay, no retry.
LEMMA QuietRun ==
  ASSUME NEW p \in Pids, NEW j \in Run, job'[p] = j, j.kind # "retry", j.pc \notin {"overlay", "baking"},
         j.base = NoFile \/ file'[j.base].kind # "copy"
  PROVE  RunInv(p)'
  BY DEF RunInv, BaseKept, CopyOwned, RetryHeld, Is, At

\* A retry's step.
LEMMA RetryRun ==
  ASSUME NEW p \in Pids, NEW j \in Run, job'[p] = j, j.base = j.cand, j.cand # NoFile,
         j.pc \in {"preflight", "pruning", "sweep", "rotate", "dropping", "after", "unhold"},
         j.pc # "preflight" => Hold(p, j.cand) \in holds',
         j.pc = "unhold" /\ j.kept /\ file'[j.cand].kind = "candidate" /\ ~j.stale => ~file'[j.cand].old,
         file'[j.base].kind # "copy"
  PROVE  RunInv(p)'
  BY DEF RunInv, BaseKept, CopyOwned, RetryHeld, Is, At

LEMMA NoJobRun ==
  /\ NoJob \in Run /\ NoJob.kind = "none" /\ NoJob.pc = "idle"
  /\ NoJob.base = NoFile /\ NoJob.cand = NoFile
  BY DEF NoJob, Run

\* A run that ends, with or without its images and its holds.
LEMMA EndKeeps ==
  ASSUME IInv, NEW p \in Pids, End(p), FilesStep, holds' \in SUBSET HoldType,
         \A h \in holds : h.live /\ h.pid # p => h \in holds',
         {h \in holds' : h.live} \subseteq holds,
         lock' = IF lock = p THEN NoPid ELSE lock, jobs' = jobs, faults' \in 0..MaxFaults
  PROVE  IInv'
<1>1. job' = [job EXCEPT ![p] = NoJob] /\ job'[p] = NoJob
  BY DEF End, IInv, TypeOK
<1>2. RunInv(p)'
  BY <1>1, NoJobRun, QuietRun
<1>3. \A q \in Pids : CandOwned(q)'
  BY <1>1, NoJobRun, CandStep DEF IInv, FilesStep
<1>4. NoJob.pc \notin Locking
  BY NoJobRun DEF Locking
<1> QED
  BY <1>1, <1>2, <1>3, <1>4, NoJobRun, StepKeeps DEF IInv, TypeOK

LEMMA PaysType ==
  ASSUME faults \in 0..MaxFaults, Pays
  PROVE  faults' \in 0..MaxFaults
  BY BuildAssumption DEF Pays

-----------------------------------------------------------------------------
(* The start of a run and its preflight *)

LEMMA StartKeeps ==
  ASSUME IInv, NEW p \in Pids, NEW kind \in {"cycle", "bake", "retry"}, NEW f \in Files \cup {NoFile},
         At(p, "idle"), Start(p, kind, f), UNCHANGED <<file, newer, later, holds, lock, faults>>,
         jobs' \in 0..MaxJobs, kind = "retry" => f # NoFile,
         f # NoFile => file[f].kind \in {"candidate", "backup"},
         \A q \in Pids : job[q].cand = f => f = NoFile \/ job[q].kind = "retry"
  PROVE  IInv'
<1> DEFINE j == [kind |-> kind, pc |-> "preflight", base |-> f,
                 cand |-> IF kind = "retry" THEN f ELSE NoFile, seen |-> {}, kept |-> FALSE,
                 stale |-> FALSE]
<1>1. job' = [job EXCEPT ![p] = j] /\ job'[p] = j /\ j \in Run
  BY DEF Start, IInv, TypeOK, Run
<1>2. j.kind = kind /\ j.pc = "preflight" /\ j.base = f /\ j.cand = IF kind = "retry" THEN f ELSE NoFile
  OBVIOUS
<1> HIDE DEF j
<1>3. FilesStep /\ file' = file
  BY SameFiles DEF IInv
<1>4. RunInv(p)'
  BY <1>1, <1>2, <1>3, QuietRun, RetryRun
<1>5. \A q \in Pids : CandOwned(q)'
  <2> SUFFICES ASSUME NEW q \in Pids, job'[q].kind # "retry", job'[q].cand # NoFile
               PROVE  /\ file'[job'[q].cand].kind \in {"none", "candidate"}
                      /\ \A r \in Pids : job'[r].base # job'[q].cand /\ (r # q => job'[r].cand # job'[q].cand)
    BY DEF CandOwned
  <2>1. \A r \in Pids \ {p} : job'[r] = job[r]
    BY <1>1 DEF IInv, TypeOK
  <2>2. q # p /\ job'[q] = job[q]
    BY <1>1, <1>2, <2>1
  <2>3. CandOwned(q) /\ job[q].cand # f
    BY <2>2 DEF IInv
  <2> QED
    BY <1>1, <1>2, <1>3, <2>1, <2>2, <2>3 DEF CandOwned
<1>6. j.pc \notin Locking /\ lock # p
  BY <1>2 DEF Locking, At, IInv, TypeOK
<1> QED
  BY <1>1, <1>3, <1>4, <1>5, <1>6, StepKeeps DEF IInv, TypeOK, HoldType

LEMMA StartCycleKeeps ==
  ASSUME IInv, NEW p \in Pids, StartCycle(p)
  PROVE  IInv'
  BY StartKeeps DEF StartCycle, IInv, TypeOK

LEMMA StartJobKeeps ==
  ASSUME IInv, NEW p \in Pids, StartJob(p)
  PROVE  IInv'
<1>1. PICK f \in {g \in Files : file[g].kind \in {"candidate", "backup"}} \cup {NoFile} :
        /\ \A q \in Pids : job[q].cand = f => f = NoFile \/ job[q].kind = "retry"
        /\ Start(p, "bake", f) \/ (f # NoFile /\ Start(p, "retry", f))
  BY DEF StartJob
<1>2. jobs' \in 0..MaxJobs
  BY BuildAssumption DEF StartJob, IInv, TypeOK
<1>3. PICK kind \in {"cycle", "bake", "retry"} : Start(p, kind, f) /\ (kind = "retry" => f # NoFile)
  BY <1>1
<1>4. f \in Files \cup {NoFile} /\ (f # NoFile => file[f].kind \in {"candidate", "backup"})
  BY <1>1
<1>5. At(p, "idle") /\ UNCHANGED <<file, newer, later, holds, lock, faults>>
  BY DEF StartJob
<1> QED
  BY <1>1, <1>2, <1>3, <1>4, <1>5, StartKeeps

\* A retry past its preflight has its hold; one that ends, a candidate with its retention ahead.
RetryMoves(p, j) ==
  j.kind = "retry" =>
    /\ j.pc \in {"pruning", "sweep", "rotate", "dropping", "after", "unhold"}
    /\ Hold(p, j.cand) \in holds'
    /\ j.pc = "unhold" /\ j.kept /\ file'[j.cand].kind = "candidate" /\ ~j.stale => ~file'[j.cand].old

\* A run that goes on with the images it has, no overlay among its steps.
LEMMA MoveKeeps ==
  ASSUME IInv, NEW p \in Pids, NEW j \in Run, job' = [job EXCEPT ![p] = j], FilesStep,
         j.base = job[p].base, j.cand = job[p].cand, j.kind = "retry" <=> job[p].kind = "retry",
         ~At(p, "baking"), j.pc \notin {"overlay", "baking"},
         RetryMoves(p, j),
         holds' \in SUBSET HoldType,
         \A h \in holds : h.live /\ h.pid # p => h \in holds',
         lock = NoPid \/ {h \in holds' : h.live} \subseteq holds,
         j.pc \in Locking => {h.file : h \in {k \in holds' : k.live}} \subseteq j.seen,
         j.pc \in Locking => lock \in {NoPid, p},
         lock' = IF j.pc \in Locking THEN p ELSE IF lock = p THEN NoPid ELSE lock,
         jobs' = jobs, faults' \in 0..MaxFaults
  PROVE  IInv'
<1>1. job'[p] = j
  BY DEF IInv, TypeOK
<1>2. j.base = NoFile \/ file'[j.base].kind # "copy"
  BY NoCopy DEF FilesStep
<1>3. RunInv(p)'
  <2>1. CASE j.kind # "retry"
    BY <1>1, <1>2, <2>1, QuietRun
  <2>2. CASE j.kind = "retry"
    <3>1. j.base = j.cand /\ j.cand # NoFile
      BY <2>2 DEF IInv, RunInv, RetryHeld
    <3> QED
      BY <1>1, <1>2, <2>2, <3>1, RetryRun DEF RetryMoves
  <2> QED
    BY <2>1, <2>2
<1>4. \A q \in Pids : CandOwned(q)'
  BY CandStep DEF IInv, FilesStep
<1>5. jobs' \in 0..MaxJobs
  BY DEF IInv, TypeOK
<1> QED
  BY <1>3, <1>4, <1>5, StepKeeps

Steps == {"pruning", "sweep", "build", "overlay", "baking", "gate", "rotate", "dropping", "after", "unhold"}

\* A run whose step and holds as read change.
LEMMA JobAt ==
  ASSUME TypeOK, NEW p \in Pids, NEW s \in Steps, NEW seen \in SUBSET Files, NEW kept \in BOOLEAN,
         job' = [job EXCEPT ![p].pc = s, ![p].seen = seen, ![p].kept = kept]
  PROVE  /\ job' = [job EXCEPT ![p] = job'[p]] /\ job'[p] \in Run
         /\ job'[p].pc = s /\ job'[p].seen = seen /\ job'[p].kept = kept
         /\ job'[p].kind = job[p].kind /\ job'[p].base = job[p].base /\ job'[p].cand = job[p].cand
  BY DEF TypeOK, Run, Steps

LEMMA RunTypes ==
  ASSUME TypeOK, NEW p \in Pids
  PROVE  job[p].seen \in SUBSET Files /\ job[p].kept \in BOOLEAN
  BY DEF TypeOK, Run

LEMMA ToStep ==
  ASSUME TypeOK, NEW p \in Pids, NEW s \in Steps, To(p, s)
  PROVE  /\ job' = [job EXCEPT ![p] = job'[p]] /\ job'[p] \in Run
         /\ job'[p].pc = s /\ job'[p].seen = job[p].seen /\ job'[p].kept = job[p].kept
         /\ job'[p].stale = job[p].stale
         /\ job'[p].kind = job[p].kind /\ job'[p].base = job[p].base /\ job'[p].cand = job[p].cand
  BY DEF TypeOK, Run, To, Steps

\* A run that goes on after a touch, which may have failed.
LEMMA TouchStep ==
  ASSUME TypeOK, NEW p \in Pids, NEW s \in Steps, NEW failed \in BOOLEAN,
         job' = [job EXCEPT ![p].pc = s, ![p].stale = failed]
  PROVE  /\ job' = [job EXCEPT ![p] = job'[p]] /\ job'[p] \in Run
         /\ job'[p].pc = s /\ job'[p].stale = failed /\ job'[p].kept = job[p].kept
         /\ job'[p].kind = job[p].kind /\ job'[p].base = job[p].base /\ job'[p].cand = job[p].cand
  BY DEF TypeOK, Run, Steps

LEMMA HoldTypes ==
  ASSUME TypeOK
  PROVE  /\ holds \in SUBSET HoldType /\ LiveHolds \in SUBSET HoldType /\ HeldFiles \in SUBSET Files
         /\ LiveHolds = {h \in holds : h.live}
         /\ \A p \in Pids, f \in Files : Hold(p, f) \in HoldType /\ Hold(p, f).file = f /\ Hold(p, f).pid = p /\ Hold(p, f).live
  BY DEF TypeOK, HoldType, LiveHolds, HeldFiles, Hold

LEMMA PreflightKeeps ==
  ASSUME IInv, NEW p \in Pids, Preflight(p)
  PROVE  IInv'
<1> DEFINE mine == IF job[p].kind = "retry" THEN {Hold(p, job[p].base)} ELSE {}
           seen == {h.file : h \in holds'}
<1>1. /\ At(p, "preflight") /\ lock = NoPid /\ lock' = p /\ holds' = LiveHolds \cup mine
      /\ job' = [job EXCEPT ![p].pc = "pruning", ![p].seen = seen]
      /\ UNCHANGED <<file, newer, later, jobs, faults>>
  BY DEF Preflight
<1>2. job[p].kind = "retry" => job[p].base \in Files /\ job[p].base = job[p].cand
  BY DEF IInv, RunInv, RetryHeld, TypeOK, Run
<1>3. holds' \in SUBSET HoldType
  BY <1>1, <1>2, HoldTypes DEF IInv
<1>4. seen \in SUBSET Files
  BY <1>3 DEF HoldType
<1> HIDE DEF mine
<1>5. \A h \in holds : h.live /\ h.pid # p => h \in holds'
  BY <1>1 DEF LiveHolds
<1>6. job[p].kind = "retry" => Hold(p, job[p].cand) \in holds'
  BY <1>1, <1>2 DEF mine
<1>7. {h.file : h \in {k \in holds' : k.live}} \subseteq seen
  OBVIOUS
<1> HIDE DEF seen
<1>8. job' = [job EXCEPT ![p].pc = "pruning", ![p].seen = seen, ![p].kept = job[p].kept]
  BY <1>1 DEF IInv, TypeOK, Run
<1>9. /\ job' = [job EXCEPT ![p] = job'[p]] /\ job'[p] \in Run
      /\ job'[p].pc = "pruning" /\ job'[p].seen = seen
      /\ job'[p].kind = job[p].kind /\ job'[p].base = job[p].base /\ job'[p].cand = job[p].cand
  <2>1. "pruning" \in Steps
    BY DEF Steps
  <2> QED
    BY <1>4, <1>8, <2>1, JobAt, RunTypes DEF IInv
<1>10. FilesStep
  BY <1>1, SameFiles DEF IInv
<1>11. ~At(p, "baking")
  BY <1>1 DEF At
<1>12. lock' = p /\ "pruning" \in Locking /\ jobs' = jobs /\ faults' \in 0..MaxFaults
  BY <1>1 DEF Locking, IInv, TypeOK
<1>13. RetryMoves(p, job'[p])
  BY <1>6, <1>9 DEF RetryMoves
<1>14. job'[p].pc \in Locking /\ job'[p].pc \notin {"overlay", "baking"}
  BY <1>9, <1>12
<1> DEFINE j == job'[p]
<1> HIDE DEF j
<1>15. /\ j \in Run /\ job' = [job EXCEPT ![p] = j] /\ RetryMoves(p, j)
       /\ j.base = job[p].base /\ j.cand = job[p].cand /\ j.kind = job[p].kind
       /\ j.pc \in Locking /\ j.pc \notin {"overlay", "baking"}
       /\ {h.file : h \in {k \in holds' : k.live}} \subseteq j.seen
  BY <1>7, <1>9, <1>13, <1>14 DEF j
<1> QED
  BY <1>1, <1>3, <1>5, <1>10, <1>11, <1>12, <1>15, MoveKeeps

LEMMA RefuseKeeps ==
  ASSUME IInv, NEW p \in Pids, Refuse(p)
  PROVE  IInv'
<1>1. At(p, "preflight") /\ End(p) /\ UNCHANGED <<file, newer, later, holds, lock, jobs>>
  BY DEF Refuse
<1>2. faults' \in 0..MaxFaults
  BY PaysType DEF Refuse, IInv, TypeOK
<1>3. FilesStep
  BY <1>1, SameFiles DEF IInv
<1>4. lock # p
  BY <1>1 DEF IInv, TypeOK, At
<1> QED
  BY <1>1, <1>2, <1>3, <1>4, EndKeeps, HoldTypes DEF IInv

\* The end of a prune, and of the lock.
LEMMA PruneMoves ==
  ASSUME IInv, NEW p \in Pids, job[p].pc \in Locking, NEW fs, Removed(fs),
         NEW j \in Run, job' = [job EXCEPT ![p] = j], j.pc \in {"sweep", "after"},
         j.kind = job[p].kind, j.base = job[p].base, j.cand = job[p].cand,
         lock' = NoPid, UNCHANGED <<holds, jobs, faults>>
  PROVE  IInv'
<1>1. FilesStep
  BY RemovedFiles DEF IInv
<1>2. lock = p /\ ~At(p, "baking") /\ j.pc \notin Locking
  BY DEF IInv, TypeOK, At, Locking
<1>3. job[p].kind = "retry" => Hold(p, job[p].cand) \in holds'
  BY DEF IInv, RunInv, RetryHeld, Locking, At
<1>4. holds' \in SUBSET HoldType /\ faults' \in 0..MaxFaults
  BY DEF IInv, TypeOK, HoldType
<1>5. RetryMoves(p, j)
  BY <1>3 DEF RetryMoves
<1>6. {h \in holds' : h.live} \subseteq holds /\ \A h \in holds : h \in holds'
  OBVIOUS
<1> QED
  BY <1>1, <1>2, <1>4, <1>5, <1>6, MoveKeeps

LEMMA PreflightPruneKeeps ==
  ASSUME IInv, NEW p \in Pids, PreflightPrune(p)
  PROVE  IInv'
<1>1. /\ job' = [job EXCEPT ![p].pc = "sweep", ![p].seen = {}, ![p].kept = job[p].kept]
      /\ {} \in SUBSET Files /\ "sweep" \in Steps /\ job[p].pc \in Locking
  BY DEF PreflightPrune, At, Locking, Steps, IInv, TypeOK, Run
<1> DEFINE j == job'[p]
<1>2. /\ job' = [job EXCEPT ![p] = j] /\ j \in Run /\ j.pc = "sweep"
      /\ j.kind = job[p].kind /\ j.base = job[p].base /\ j.cand = job[p].cand
  BY <1>1, JobAt, RunTypes DEF IInv
<1> HIDE DEF j
<1> QED
  BY <1>1, <1>2, PruneMoves DEF PreflightPrune

LEMMA PromotePruneKeeps ==
  ASSUME IInv, NEW p \in Pids, PromotePrune(p)
  PROVE  IInv'
<1>1. /\ job' = [job EXCEPT ![p].pc = "after", ![p].seen = {}, ![p].kept = job[p].kept]
      /\ {} \in SUBSET Files /\ "after" \in Steps /\ job[p].pc \in Locking
  BY DEF PromotePrune, At, Locking, Steps, IInv, TypeOK, Run
<1> DEFINE j == job'[p]
<1>2. /\ job' = [job EXCEPT ![p] = j] /\ j \in Run /\ j.pc = "after"
      /\ j.kind = job[p].kind /\ j.base = job[p].base /\ j.cand = job[p].cand
  BY <1>1, JobAt, RunTypes DEF IInv
<1> HIDE DEF j
<1> QED
  BY <1>1, <1>2, PruneMoves DEF PromotePrune

\* A move without the lock and with the holds as they are.
LEMMA PlainMove ==
  ASSUME IInv, NEW p \in Pids, NEW j \in Run, job' = [job EXCEPT ![p] = j], FilesStep,
         j.base = job[p].base, j.cand = job[p].cand, j.kind = "retry" <=> job[p].kind = "retry",
         job[p].pc \in {"sweep", "build", "gate", "rotate", "after"},
         j.pc \notin Locking \cup {"overlay", "baking"},
         j.kind = "retry" => j.pc \in {"rotate", "after", "unhold"},
         j.pc = "unhold" /\ j.kept /\ file'[j.cand].kind = "candidate" /\ ~j.stale => ~file'[j.cand].old,
         UNCHANGED <<holds, lock, jobs>>, UNCHANGED faults \/ Pays
  PROVE  IInv'
<1>1. RetryMoves(p, j)
  BY DEF RetryMoves, IInv, RunInv, RetryHeld, At
<1>2. ~At(p, "baking") /\ lock # p
  BY DEF At, IInv, TypeOK
<1>3. j.pc \notin Locking /\ j.pc \notin {"overlay", "baking"}
  OBVIOUS
<1>4. {h \in holds' : h.live} \subseteq holds /\ \A h \in holds : h \in holds'
  OBVIOUS
<1>5. holds' \in SUBSET HoldType /\ faults' \in 0..MaxFaults /\ jobs' = jobs /\ lock' = lock
  BY PaysType DEF IInv, TypeOK, HoldType
<1> QED
  BY <1>1, <1>2, <1>3, <1>4, <1>5, MoveKeeps

LEMMA GivenUp ==
  ASSUME IInv, NEW p \in Pids, holds' = holds \ HoldsOf(p)
  PROVE  /\ holds' \in SUBSET HoldType /\ {h \in holds' : h.live} \subseteq holds
         /\ \A h \in holds : h.live /\ h.pid # p => h \in holds'
  BY HoldTypes DEF HoldsOf, IInv

LEMMA Unlocked ==
  ASSUME IInv, NEW p \in Pids, job[p].pc \notin Locking
  PROVE  lock # p
  BY DEF IInv, TypeOK, Locking

LEMMA SweepKeeps ==
  ASSUME IInv, NEW p \in Pids, Sweep(p)
  PROVE  IInv'
<1>1. FilesStep
  BY RemovedFiles DEF Sweep, IInv
<1>2. At(p, "sweep") /\ UNCHANGED <<lock, jobs, faults>>
  BY DEF Sweep
<1>3. \/ End(p) /\ holds' = holds \ HoldsOf(p)
      \/ To(p, IF job[p].kind = "retry" THEN "rotate" ELSE "build") /\ UNCHANGED holds
  BY DEF Sweep
<1>4. CASE End(p) /\ holds' = holds \ HoldsOf(p)
  <2>1. lock # p
    BY <1>2, Unlocked DEF At, Locking
  <2> QED
    BY <1>1, <1>2, <1>4, <2>1, GivenUp, EndKeeps DEF IInv, TypeOK
<1>5. CASE To(p, IF job[p].kind = "retry" THEN "rotate" ELSE "build") /\ UNCHANGED holds
  <2> DEFINE s == IF job[p].kind = "retry" THEN "rotate" ELSE "build"
  <2>1. s \in Steps /\ To(p, s) /\ s \notin Locking \cup {"overlay", "baking", "unhold"} /\ (job[p].kind = "retry" => s = "rotate")
    BY <1>5 DEF Steps, Locking
  <2> HIDE DEF s
  <2>2. /\ job' = [job EXCEPT ![p] = job'[p]] /\ job'[p] \in Run /\ job'[p].pc = s
        /\ job'[p].kind = job[p].kind /\ job'[p].base = job[p].base /\ job'[p].cand = job[p].cand
    BY <2>1, ToStep DEF IInv
  <2> QED
    BY <1>1, <1>2, <1>5, <2>1, <2>2, PlainMove DEF At
<1> QED
  BY <1>3, <1>4, <1>5

LEMMA CycleFromMasterKeeps ==
  ASSUME IInv, NEW p \in Pids, CycleFromMaster(p)
  PROVE  IInv'
<1>1. /\ At(p, "build") /\ job[p].kind = "cycle"
      /\ UNCHANGED <<file, newer, later, holds, lock, jobs, faults>>
  BY DEF CycleFromMaster
<1>2. /\ job' = [job EXCEPT ![p] = job'[p]] /\ job'[p] \in Run /\ job'[p].pc = "preflight"
      /\ job'[p].kind = "reset" /\ job'[p].base = job[p].base /\ job'[p].cand = job[p].cand
  BY DEF CycleFromMaster, IInv, TypeOK, Run
<1>3. FilesStep
  BY <1>1, SameFiles DEF IInv
<1> QED
  BY <1>1, <1>2, <1>3, PlainMove DEF At, Locking

LEMMA GateKeeps ==
  ASSUME IInv, NEW p \in Pids, Gate(p)
  PROVE  IInv'
<1>1. At(p, "gate") /\ UNCHANGED <<holds, lock, jobs, faults>>
  BY DEF Gate
<1>2. CASE To(p, "rotate") /\ UNCHANGED <<file, newer, later>>
  <2>1. /\ job' = [job EXCEPT ![p] = job'[p]] /\ job'[p] \in Run /\ job'[p].pc = "rotate"
        /\ job'[p].kind = job[p].kind /\ job'[p].base = job[p].base /\ job'[p].cand = job[p].cand
    BY <1>2, ToStep DEF IInv, Steps
  <2>2. FilesStep
    BY <1>2, SameFiles DEF IInv
  <2> QED
    BY <1>1, <2>1, <2>2, PlainMove DEF At, Locking
<1>3. CASE Removed({job[p].cand}) /\ End(p)
  <2>1. FilesStep
    BY <1>3, RemovedFiles DEF IInv
  <2>2. lock # p
    BY <1>1, Unlocked DEF At, Locking
  <2> QED
    BY <1>1, <1>3, <2>1, <2>2, HoldTypes, EndKeeps DEF IInv, TypeOK
<1> QED
  BY <1>2, <1>3 DEF Gate

LEMMA RotateRefusedKeeps ==
  ASSUME IInv, NEW p \in Pids, RotateRefused(p)
  PROVE  IInv'
<1>1. At(p, "rotate") /\ UNCHANGED <<file, newer, later, holds, lock, jobs, faults>>
  BY DEF RotateRefused
<1>2. /\ job' = [job EXCEPT ![p] = job'[p]] /\ job'[p] \in Run /\ job'[p].pc = "after"
      /\ job'[p].kind = job[p].kind /\ job'[p].base = job[p].base /\ job'[p].cand = job[p].cand
  BY DEF RotateRefused, IInv, TypeOK, Run
<1>3. FilesStep
  BY <1>1, SameFiles DEF IInv
<1> QED
  BY <1>1, <1>2, <1>3, PlainMove DEF At, Locking

LEMMA RetryAfterKeeps ==
  ASSUME IInv, NEW p \in Pids, RetryAfter(p)
  PROVE  IInv'
<1>1. At(p, "after") /\ job[p].kind = "retry" /\ UNCHANGED <<newer, later, holds, lock, jobs>>
  BY DEF RetryAfter
<1>2. PICK failed \in BOOLEAN :
        /\ IF job[p].kept THEN Touch(job[p].cand, failed) ELSE UNCHANGED <<file, faults>>
        /\ job' = [job EXCEPT ![p].pc = "unhold", ![p].stale = failed]
  BY DEF RetryAfter
<1>3. /\ job' = [job EXCEPT ![p] = job'[p]] /\ job'[p] \in Run /\ job'[p].pc = "unhold"
      /\ job'[p].stale = failed /\ job'[p].kept = job[p].kept
      /\ job'[p].kind = job[p].kind /\ job'[p].base = job[p].base /\ job'[p].cand = job[p].cand
  BY <1>2, TouchStep DEF IInv, Steps
<1>4. job[p].cand \in Files
  BY <1>1 DEF IInv, RunInv, RetryHeld, TypeOK, Run
<1>5. /\ FilesStep /\ (UNCHANGED faults \/ Pays)
      /\ (job[p].kept /\ file'[job[p].cand].kind = "candidate" /\ ~failed => ~file'[job[p].cand].old)
  <2>1. CASE job[p].kept
    <3>1. /\ FilesStep /\ (UNCHANGED faults \/ Pays) /\ file'[job[p].cand].kind = file[job[p].cand].kind
          /\ (~failed /\ Is(job[p].cand, "candidate") => ~file'[job[p].cand].old)
      BY <1>1, <1>2, <1>4, <2>1, TouchFiles DEF IInv
    <3> QED
      BY <1>4, <3>1, BuildAssumption DEF Is
  <2>2. CASE ~job[p].kept
    BY <1>1, <1>2, <2>2, SameFiles DEF IInv
  <2> QED
    BY <2>1, <2>2
<1> QED
  BY <1>1, <1>3, <1>5, PlainMove DEF At, Locking

LEMMA UnholdKeeps ==
  ASSUME IInv, NEW p \in Pids, Unhold(p)
  PROVE  IInv'
<1>1. /\ At(p, "unhold") /\ End(p) /\ holds' = holds \ HoldsOf(p)
      /\ UNCHANGED <<file, newer, later, lock, jobs, faults>>
  BY DEF Unhold
<1>2. FilesStep
  BY <1>1, SameFiles DEF IInv
<1>3. lock # p
  BY <1>1, Unlocked DEF At, Locking
<1> QED
  BY <1>1, <1>2, <1>3, GivenUp, EndKeeps DEF IInv, TypeOK

LEMMA AfterKeeps ==
  ASSUME IInv, NEW p \in Pids, After(p)
  PROVE  IInv'
<1>1. At(p, "after") /\ End(p) /\ UNCHANGED <<holds, lock, jobs, faults>>
  BY DEF After
<1>2. FilesStep
  BY RemovedFiles DEF After, IInv
<1>3. lock # p
  BY <1>1, Unlocked DEF At, Locking
<1> QED
  BY <1>1, <1>2, <1>3, HoldTypes, EndKeeps DEF IInv, TypeOK

LEMMA BakeFailsKeeps ==
  ASSUME IInv, NEW p \in Pids, BakeFails(p)
  PROVE  IInv'
<1>1. /\ job[p].pc \in {"build", "overlay", "baking"} /\ End(p) /\ holds' = holds \ HoldsOf(p)
      /\ UNCHANGED <<lock, jobs, faults>>
  BY DEF BakeFails
<1>2. FilesStep
  BY RemovedFiles DEF BakeFails, IInv
<1>3. lock # p
  BY <1>1, Unlocked DEF Locking
<1> QED
  BY <1>1, <1>2, <1>3, GivenUp, EndKeeps DEF IInv, TypeOK

LEMMA KilledKeeps ==
  ASSUME IInv, NEW p \in Pids, Killed(p)
  PROVE  IInv'
<1>1. /\ Pays /\ End(p) /\ lock' = (IF lock = p THEN NoPid ELSE lock)
      /\ holds' = {IF h.pid = p THEN [h EXCEPT !.live = FALSE] ELSE h : h \in holds}
      /\ UNCHANGED <<file, newer, later, jobs>>
  BY DEF Killed
<1>2. \A h \in holds : [h EXCEPT !.live = FALSE] \in HoldType /\ ~[h EXCEPT !.live = FALSE].live
  BY DEF IInv, TypeOK, HoldType
<1>3. /\ holds' \in SUBSET HoldType /\ {h \in holds' : h.live} \subseteq holds
      /\ \A h \in holds : h.live /\ h.pid # p => h \in holds'
  <2> DEFINE dead(h) == [h EXCEPT !.live = FALSE]
  <2>1. holds' = {IF h.pid = p THEN dead(h) ELSE h : h \in holds} /\ \A h \in holds : dead(h) \in HoldType /\ ~dead(h).live
    BY <1>1, <1>2
  <2>2. holds \in SUBSET HoldType
    BY HoldTypes DEF IInv
  <2> HIDE DEF dead
  <2>3. holds' \in SUBSET HoldType /\ {h \in holds' : h.live} \subseteq holds
    BY <2>1, <2>2
  <2>4. \A h \in holds : h.live /\ h.pid # p => h \in holds'
    BY <2>1
  <2> QED
    BY <2>3, <2>4
<1>4. FilesStep
  BY <1>1, SameFiles DEF IInv
<1>5. faults' \in 0..MaxFaults
  BY <1>1, PaysType DEF IInv, TypeOK
<1> QED
  BY <1>1, <1>3, <1>4, <1>5, EndKeeps

LEMMA NewNames ==
  ASSUME Free # {}
  PROVE  /\ NewName \in Free /\ NewName \in Files /\ NewName \notin Used /\ file[NewName].kind = "none"
         /\ NewName # NoFile
         /\ \A q \in Pids : job[q].base # NewName /\ job[q].cand # NewName
<1>1. NewName \in Free
  BY DEF NewName
<1> QED
  BY <1>1, BuildAssumption DEF Free, Spare, Is, Used

LEMMA PromoteKeeps ==
  ASSUME IInv, NEW p \in Pids, Promote(p)
  PROVE  IInv'
<1>1. PICK kept \in BOOLEAN :
        /\ job' = [job EXCEPT ![p].pc = "dropping", ![p].seen = HeldFiles, ![p].kept = kept]
        /\ IF kept THEN UNCHANGED <<file, newer, later>>
           ELSE /\ Free # {}
                /\ file' = [file EXCEPT ![NewName].kind = "backup"]
                /\ newer' = Latest(newer, NewName) /\ later' = Latest(later, NewName)
  BY DEF Promote
<1>2. At(p, "rotate") /\ lock = NoPid /\ lock' = p /\ holds' = LiveHolds /\ UNCHANGED <<jobs, faults>>
  BY DEF Promote
<1>3. FilesStep
  <2>1. CASE kept
    BY <1>1, <2>1, SameFiles DEF IInv
  <2>2. CASE ~kept
    <3> DEFINE b == NewName
    <3>1. b \in Free /\ file' = [file EXCEPT ![b].kind = "backup"] /\ newer' = Latest(newer, b) /\ later' = Latest(later, b)
      BY <1>1, <2>2, NewNames
    <3> HIDE DEF b
    <3> QED
      BY <3>1, LatestFiles DEF IInv
  <2> QED
    BY <2>1, <2>2
<1>4. /\ holds' \in SUBSET HoldType
      /\ \A h \in holds : h.live => h \in holds'
      /\ HeldFiles \in SUBSET Files
  BY <1>2, HoldTypes DEF IInv
<1>5. {h.file : h \in {k \in holds' : k.live}} \subseteq HeldFiles
  BY <1>2 DEF HeldFiles, LiveHolds
<1>6. /\ job' = [job EXCEPT ![p] = job'[p]] /\ job'[p] \in Run
      /\ job'[p].pc = "dropping" /\ job'[p].seen = HeldFiles
      /\ job'[p].kind = job[p].kind /\ job'[p].base = job[p].base /\ job'[p].cand = job[p].cand
  <2>1. "dropping" \in Steps
    BY DEF Steps
  <2> QED
    BY <1>1, <1>4, <2>1, JobAt DEF IInv
<1>7. RetryMoves(p, job'[p])
  <2>1. job[p].kind = "retry" => Hold(p, job[p].cand) \in holds /\ Hold(p, job[p].cand).live
    BY <1>2 DEF IInv, RunInv, RetryHeld, At, Hold
  <2> QED
    BY <1>4, <1>6, <2>1 DEF RetryMoves
<1>8. job'[p].pc \in Locking /\ job'[p].pc \notin {"overlay", "baking"} /\ ~At(p, "baking")
  BY <1>2, <1>6 DEF Locking, At
<1> DEFINE j == job'[p]
<1> HIDE DEF j
<1>9. /\ j \in Run /\ job' = [job EXCEPT ![p] = j] /\ RetryMoves(p, j)
      /\ j.base = job[p].base /\ j.cand = job[p].cand /\ j.kind = job[p].kind
      /\ j.pc \in Locking /\ j.pc \notin {"overlay", "baking"}
      /\ {h.file : h \in {k \in holds' : k.live}} \subseteq j.seen
  BY <1>5, <1>6, <1>7, <1>8 DEF j
<1>10. jobs' = jobs /\ faults' \in 0..MaxFaults
  BY <1>2 DEF IInv, TypeOK
<1> QED
  BY <1>2, <1>3, <1>4, <1>8, <1>9, <1>10, MoveKeeps

-----------------------------------------------------------------------------
(* The overlay and what it is backed by *)

\* A step of a bake with an overlay, or about to have one.
LEMMA BakeKeeps ==
  ASSUME IInv, NEW p \in Pids, NEW j \in Run, job' = [job EXCEPT ![p] = j], FilesStep,
         j.kind # "retry", job[p].pc \notin Locking, j.pc \in {"overlay", "baking"},
         j.base # NoFile /\ file'[j.base].kind = "candidate" /\ ~j.stale => ~file'[j.base].old,
         j.base # NoFile /\ file'[j.base].kind = "backup" => Hold(p, j.base) \in holds',
         j.base # NoFile /\ file'[j.base].kind = "copy" => j.pc = "baking" /\ file'[j.base].pid = p,
         holds' \in SUBSET HoldType, \A h \in holds : h \in holds',
         lock = NoPid \/ holds' = holds, UNCHANGED <<lock, jobs>>, UNCHANGED faults \/ Pays,
         \A q \in Pids : CandOwned(q)'
  PROVE  IInv'
<1>1. job'[p] = j
  BY DEF IInv, TypeOK
<1>2. RunInv(p)'
  BY <1>1 DEF RunInv, BaseKept, CopyOwned, RetryHeld, Is, At
<1>3. lock # p /\ j.pc \notin Locking
  BY Unlocked DEF Locking
<1>4. lock = NoPid \/ {h \in holds' : h.live} \subseteq holds
  OBVIOUS
<1>5. jobs' \in 0..MaxJobs /\ faults' \in 0..MaxFaults /\ lock' = lock
  BY PaysType DEF IInv, TypeOK
<1> QED
  BY <1>2, <1>3, <1>4, <1>5, StepKeeps

\* The kind of a run at build, at overlay or at baking.
LEMMA Bakes ==
  ASSUME IInv, NEW p \in Pids, job[p].pc \in {"build", "overlay", "baking"}
  PROVE  job[p].kind # "retry" /\ job[p].pc \notin Locking
  BY DEF IInv, RunInv, RetryHeld, Locking

\* A bake that goes on from the base it has.
LEMMA OverlayMoves ==
  ASSUME IInv, NEW p \in Pids, NEW j \in Run, job' = [job EXCEPT ![p] = j], FilesStep,
         j.kind = job[p].kind, j.base = job[p].base, j.cand = job[p].cand,
         job[p].pc \in {"build", "overlay"}, j.pc \in {"overlay", "baking"},
         j.base # NoFile /\ file'[j.base].kind = "candidate" /\ ~j.stale => ~file'[j.base].old,
         j.base # NoFile /\ file'[j.base].kind = "backup" => Hold(p, j.base) \in holds',
         holds' \in SUBSET HoldType, \A h \in holds : h \in holds',
         lock = NoPid \/ holds' = holds, UNCHANGED <<lock, jobs>>, UNCHANGED faults \/ Pays
  PROVE  IInv'
<1>1. j.kind # "retry" /\ job[p].pc \notin Locking
  BY Bakes
<1>2. j.base = NoFile \/ file'[j.base].kind # "copy"
  BY NoCopy DEF FilesStep, At
<1>3. \A q \in Pids : CandOwned(q)'
  BY <1>1, CandStep DEF IInv, FilesStep
<1> QED
  BY <1>1, <1>2, <1>3, BakeKeeps

LEMMA FromOutsideKeeps ==
  ASSUME IInv, NEW p \in Pids, FromOutside(p)
  PROVE  IInv'
<1>1. /\ At(p, "build") /\ job[p].base = NoFile /\ To(p, "baking")
      /\ UNCHANGED <<file, newer, later, holds, lock, jobs, faults>>
  BY DEF FromOutside
<1>2. FilesStep
  BY <1>1, SameFiles DEF IInv
<1> DEFINE j == job'[p]
<1>3. /\ job' = [job EXCEPT ![p] = j] /\ j \in Run /\ j.pc = "baking"
      /\ j.kind = job[p].kind /\ j.base = job[p].base /\ j.cand = job[p].cand
  BY <1>1, ToStep DEF IInv, Steps
<1> HIDE DEF j
<1> QED
  BY <1>1, <1>2, <1>3, OverlayMoves, HoldTypes DEF At, IInv

LEMMA FromCandidateKeeps ==
  ASSUME IInv, NEW p \in Pids, FromCandidate(p)
  PROVE  IInv'
<1>1. /\ At(p, "build") /\ Is(job[p].base, "candidate")
      /\ UNCHANGED <<newer, later, holds, lock, jobs>>
  BY DEF FromCandidate
<1>2. PICK failed \in BOOLEAN :
        Touch(job[p].base, failed) /\ job' = [job EXCEPT ![p].pc = "overlay", ![p].stale = failed]
  BY DEF FromCandidate
<1>3. job[p].base \in Files
  BY <1>1 DEF Is, IInv, TypeOK, Run
<1>4. FilesStep /\ (UNCHANGED faults \/ Pays) /\ (~failed => ~file'[job[p].base].old)
      /\ file'[job[p].base].kind = file[job[p].base].kind
  BY <1>1, <1>2, <1>3, TouchFiles DEF IInv
<1>5. file'[job[p].base].kind = "candidate"
  BY <1>1, <1>4 DEF Is
<1> DEFINE j == job'[p]
<1>6. /\ job' = [job EXCEPT ![p] = j] /\ j \in Run /\ j.pc = "overlay" /\ j.stale = failed
      /\ j.kind = job[p].kind /\ j.base = job[p].base /\ j.cand = job[p].cand
  BY <1>2, TouchStep DEF IInv, Steps
<1> HIDE DEF j
<1> QED
  BY <1>1, <1>4, <1>5, <1>6, OverlayMoves, HoldTypes DEF At, IInv

LEMMA FromBackupKeeps ==
  ASSUME IInv, NEW p \in Pids, FromBackup(p)
  PROVE  IInv'
<1>1. /\ At(p, "build") /\ Is(job[p].base, "backup") /\ To(p, "overlay") /\ lock = NoPid
      /\ holds' = holds \cup {Hold(p, job[p].base)}
      /\ UNCHANGED <<file, newer, later, lock, jobs, faults>>
  BY DEF FromBackup
<1>2. job[p].base \in Files
  BY <1>1 DEF Is, IInv, TypeOK, Run
<1>3. FilesStep /\ file'[job[p].base].kind = "backup"
  BY <1>1, SameFiles DEF IInv, Is
<1>4. holds' \in SUBSET HoldType /\ Hold(p, job[p].base) \in holds' /\ \A h \in holds : h \in holds'
  BY <1>1, <1>2, HoldTypes DEF IInv
<1> DEFINE j == job'[p]
<1>5. /\ job' = [job EXCEPT ![p] = j] /\ j \in Run /\ j.pc = "overlay"
      /\ j.kind = job[p].kind /\ j.base = job[p].base /\ j.cand = job[p].cand
  BY <1>1, ToStep DEF IInv, Steps
<1> HIDE DEF j
<1> QED
  BY <1>1, <1>3, <1>4, <1>5, OverlayMoves DEF At

LEMMA OverlayKeeps ==
  ASSUME IInv, NEW p \in Pids, Overlay(p)
  PROVE  IInv'
<1>1. /\ At(p, "overlay") /\ To(p, "baking")
      /\ UNCHANGED <<file, newer, later, holds, lock, jobs, faults>>
  BY DEF Overlay
<1>2. FilesStep
  BY <1>1, SameFiles DEF IInv
<1> DEFINE j == job'[p]
<1>3. /\ job' = [job EXCEPT ![p] = j] /\ j \in Run /\ j.pc = "baking" /\ j.stale = job[p].stale
      /\ j.kind = job[p].kind /\ j.base = job[p].base /\ j.cand = job[p].cand
  BY <1>1, ToStep DEF IInv, Steps
<1> HIDE DEF j
<1>4. /\ (j.base # NoFile /\ file'[j.base].kind = "candidate" /\ ~j.stale => ~file'[j.base].old)
      /\ (j.base # NoFile /\ file'[j.base].kind = "backup" => Hold(p, j.base) \in holds')
  BY <1>1, <1>3 DEF At, Is, IInv, RunInv, BaseKept
<1> QED
  BY <1>1, <1>2, <1>3, <1>4, OverlayMoves, HoldTypes DEF At, IInv

LEMMA SnapshotKeeps ==
  ASSUME IInv, NEW p \in Pids, Snapshot(p)
  PROVE  IInv'
<1> DEFINE c == NewName
<1>1. /\ At(p, "build") /\ job[p].base = NoFile /\ lock = NoPid /\ Free # {}
      /\ file' = [f \in Files |-> IF f = c THEN Copy(p) ELSE IF f \in Stranded THEN NoImage ELSE file[f]]
      /\ job' = [job EXCEPT ![p].pc = "baking", ![p].base = c]
      /\ UNCHANGED <<newer, later, holds, lock, jobs, faults>>
  BY DEF Snapshot
<1>2. /\ c \in Files /\ c \notin Used /\ file[c].kind = "none" /\ c # NoFile
      /\ \A q \in Pids : job[q].base # c /\ job[q].cand # c
  BY <1>1, NewNames
<1> HIDE DEF c
<1> DEFINE j == job'[p]
<1>3. /\ job' = [job EXCEPT ![p] = j] /\ j \in Run /\ j.pc = "baking" /\ j.base = c
      /\ j.kind = job[p].kind /\ j.cand = job[p].cand
  BY <1>1, <1>2 DEF IInv, TypeOK, Run
<1> HIDE DEF j
<1>4. Copy(p) \in Image /\ Copy(p).kind = "copy" /\ Copy(p).pid = p
  BY DEF Copy, Image
<1>5. FilesStep
  <2>1. \A f \in Files : file'[f] = IF f = c THEN Copy(p) ELSE IF f \in Stranded THEN NoImage ELSE file[f]
    BY <1>1
  <2>2. file' \in [Files -> Image]
    BY <1>1, <1>4, Images DEF IInv, TypeOK
  <2>3. UsedStep
    BY <1>2, <2>1, Images DEF UsedStep
  <2>4. \A f \in Files : file'[f].kind = "backup" <=> file[f].kind = "backup"
    BY <1>2, <1>4, <2>1, Images DEF Stranded, Is
  <2> QED
    BY <1>1, <2>2, <2>3, <2>4, SameBackups DEF FilesStep, IInv
<1>6. file'[c].kind = "copy" /\ file'[c].pid = p
  BY <1>1, <1>2, <1>4
<1>7. j.kind # "retry" /\ job[p].pc \notin Locking
  BY <1>1, <1>3, Bakes DEF At
<1>8. \A q \in Pids : CandOwned(q)'
  <2> SUFFICES ASSUME NEW q \in Pids, job'[q].kind # "retry", job'[q].cand # NoFile
               PROVE  /\ file'[job'[q].cand].kind \in {"none", "candidate"}
                      /\ \A r \in Pids : job'[r].base # job'[q].cand /\ (r # q => job'[r].cand # job'[q].cand)
    BY DEF CandOwned
  <2>1. /\ \A r \in Pids \ {p} : job'[r] = job[r]
        /\ job'[p] = j
    BY <1>3 DEF IInv, TypeOK
  <2>2. /\ \A r \in Pids : job'[r].cand = job[r].cand /\ job'[r].kind = job[r].kind
        /\ \A r \in Pids : job'[r].base = job[r].base \/ job'[r].base = c
    BY <1>3, <2>1
  <2>3. CandOwned(q) /\ job[q].cand \in Files \cap Used /\ job[q].cand # c
    BY <1>2, <2>2 DEF IInv, TypeOK, Run, Used
  <2>4. file'[job[q].cand].kind \in {"none", "candidate"}
    BY <1>5, <2>2, <2>3 DEF CandOwned, FilesStep, UsedStep
  <2> QED
    BY <2>2, <2>3, <2>4 DEF CandOwned
<1>9. file'[j.base].kind = "copy" /\ file'[j.base].pid = p /\ j.pc \in {"overlay", "baking"}
  BY <1>3, <1>6
<1>10. holds' \in SUBSET HoldType /\ \A h \in holds : h \in holds'
  BY <1>1, HoldTypes DEF IInv
<1> QED
  BY <1>1, <1>3, <1>5, <1>7, <1>8, <1>9, <1>10, BakeKeeps

LEMMA BuiltKeeps ==
  ASSUME IInv, NEW p \in Pids, Built(p)
  PROVE  IInv'
<1> DEFINE c == NewName
<1>1. PICK gone \in {OwnCopy(p), {}} :
        /\ IF gone = OwnCopy(p) THEN UNCHANGED faults ELSE Pays
        /\ file' = [f \in Files |-> IF f = c THEN Candidate ELSE IF f \in gone THEN NoImage ELSE file[f]]
  BY DEF Built
<1>2. /\ At(p, "baking") /\ Free # {} /\ holds' = holds \ HoldsOf(p)
      /\ job' = [job EXCEPT ![p].pc = "gate", ![p].cand = c, ![p].base = NoFile, ![p].stale = FALSE]
      /\ UNCHANGED <<newer, later, lock, jobs>>
  BY DEF Built
<1>3. /\ c \in Files /\ c \notin Used /\ file[c].kind = "none" /\ c # NoFile
      /\ \A q \in Pids : job[q].base # c /\ job[q].cand # c
  BY <1>2, NewNames
<1> HIDE DEF c
<1> DEFINE j == job'[p]
<1>4. /\ job' = [job EXCEPT ![p] = j] /\ j \in Run /\ j.pc = "gate" /\ j.base = NoFile
      /\ j.kind = job[p].kind /\ j.cand = c
  BY <1>2, <1>3 DEF IInv, TypeOK, Run
<1> HIDE DEF j
<1>5. \A f \in Files : file'[f] = IF f = c THEN Candidate ELSE IF f \in gone THEN NoImage ELSE file[f]
  BY <1>1
<1>6. FilesStep
  <2>1. file' \in [Files -> Image]
    BY <1>1, Images DEF IInv, TypeOK
  <2>2. UsedStep
    BY <1>3, <1>5, Images DEF UsedStep
  <2>3. \A f \in gone : file[f].kind = "copy"
    BY DEF OwnCopy, Is
  <2>4. \A f \in Files : file'[f].kind = "backup" <=> file[f].kind = "backup"
    BY <1>3, <1>5, <2>3, Images
  <2> QED
    BY <1>2, <2>1, <2>2, <2>4, SameBackups DEF FilesStep, IInv
<1>7. job[p].kind # "retry" /\ lock # p /\ j.pc \notin Locking
  BY <1>2, <1>4, Bakes, Unlocked DEF At, Locking
<1>8. RunInv(p)'
  BY <1>4, <1>7, QuietRun DEF IInv, TypeOK
<1>9. \A q \in Pids : CandOwned(q)'
  <2> SUFFICES ASSUME NEW q \in Pids, job'[q].kind # "retry", job'[q].cand # NoFile
               PROVE  /\ file'[job'[q].cand].kind \in {"none", "candidate"}
                      /\ \A r \in Pids : job'[r].base # job'[q].cand /\ (r # q => job'[r].cand # job'[q].cand)
    BY DEF CandOwned
  <2>1. /\ \A r \in Pids \ {p} : job'[r] = job[r]
        /\ job'[p] = j
    BY <1>4 DEF IInv, TypeOK
  <2>2. CASE q = p
    <3>1. file'[c].kind = "candidate"
      BY <1>3, <1>5, Images
    <3> QED
      BY <1>3, <1>4, <2>1, <2>2, <3>1
  <2>3. CASE q # p
    <3>1. job'[q] = job[q] /\ CandOwned(q) /\ job[q].cand \in Files \cap Used /\ job[q].cand # c
      BY <1>3, <2>1, <2>3 DEF IInv, TypeOK, Run, Used
    <3>2. file'[job[q].cand].kind \in {"none", "candidate"}
      BY <1>6, <3>1 DEF CandOwned, FilesStep, UsedStep
    <3> QED
      BY <1>4, <2>1, <3>1, <3>2 DEF CandOwned
  <2> QED
    BY <2>2, <2>3
<1>10. faults' \in 0..MaxFaults /\ jobs' \in 0..MaxJobs /\ lock' = lock
  BY <1>1, <1>2, PaysType DEF IInv, TypeOK
<1>11. /\ holds' \in SUBSET HoldType /\ {h \in holds' : h.live} \subseteq holds
       /\ \A h \in holds : h.live /\ h.pid # p => h \in holds'
  BY <1>2, GivenUp
<1> QED
  BY <1>4, <1>6, <1>7, <1>8, <1>9, <1>10, <1>11, StepKeeps

LEMMA AgeKeeps ==
  ASSUME IInv, NEW f \in Files, Age(f)
  PROVE  IInv'
<1>1. /\ file[f].kind \in {"candidate", "copy"} /\ file' = [file EXCEPT ![f].old = TRUE]
      /\ UNCHANGED <<newer, later, job, holds, lock, jobs, faults>>
      /\ (Is(f, "candidate") => \A p \in Pids : ~Fresh(p, f))
  BY DEF Age
<1>2. /\ file' \in [Files -> Image] /\ \A g \in Files \ {f} : file'[g] = file[g]
      /\ file'[f].kind = file[f].kind /\ file'[f].pid = file[f].pid
  BY <1>1 DEF IInv, TypeOK, Image
<1>3. \A g \in Files : file'[g].kind = file[g].kind /\ file'[g].pid = file[g].pid
  BY <1>2
<1>4. OrderInv'
  BY <1>1, <1>3, SameBackups DEF IInv
<1>5. TypeOK'
  BY <1>1, <1>2, <1>4 DEF IInv, TypeOK, OrderInv
<1>6. HeldSeen'
  BY <1>1 DEF IInv, HeldSeen, HeldFiles, LiveHolds
<1>7. ASSUME NEW p \in Pids PROVE RunInv(p)' /\ CandOwned(p)'
  <2>1. job[p].base \in Files \cup {NoFile} /\ job[p].cand \in Files \cup {NoFile}
    BY DEF IInv, TypeOK, Run
  <2>2. BaseKept(p)'
    BY <1>1, <1>2, <1>3, <2>1 DEF IInv, RunInv, BaseKept, Is, Fresh
  <2>3. RetryHeld(p)'
    BY <1>1, <1>2, <1>3, <2>1 DEF IInv, RunInv, RetryHeld, Is, At, Fresh
  <2>4. CopyOwned(p)'
    BY <1>1, <1>3, <2>1 DEF IInv, RunInv, CopyOwned, Is, At
  <2>5. CandOwned(p)'
    BY <1>1, <1>3, <2>1 DEF IInv, CandOwned
  <2> QED
    BY <2>2, <2>3, <2>4, <2>5 DEF RunInv
<1> QED
  BY <1>4, <1>5, <1>6, <1>7 DEF IInv

-----------------------------------------------------------------------------
(* The invariant *)

LEMMA InitInv ==
  ASSUME Init
  PROVE  IInv
<1>1. \A f \in Files : file[f] = NoImage /\ ~Is(f, "backup")
  BY Images DEF Init, Is
<1>2. \A p \in Pids : job[p] = NoJob
  BY DEF Init
<1>3. Ordered(newer) /\ newer = later
  BY <1>1 DEF Init, Ordered
<1>4. TypeOK
  <2>1. file \in [Files -> Image] /\ job \in [Pids -> Run]
    BY Images, NoJobRun DEF Init
  <2>2. \A p \in Pids : lock = p <=> job[p].pc \in {"pruning", "dropping"}
    BY <1>2, NoJobRun, BuildAssumption DEF Init
  <2>3. holds = {} /\ jobs \in 0..MaxJobs /\ faults \in 0..MaxFaults
    BY BuildAssumption DEF Init
  <2> QED
    BY <1>3, <2>1, <2>2, <2>3 DEF TypeOK
<1>5. HeldSeen
  BY <1>2, NoJobRun DEF HeldSeen
<1>6. \A p \in Pids : RunInv(p) /\ CandOwned(p)
  BY <1>2, NoJobRun DEF RunInv, BaseKept, CopyOwned, RetryHeld, CandOwned, Is, At
<1> QED
  BY <1>3, <1>4, <1>5, <1>6 DEF IInv, OrderInv

LEMMA StutterKeeps ==
  ASSUME IInv, UNCHANGED vars
  PROVE  IInv'
<1>1. FilesStep
  BY SameFiles DEF IInv, vars
<1>2. TypeOK'
  BY <1>1 DEF IInv, TypeOK, FilesStep, OrderInv, vars
<1>3. HeldSeen'
  BY DEF IInv, HeldSeen, HeldFiles, LiveHolds, vars
<1>4. \A p \in Pids : RunInv(p)'
  <2> SUFFICES ASSUME NEW p \in Pids PROVE RunInv(p)'
    OBVIOUS
  <2>1. job'[p] = job[p] /\ \A h \in holds : h \in holds'
    BY DEF vars
  <2> QED
    BY <1>1, <2>1, OtherRuns DEF IInv, FilesStep
<1>5. \A p \in Pids : CandOwned(p)'
  BY DEF IInv, CandOwned, vars
<1> QED
  BY <1>1, <1>2, <1>3, <1>4, <1>5 DEF IInv, FilesStep

LEMMA NextKeeps ==
  ASSUME IInv, [Next]_vars
  PROVE  IInv'
<1>1. ASSUME NEW p \in Pids, Step(p) PROVE IInv'
  BY <1>1, PreflightKeeps, RefuseKeeps, PreflightPruneKeeps, SweepKeeps, CycleFromMasterKeeps, SnapshotKeeps,
     FromOutsideKeeps, FromCandidateKeeps, FromBackupKeeps, OverlayKeeps, BuiltKeeps, BakeFailsKeeps, GateKeeps,
     RotateRefusedKeeps, PromoteKeeps, PromotePruneKeeps, AfterKeeps, RetryAfterKeeps, UnholdKeeps DEF Step
<1> QED
  BY <1>1, StartCycleKeeps, StartJobKeeps, KilledKeeps, AgeKeeps, StutterKeeps DEF Next

\* Every state of a run satisfies the invariant the other theorems follow from: among its parts,
\* a prune that has begun knows every hold, and a copy or a candidate in the making is one run's.
THEOREM BuildInvariance == Spec => []IInv
  BY InitInv, NextKeeps, PTL DEF Spec

\* Every state is of its type; the retained backups are in a strict order by time, and the lock
\* is held exactly while a run prunes or promotes.
THEOREM BuildTypes == Spec => []TypeOK
  BY BuildInvariance, PTL DEF IInv

-----------------------------------------------------------------------------
(* What a prune spares *)

\* The image a run depends on.
Guarded(p, f) ==
  /\ f \in Files
  /\ \/ At(p, "baking") /\ f = job[p].base /\ ~(job[p].stale /\ file[f].old)
     \/ job[p].kind = "retry" /\ job[p].pc \in {"sweep", "rotate", "dropping", "after", "unhold"} /\ f = job[p].cand

LEMMA DoomedSpares ==
  ASSUME IInv, NEW p \in Pids, NEW f, Guarded(p, f), NEW q \in Pids, job[q].pc \in Locking, NEW keep
  PROVE  f \notin Doomed(keep, job[q].seen)
<1>1. HeldFiles \subseteq job[q].seen
  BY DEF IInv, HeldSeen, Locking
<1>2. ASSUME Hold(p, f) \in holds PROVE f \in HeldFiles
  BY <1>2 DEF HeldFiles, LiveHolds, Hold
<1>3. CASE job[p].kind = "retry"
  <2>1. Hold(p, f) \in holds
    BY <1>3 DEF Guarded, IInv, RunInv, RetryHeld, At
  <2> QED
    BY <1>1, <1>2, <2>1 DEF Doomed
<1>4. CASE job[p].kind # "retry"
  <2>1. At(p, "baking") /\ f = job[p].base /\ f \in Files /\ f # NoFile /\ ~(job[p].stale /\ file[f].old)
    BY <1>4, BuildAssumption DEF Guarded
  <2>2. file[f].kind = "candidate" => ~Aged(f) /\ f \notin Surplus
    BY <2>1 DEF IInv, RunInv, BaseKept, Is, At, Aged, Surplus
  <2>3. file[f].kind = "backup" => f \in job[q].seen
    BY <1>1, <1>2, <2>1 DEF IInv, RunInv, BaseKept, Is, At
  <2>4. file[f].kind = "copy" => ~Aged(f) /\ f \notin Surplus
    <3>1. file[f].kind = "copy" => SrcLive(f)
      BY <2>1 DEF IInv, RunInv, CopyOwned, Is, At, SrcLive, Running
    <3> QED
      BY <3>1 DEF Aged, Surplus, Is
  <2>5. file[f].kind = "none" => ~Aged(f) /\ f \notin Surplus
    BY DEF Aged, Surplus, Is
  <2>6. file[f].kind \in {"none", "candidate", "copy", "backup"}
    BY <2>1 DEF IInv, TypeOK, Image
  <2> QED
    BY <2>2, <2>3, <2>4, <2>5, <2>6 DEF Doomed
<1> QED
  BY <1>3, <1>4

LEMMA StrandedSpares ==
  ASSUME IInv, NEW p \in Pids, NEW f, Guarded(p, f)
  PROVE  f \notin Stranded
<1>1. CASE ~At(p, "baking")
  <2>1. file[f].kind # "copy"
    BY <1>1 DEF Guarded, IInv, RunInv, RetryHeld, CopyOwned, Is
  <2> QED
    BY <2>1 DEF Stranded, Is
<1>2. CASE At(p, "baking")
  <2>1. f = job[p].base
    BY <1>2 DEF Guarded, At
  <2> QED
    BY <1>2, <2>1 DEF IInv, RunInv, CopyOwned, Is, At, Stranded, SrcLive, Running
<1> QED
  BY <1>1, <1>2

LEMMA OwnCopySpares ==
  ASSUME IInv, NEW p \in Pids, NEW f, Guarded(p, f), NEW q \in Pids, q # p \/ ~At(p, "baking")
  PROVE  f \notin OwnCopy(q)
<1> SUFFICES ASSUME f = job[q].base, Is(f, "copy") PROVE FALSE
  BY DEF OwnCopy
<1>1. At(q, "baking") /\ file[f].pid = q
  BY DEF IInv, RunInv, CopyOwned
<1>2. f = job[p].base
  BY DEF Guarded, IInv, RunInv, RetryHeld
<1>3. At(p, "baking") /\ file[f].pid = p
  BY <1>2 DEF IInv, RunInv, CopyOwned
<1> QED
  BY <1>1, <1>3

LEMMA CandSpares ==
  ASSUME IInv, NEW p \in Pids, NEW f, Guarded(p, f), NEW q \in Pids, job[q].kind # "retry"
  PROVE  f # job[q].cand
<1> SUFFICES ASSUME f = job[q].cand PROVE FALSE
  OBVIOUS
<1>1. CandOwned(q) /\ f # NoFile
  BY BuildAssumption DEF IInv, Guarded
<1>2. CASE f = job[p].base
  BY <1>1, <1>2 DEF CandOwned
<1>3. CASE job[p].kind = "retry" /\ f = job[p].cand
  <2>1. p # q
    BY <1>3
  <2> QED
    BY <1>1, <1>3, <2>1 DEF CandOwned
<1> QED
  BY <1>2, <1>3 DEF Guarded

LEMMA NewSpares ==
  ASSUME IInv, NEW p \in Pids, NEW f, Guarded(p, f), Free # {}
  PROVE  f # NewName
  BY NewNames DEF Guarded

\* What is not removed stays.
LEMMA NotRemoved ==
  ASSUME NEW fs, Removed(fs), NEW f \in Files, f \notin fs
  PROVE  file'[f] = file[f]
  BY DEF Removed

\* A step that ends or moves a run is not one that leaves it.
LEMMA OtherBakes ==
  ASSUME IInv, NEW p \in Pids, NEW q \in Pids, At(p, "baking") => job'[p] = job[p],
         job'[q].pc # "baking" \/ job[q].pc # "baking"
  PROVE  q # p \/ ~At(p, "baking")
  BY DEF At

\* Whatever step is taken, the image a run depends on is neither removed nor replaced.
LEMMA ImageStays ==
  ASSUME IInv, [Next]_vars, NEW p \in Pids, NEW f, Guarded(p, f), At(p, "baking") => job'[p] = job[p]
  PROVE  file'[f].kind = file[f].kind
<1> f \in Files
  BY DEF Guarded
<1>1. ASSUME file' = file PROVE file'[f].kind = file[f].kind
  BY <1>1
<1>2. ASSUME NEW q \in Pids, PreflightPrune(q) PROVE file'[f].kind = file[f].kind
  <2>1. f \notin Doomed(job[q].base, job[q].seen)
    BY <1>2, DoomedSpares DEF PreflightPrune, At, Locking
  <2> QED
    BY <1>2, <2>1, NotRemoved DEF PreflightPrune
<1>3. ASSUME NEW q \in Pids, PromotePrune(q) PROVE file'[f].kind = file[f].kind
  <2>1. f \notin Doomed(job[q].cand, job[q].seen)
    BY <1>3, DoomedSpares DEF PromotePrune, At, Locking
  <2> QED
    BY <1>3, <2>1, NotRemoved DEF PromotePrune
<1>4. ASSUME NEW q \in Pids, Sweep(q) PROVE file'[f].kind = file[f].kind
  BY <1>4, StrandedSpares, NotRemoved DEF Sweep
<1>5. ASSUME NEW q \in Pids, Snapshot(q) PROVE file'[f].kind = file[f].kind
  <2>1. f # NewName /\ f \notin Stranded
    BY <1>5, StrandedSpares, NewSpares DEF Snapshot
  <2> QED
    BY <1>5, <2>1 DEF Snapshot
<1>6. ASSUME NEW q \in Pids, FromCandidate(q) PROVE file'[f].kind = file[f].kind
  <2>1. PICK failed \in BOOLEAN : Touch(job[q].base, failed) /\ UNCHANGED <<newer, later>>
    BY <1>6 DEF FromCandidate
  <2>2. job[q].base \in Files \cup {NoFile}
    BY DEF IInv, TypeOK, Run
  <2> QED
    BY <2>1, <2>2, TouchFiles DEF IInv
<1>7. ASSUME NEW q \in Pids, Built(q) PROVE file'[f].kind = file[f].kind
  <2>1. job'[q].pc = "gate" /\ Free # {} /\ At(q, "baking")
    BY <1>7 DEF Built, IInv, TypeOK, Run
  <2>2. q # p \/ ~At(p, "baking")
    BY <2>1, OtherBakes
  <2>3. f # NewName /\ f \notin OwnCopy(q)
    BY <2>1, <2>2, NewSpares, OwnCopySpares
  <2>4. PICK gone \in {OwnCopy(q), {}} :
          file' = [g \in Files |-> IF g = NewName THEN Candidate ELSE IF g \in gone THEN NoImage ELSE file[g]]
    BY <1>7 DEF Built
  <2> QED
    BY <2>3, <2>4
<1>8. ASSUME NEW q \in Pids, BakeFails(q) PROVE file'[f].kind = file[f].kind
  <2>1. job'[q].pc = "idle"
    BY <1>8, NoJobRun DEF BakeFails, End, IInv, TypeOK
  <2>2. q # p \/ ~At(p, "baking")
    BY <2>1, OtherBakes
  <2>3. f \notin OwnCopy(q)
    BY <2>2, OwnCopySpares
  <2> QED
    BY <1>8, <2>3, NotRemoved DEF BakeFails
<1>9. ASSUME NEW q \in Pids, Gate(q) PROVE file'[f].kind = file[f].kind
  <2>1. job[q].kind # "retry"
    BY <1>9 DEF Gate, At, IInv, RunInv, RetryHeld
  <2> QED
    BY <1>9, <2>1, CandSpares, NotRemoved DEF Gate
<1>10. ASSUME NEW q \in Pids, After(q) PROVE file'[f].kind = file[f].kind
  <2>1. f # job[q].cand
    BY <1>10, CandSpares DEF After
  <2> QED
    BY <1>10, <2>1, NotRemoved DEF After
<1>11. ASSUME NEW q \in Pids, Promote(q) PROVE file'[f].kind = file[f].kind
  <2>1. file' = file \/ (Free # {} /\ file' = [file EXCEPT ![NewName].kind = "backup"])
    BY <1>11 DEF Promote
  <2>2. CASE file' = file
    BY <2>2
  <2>3. CASE Free # {} /\ file' = [file EXCEPT ![NewName].kind = "backup"]
    <3>1. f # NewName
      BY <2>3, NewSpares
    <3> QED
      BY <2>3, <3>1 DEF IInv, TypeOK
  <2> QED
    BY <2>1, <2>2, <2>3
<1>12. ASSUME NEW q \in Pids, RetryAfter(q) PROVE file'[f].kind = file[f].kind
  <2>1. PICK failed \in BOOLEAN : file' = file \/ (Touch(job[q].cand, failed) /\ UNCHANGED <<newer, later>>)
    BY <1>12 DEF RetryAfter
  <2>2. job[q].cand \in Files \cup {NoFile}
    BY DEF IInv, TypeOK, Run
  <2> QED
    BY <2>1, <2>2, TouchFiles DEF IInv
<1>13. ASSUME NEW g \in Files, Age(g) PROVE file'[f].kind = file[f].kind
  BY <1>13 DEF Age, IInv, TypeOK, Image
<1>14. ASSUME NEW q \in Pids,
              \/ StartCycle(q) \/ StartJob(q) \/ Killed(q) \/ Preflight(q) \/ Refuse(q) \/ CycleFromMaster(q)
              \/ FromOutside(q) \/ FromBackup(q) \/ Overlay(q) \/ RotateRefused(q) \/ Unhold(q)
       PROVE  file' = file
  BY <1>14 DEF StartCycle, StartJob, Killed, Preflight, Refuse, CycleFromMaster, FromOutside, FromBackup, Overlay,
               RotateRefused, Unhold
<1>15. ASSUME UNCHANGED vars PROVE file' = file
  BY <1>15 DEF vars
<1>16. ASSUME NEW q \in Pids, Step(q) PROVE file'[f].kind = file[f].kind
  BY <1>1, <1>2, <1>3, <1>4, <1>5, <1>6, <1>7, <1>8, <1>9, <1>10, <1>11, <1>12, <1>14, <1>16 DEF Step
<1> QED
  BY <1>1, <1>13, <1>14, <1>15, <1>16 DEF Next

\* The image a running bake's overlay is backed by stays what it was until that bake ends,
\* whoever prunes or promotes meanwhile; a candidate that is past its retention, which the
\* bake's unchecked touch failed to freshen, is the one exception.
THEOREM BackingIsKept == Spec => BackingKept
<1>1. IInv /\ [Next]_vars =>
        [\A p \in Pids :
           LET f == job[p].base IN
             At(p, "baking") /\ job'[p] = job[p] /\ f # NoFile /\ ~(job[p].stale /\ file[f].old)
               => file'[f].kind = file[f].kind]_vars
  <2> SUFFICES ASSUME IInv, [Next]_vars, NEW p \in Pids, At(p, "baking"), job'[p] = job[p], job[p].base # NoFile,
                      ~(job[p].stale /\ file[job[p].base].old)
               PROVE  file'[job[p].base].kind = file[job[p].base].kind
    OBVIOUS
  <2>1. Guarded(p, job[p].base)
    BY DEF Guarded, IInv, TypeOK, Run
  <2> QED
    BY <2>1, ImageStays
<1> QED
  BY <1>1, BuildInvariance, PTL DEF Spec, BackingKept

\* The image an operator has asked to promote stays from the preflight's hold to the end of that
\* run; one kept for another try has its retention ahead of it unless the run has warned that
\* its touch failed.
THEOREM RetryIsKept == Spec => RetryKept
<1>1. IInv /\ [Next]_vars =>
        [\A p \in Pids : job[p].kind = "retry" /\ job[p].pc \in {"sweep", "rotate", "dropping", "after", "unhold"} =>
           LET f == job[p].cand IN
             /\ file'[f].kind = file[f].kind
             /\ At(p, "unhold") /\ job[p].kept /\ Is(f, "candidate") /\ ~job[p].stale => ~file[f].old]_vars
  <2> SUFFICES ASSUME IInv, [Next]_vars, NEW p \in Pids, job[p].kind = "retry",
                      job[p].pc \in {"sweep", "rotate", "dropping", "after", "unhold"}
               PROVE  /\ file'[job[p].cand].kind = file[job[p].cand].kind
                      /\ At(p, "unhold") /\ job[p].kept /\ Is(job[p].cand, "candidate") /\ ~job[p].stale
                           => ~file[job[p].cand].old
    OBVIOUS
  <2>1. RetryHeld(p) /\ Guarded(p, job[p].cand) /\ ~At(p, "baking")
    BY DEF Guarded, IInv, RunInv, RetryHeld, TypeOK, Run, At
  <2>2. file'[job[p].cand].kind = file[job[p].cand].kind
    BY <2>1, ImageStays
  <2> QED
    BY <2>1, <2>2 DEF RetryHeld
<1> QED
  BY <1>1, BuildInvariance, PTL DEF Spec, RetryKept

\* A backup goes only by a prune that counted it out.
LEMMA OnlySurplus ==
  ASSUME IInv, [Next]_vars, NEW f \in Files, Is(f, "backup"), file'[f].kind = "none"
  PROVE  f \in Surplus
<1>1. file[f].kind = "backup" /\ file'[f] # file[f]
  BY DEF Is
<1>2. ASSUME NEW fs, Removed(fs) PROVE f \in fs
  BY <1>1, <1>2, NotRemoved
<1>3. ASSUME NEW q \in Pids, PreflightPrune(q) \/ PromotePrune(q) PROVE f \in Surplus
  BY <1>1, <1>2, <1>3 DEF PreflightPrune, PromotePrune, Doomed, Aged
<1>4. ASSUME NEW q \in Pids, Sweep(q) PROVE FALSE
  BY <1>1, <1>2, <1>4 DEF Sweep, Stranded, Is
<1>5. ASSUME NEW q \in Pids, Snapshot(q) PROVE FALSE
  BY <1>1, <1>5, NewNames DEF Snapshot, Stranded, Is, Copy
<1>6. ASSUME NEW q \in Pids, Built(q) PROVE FALSE
  BY <1>1, <1>6, NewNames, Images DEF Built, OwnCopy, Is
<1>7. ASSUME NEW q \in Pids, BakeFails(q) PROVE FALSE
  BY <1>1, <1>2, <1>7 DEF BakeFails, OwnCopy, Is
<1>8. ASSUME NEW q \in Pids, Gate(q) \/ After(q) PROVE FALSE
  <2>1. job[q].kind # "retry"
    BY <1>8 DEF Gate, After, At, IInv, RunInv, RetryHeld
  <2>2. f # job[q].cand
    BY <1>1, <2>1, BuildAssumption DEF IInv, CandOwned
  <2>3. f \in {job[q].cand} \/ f \in {} \/ file' = file
    BY <1>2, <1>8 DEF Gate, After
  <2> QED
    BY <1>1, <2>2, <2>3
<1>9. ASSUME NEW g \in Files \cup {NoFile}, file' = Touched(g) PROVE FALSE
  BY <1>1, <1>9 DEF Touched, Is, IInv, TypeOK, Image
<1>10. ASSUME NEW q \in Pids, FromCandidate(q) \/ RetryAfter(q) PROVE FALSE
  <2>1. job[q].base \in Files \cup {NoFile} /\ job[q].cand \in Files \cup {NoFile}
    BY DEF IInv, TypeOK, Run
  <2>2. PICK g \in Files \cup {NoFile} : file' = Touched(g) \/ file' = file
    BY <1>10, <2>1 DEF FromCandidate, RetryAfter, Touch
  <2> QED
    BY <1>1, <1>9, <2>2
<1>11. ASSUME NEW q \in Pids, Promote(q) PROVE FALSE
  BY <1>1, <1>11, NewNames DEF Promote, IInv, TypeOK, Image
<1>12. ASSUME NEW g \in Files, Age(g) PROVE FALSE
  BY <1>1, <1>12 DEF Age, IInv, TypeOK, Image
<1>13. ASSUME NEW q \in Pids,
              \/ StartCycle(q) \/ StartJob(q) \/ Killed(q) \/ Preflight(q) \/ Refuse(q) \/ CycleFromMaster(q)
              \/ FromOutside(q) \/ FromBackup(q) \/ Overlay(q) \/ RotateRefused(q) \/ Unhold(q)
       PROVE  FALSE
  BY <1>1, <1>13 DEF StartCycle, StartJob, Killed, Preflight, Refuse, CycleFromMaster, FromOutside, FromBackup, Overlay,
                     RotateRefused, Unhold
<1>14. ASSUME NEW q \in Pids, Step(q) PROVE f \in Surplus
  BY <1>3, <1>4, <1>5, <1>6, <1>7, <1>8, <1>10, <1>11, <1>13, <1>14 DEF Step
<1> QED
  BY <1>1, <1>12, <1>13, <1>14 DEF Next, vars

\* A prune takes a retained backup only when KeepN newer ones were made after it.
THEOREM NewestIsRetained == Spec => NewestRetained
<1>1. IInv /\ [Next]_vars =>
        [\A f \in Files : Is(f, "backup") /\ file'[f].kind = "none" => Cardinality(later[f]) >= KeepN]_vars
  <2> SUFFICES ASSUME IInv, [Next]_vars, NEW f \in Files, Is(f, "backup"), file'[f].kind = "none"
               PROVE  Cardinality(later[f]) >= KeepN
    OBVIOUS
  <2>1. Cardinality(newer[f]) >= KeepN
    BY OnlySurplus DEF Surplus
  <2> QED
    BY <2>1 DEF IInv, OrderInv
<1> QED
  BY <1>1, BuildInvariance, PTL DEF Spec, NewestRetained

=============================================================================
