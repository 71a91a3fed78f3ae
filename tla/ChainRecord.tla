---------------------------- MODULE ChainRecord ----------------------------
(***************************************************************************)
(* How many times a golden was rebaked from itself.  RefreshTrust only     *)
(* adds to the kill list, so every GOLDEN_MAX_CHAIN rebakes one starts     *)
(* from the master.  The count is kept in a record beside the golden, in a *)
(* mirror on the root filesystem and, when neither takes a write, in the   *)
(* candidate's own sidecar renamed to a marker; the newest is read.        *)
(*                                                                         *)
(* Each write and removal may fail, or be reported failed after it took    *)
(* effect; a promotion may be killed between any two; builds decide and    *)
(* finish while others promote.                                            *)
(***************************************************************************)
EXTENDS Naturals, FiniteSets

CONSTANTS
  Builds,      \* rebakes in flight
  MaxChain,    \* GOLDEN_MAX_CHAIN
  MaxDepth,    \* bound on rebakes of a golden in a row
  MaxFaults,   \* bound on failed commands and kills
  NoBuild

ASSUME ChainAssumption ==
  /\ MaxChain \in Nat \ {0} /\ MaxDepth \in Nat /\ MaxFaults \in Nat
  /\ MaxChain <= MaxDepth
  /\ NoBuild \notin Builds

VARIABLES
  copies,      \* the small files: the depth each holds and the files modified after it
  golden,      \* the disk golden: rebakes since the master, the depth promoted with it, and two
               \* history fields: what became of that record and whether an earlier one went wrong
  build,       \* each build: its step, its image, the depth for its sidecar and that history
  pc,          \* the step of the promotion that holds the rotation lock, "free" for none
  cur,         \* the candidate it promotes, NoBuild for a backup
  mirrored,    \* _record_chain's local
  faults

vars == <<copies, golden, build, pc, cur, mirrored, faults>>

-----------------------------------------------------------------------------
(* The files *)

Record     == <<"record", NoBuild>>
Mirror     == <<"mirror", NoBuild>>
Sidecar(b) == <<"sidecar", b>>
Marker(b)  == <<"marker", b>>

Sidecars == {Sidecar(b) : b \in Builds}
Markers  == {Marker(b) : b \in Builds}
Names    == {Record, Mirror} \cup Sidecars \cup Markers

Held(f)  == f \in DOMAIN copies
Depth(f) == copies[f].d

\* A write dates its file after every other.
Put(c, f, d) ==
  [g \in DOMAIN c \cup {f} |->
     IF g = f THEN [d |-> d, newer |-> {}] ELSE [d |-> c[g].d, newer |-> c[g].newer \cup {f}]]

Without(c, fs) == [g \in DOMAIN c \ fs |-> [d |-> c[g].d, newer |-> c[g].newer \ fs]]

\* chain_length: the newest of the record, the mirror and the markers, else 0.
Counted(c)    == DOMAIN c \ Sidecars
IsNewest(c, f) == f \in Counted(c) /\ c[f].newer \cap Counted(c) = {}
Newest(c)     == CHOOSE f \in Counted(c) : IsNewest(c, f)
NewestDepth(c) == IF Counted(c) = {} THEN 0 ELSE c[Newest(c)].d

ChainLength == NewestDepth(copies)

\* A command succeeds, fails, or is reported failed by _run's timeout after its effect.
Outcome  == {"ok", "lost", "landed"}
Cost(w)  == IF w = "ok" THEN 0 ELSE 1
Pays(n)  == faults + n <= MaxFaults /\ faults' = faults + n
Wrote(w, f, d) == IF w = "lost" THEN copies ELSE Put(copies, f, d)
Removed(w, f)  == IF w = "lost" THEN copies ELSE Without(copies, {f})

\* _prune_backups: markers older than the record, of those past their hour.
Pruned(aged) ==
  Without(copies, {m \in Markers \cap DOMAIN copies :
                     /\ \E b \in aged : m = Marker(b)
                     /\ Held(Record) /\ Record \in copies[m].newer})

-----------------------------------------------------------------------------
(* A build: snapshot_source and the sidecar.  rebake_source decides without *)
(* the lock, and an operator bakes from either image at any time, so both   *)
(* sources are always open; MasterDue is about what the decision reads.     *)

Idle == [at |-> "none", t |-> 0, d |-> 0, off |-> FALSE]

\* A candidate's name is stamped: none is reused while a file bears it.
Fresh(b) == build[b].at = "none" /\ ~Held(Sidecar(b)) /\ ~Held(Marker(b))

Bakes(b, image) == build' = [build EXCEPT ![b] = image]

FromMaster == [at |-> "baking", t |-> 0, d |-> 0, off |-> FALSE]

\* The master or the packer base: depth 0, no copy and no lock.
BakeMaster(b) ==
  /\ Fresh(b)
  /\ Bakes(b, FromMaster)
  /\ UNCHANGED <<copies, golden, pc, cur, mirrored, faults>>

\* The depth read of the golden may be wrong: its own record went wrong, or one before it.
Miscounted == golden.off \/ golden.gap # "none"

Rebake == [at |-> "baking", t |-> golden.t + 1, d |-> ChainLength + 1, off |-> Miscounted]

\* Mutant: image and depth are read without the lock.
SnapshotUnlocked(b) ==
  /\ Fresh(b) /\ golden.t < MaxDepth
  /\ Bakes(b, Rebake)
  /\ UNCHANGED <<copies, golden, pc, cur, mirrored, faults>>

\* snapshot_source: the golden's bytes and the depth they have, under the rotation lock.
Snapshot(b) ==
  /\ Fresh(b) /\ golden.t < MaxDepth
  /\ pc = "free"
  /\ Bakes(b, Rebake)
  /\ UNCHANGED <<copies, golden, pc, cur, mirrored, faults>>

\* The candidate and its sidecar, whose write is not looked at.
Finish(b) ==
  /\ build[b].at = "baking"
  /\ build' = [build EXCEPT ![b].at = "built", ![b].d = 0]
  /\ \E w \in {"ok", "lost"} : Pays(Cost(w)) /\ copies' = Wrote(w, Sidecar(b), build[b].d)
  /\ UNCHANGED <<golden, pc, cur, mirrored>>

\* _rm_candidate: a failed step, a failed gate, or after its promotion.
RmCandidate(b) ==
  /\ build[b].at # "none" /\ cur # b
  /\ Bakes(b, Idle)
  /\ copies' = Without(copies, {Sidecar(b)})
  /\ UNCHANGED <<golden, pc, cur, mirrored, faults>>

-----------------------------------------------------------------------------
(* Under the lock: rotation_preflight, _rotate_locked, _record_chain *)

\* The prune, then both copies brought to the newest; a record that cannot be written refuses.
Preflight ==
  /\ pc = "free"
  /\ \E aged \in SUBSET Builds, wr, wm \in Outcome :
       LET kept == Pruned(aged)
           want == NewestDepth(kept)
           rec  == Held(Record) /\ Depth(Record) = want
           mir  == Held(Mirror) /\ Depth(Mirror) = want
           s1   == IF rec \/ wr = "lost" THEN kept ELSE Put(kept, Record, want)
           s2   == IF mir \/ wm = "lost" \/ (~rec /\ wr # "ok") THEN s1 ELSE Put(s1, Mirror, want)
       IN  /\ rec => wr = "ok"
           /\ mir \/ (~rec /\ wr # "ok") => wm = "ok"
           /\ Pays(Cost(wr) + Cost(wm))
           /\ copies' = s2
  /\ UNCHANGED <<golden, build, pc, cur, mirrored>>

\* _record_chain reads the sidecar; without one the provenance is unknown.
SidecarDepth(b) == IF b # NoBuild /\ Held(Sidecar(b)) THEN Depth(Sidecar(b)) ELSE MaxChain

Promotes(b, t, off) ==
  /\ pc = "free"
  /\ golden' = [t |-> t, d |-> SidecarDepth(b), gap |-> "none", off |-> off]
  /\ pc' = "mirror" /\ cur' = b /\ mirrored' = FALSE
  /\ UNCHANGED <<copies, build, faults>>

\* _promote of a candidate, or of a backup the operator restores.
Promote(b) == build[b].at = "built" /\ Promotes(b, build[b].t, build[b].off)
Restore    == \E t \in 0..MaxDepth : Promotes(NoBuild, t, FALSE)

WriteMirror ==
  /\ pc = "mirror"
  /\ \E w \in Outcome :
       /\ Pays(Cost(w))
       /\ copies' = Wrote(w, Mirror, golden.d)
       /\ mirrored' = (w = "ok")
  /\ pc' = "record"
  /\ UNCHANGED <<golden, build, cur>>

WriteRecord ==
  /\ pc = "record"
  /\ \E w \in Outcome :
       /\ Pays(Cost(w))
       /\ copies' = Wrote(w, Record, golden.d)
       /\ pc' = IF w = "ok" THEN "tidy" ELSE IF mirrored THEN "rmRecord" ELSE "keep"
  /\ UNCHANGED <<golden, build, cur, mirrored>>

\* The copy that could not be written must not keep the old depth.
RmStale ==
  /\ pc \in {"rmMirror", "rmRecord"}
  /\ \E w \in Outcome :
       /\ Pays(Cost(w))
       /\ copies' = Removed(w, IF pc = "rmMirror" THEN Mirror ELSE Record)
  /\ pc' = IF pc = "rmRecord" THEN "tidy" ELSE "prune"
  /\ UNCHANGED <<golden, build, cur, mirrored>>

\* _keep_as_unrecorded renames the sidecar, which keeps the build's time; without one, or
\* when the rename is reported failed, LOST is logged.
Renamed(b) ==
  LET c     == Without(copies, {Marker(b)})
      as(f) == IF f = Sidecar(b) THEN Marker(b) ELSE IF f = Marker(b) THEN Sidecar(b) ELSE f
  IN  [f \in {as(g) : g \in DOMAIN c} |->
         [d |-> c[as(f)].d, newer |-> {as(g) : g \in c[as(f)].newer}]]

Keep ==
  /\ pc = "keep"
  /\ \/ /\ cur = NoBuild \/ ~Held(Sidecar(cur))
        /\ golden' = [golden EXCEPT !.gap = "lost"]
        /\ pc' = "prune"
        /\ UNCHANGED <<copies, faults>>
     \/ /\ cur # NoBuild /\ Held(Sidecar(cur))
        /\ \E w \in Outcome :
             /\ Pays(Cost(w))
             /\ copies' = IF w = "lost" THEN copies ELSE Renamed(cur)
             /\ golden' = IF w = "ok" THEN golden ELSE [golden EXCEPT !.gap = "lost"]
             /\ pc' = IF w = "ok" THEN "touch" ELSE "prune"
  /\ UNCHANGED <<build, cur, mirrored>>

\* Mutant: the marker keeps the build's time.
TouchNot ==
  /\ pc = "touch"
  /\ pc' = "prune"
  /\ UNCHANGED <<copies, golden, build, cur, mirrored, faults>>

\* The marker must date from the promotion.  The result is not looked at: one that keeps the
\* build's time is logged as kept all the same, though a copy written since outranks it.  The
\* store has just refused the record: that it refuses this too is no further fault.
Touch ==
  /\ pc = "touch"
  /\ \/ /\ copies' = Put(copies, Marker(cur), Depth(Marker(cur)))
        /\ UNCHANGED golden
     \/ /\ golden' = IF IsNewest(copies, Marker(cur)) THEN golden ELSE [golden EXCEPT !.gap = "outranked"]
        /\ UNCHANGED copies
  /\ pc' = "prune"
  /\ UNCHANGED <<build, cur, mirrored, faults>>

\* The sidecar has been recorded: it goes.
Tidy ==
  /\ pc = "tidy"
  /\ copies' = IF cur = NoBuild THEN copies ELSE Without(copies, {Sidecar(cur)})
  /\ pc' = IF mirrored THEN "prune" ELSE "rmMirror"
  /\ UNCHANGED <<golden, build, cur, mirrored, faults>>

Release == pc' = "free" /\ cur' = NoBuild /\ mirrored' = FALSE

Prune ==
  /\ pc = "prune"
  /\ \E aged \in SUBSET Builds : copies' = Pruned(aged)
  /\ Release
  /\ UNCHANGED <<golden, build, faults>>

\* A kill before anything holds the new depth loses it.
Killed ==
  /\ pc # "free" /\ Pays(1)
  /\ golden' = IF pc \in {"mirror", "keep", "touch"} \/ (pc = "record" /\ ~mirrored)
               THEN [golden EXCEPT !.gap = "lost"] ELSE golden
  /\ Release
  /\ UNCHANGED <<copies, build>>

-----------------------------------------------------------------------------
(* The specification *)

\* A golden that predates the count: no copies.
Init ==
  /\ copies = [f \in {} |-> 0]
  /\ golden = [t |-> 0, d |-> 0, gap |-> "none", off |-> FALSE]
  /\ build = [b \in Builds |-> Idle]
  /\ pc = "free" /\ cur = NoBuild /\ mirrored = FALSE
  /\ faults = 0

Recording == WriteMirror \/ WriteRecord \/ RmStale \/ Keep \/ Touch \/ Tidy \/ Prune

Next ==
  \/ \E b \in Builds : BakeMaster(b) \/ Snapshot(b) \/ Finish(b) \/ RmCandidate(b) \/ Promote(b)
  \/ Preflight \/ Restore \/ Recording \/ Killed

Spec == Init /\ [][Next]_vars

-----------------------------------------------------------------------------
(* Properties *)

Image == [t : 0..MaxDepth, d : Nat, gap : {"none", "lost", "outranked"}, off : BOOLEAN]

TypeOK ==
  /\ DOMAIN copies \subseteq Names
  /\ copies \in [DOMAIN copies -> [d : Nat, newer : SUBSET DOMAIN copies]]
  /\ golden \in Image
  /\ build \in [Builds -> [at : {"none", "baking", "built"}, t : 0..MaxDepth, d : Nat, off : BOOLEAN]]
  /\ pc \in {"free", "mirror", "record", "rmMirror", "rmRecord", "keep", "touch", "tidy", "prune"}
  /\ cur \in Builds \cup {NoBuild} /\ (cur # NoBuild => build[cur].at = "built")
  /\ mirrored \in BOOLEAN
  /\ faults \in 0..MaxFaults

\* When no promotion is under way, the depth read is the one promoted with the golden: no
\* stale copy outranks it, whatever writes and removals failed and whatever was killed (the
\* choice of the newest, _record_chain).  Two exceptions: "lost", which was logged or was a kill
\* before anything held the depth; and "outranked", which nothing says: neither record took a
\* write, the marker's touch failed, and a copy written since the bake is newer than the marker.
DepthKept == pc = "free" /\ golden.gap = "none" => ChainLength = golden.d

\* A rebake from the master that is due is seen to be due: the depth read is at least the
\* number of times the golden's bytes were rebaked, up to GOLDEN_MAX_CHAIN, unless a record
\* went wrong as above, this golden's or one it was rebaked from (snapshot_source pairs image
\* and depth under the lock).
MasterDue == pc = "free" /\ ~Miscounted /\ golden.t >= MaxChain => ChainLength >= MaxChain
=============================================================================
