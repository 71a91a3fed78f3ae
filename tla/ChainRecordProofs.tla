-------------------------- MODULE ChainRecordProofs --------------------------
(***************************************************************************)
(* That the depth read is the one promoted with the golden, and a bake     *)
(* from the master that is due is seen to be due: for any number of        *)
(* builds, any schedule of resets and any number of failures.              *)
(***************************************************************************)
EXTENDS ChainRecord, FiniteSetTheorems, TLAPS

\* The dates of the files are a strict total order.
Dated(c) ==
  /\ DOMAIN c \subseteq Names /\ IsFiniteSet(DOMAIN c)
  /\ c \in [DOMAIN c -> [d : Nat, newer : SUBSET DOMAIN c]]
  /\ \A f \in DOMAIN c : f \notin c[f].newer
  /\ \A f, g \in DOMAIN c : f = g \/ f \in c[g].newer \/ g \in c[f].newer
  /\ \A f, g, h \in DOMAIN c : g \in c[f].newer /\ h \in c[g].newer => h \in c[f].newer

\* A depth that will not postpone the bake from the master of an image rebaked t times.
Counts(t, d) == d >= t \/ d >= MaxChain

\* A rebake and its sidecar carry a depth that counts.
BuildInv ==
  \A b \in Builds :
    /\ build[b].at = "baking" => ~Held(Sidecar(b)) /\ (build[b].off \/ Counts(build[b].t, build[b].d))
    /\ build[b].at = "built" /\ Held(Sidecar(b)) => build[b].off \/ Counts(build[b].t, Depth(Sidecar(b)))

GoldenInv == golden.off \/ Counts(golden.t, golden.d)

\* The file holds the promoted depth.
Holds(f) == Held(f) /\ Depth(f) = golden.d

\* What the files say at each step of a promotion.
RecordInv ==
  /\ pc \in {"free", "tidy", "prune"} => golden.gap # "none" \/ ChainLength = golden.d
  /\ pc = "tidy" /\ ~mirrored => IsNewest(copies, Record) /\ Holds(Record)
  /\ pc = "record" /\ mirrored => IsNewest(copies, Mirror) /\ Holds(Mirror)
  /\ pc = "rmMirror" => IsNewest(copies, Record) /\ Holds(Record)
  /\ pc = "rmRecord" => mirrored
  /\ pc = "rmRecord" => /\ Holds(Mirror) /\ copies[Mirror].newer \cap Counted(copies) \subseteq {Record}
                        /\ Record \in copies[Mirror].newer => Holds(Record)
  /\ pc \in {"mirror", "record", "keep"} /\ cur # NoBuild /\ Held(Sidecar(cur)) => Holds(Sidecar(cur))
  /\ pc = "touch" => cur # NoBuild /\ Holds(Marker(cur))

IInv == TypeOK /\ Dated(copies) /\ BuildInv /\ GoldenInv /\ RecordInv

-----------------------------------------------------------------------------
(* Dates *)

LEMMA NamesDiffer ==
  /\ Record # Mirror /\ {Record, Mirror} \cap (Sidecars \cup Markers) = {} /\ Sidecars \cap Markers = {}
  /\ \A b \in Builds : Sidecar(b) \in Sidecars /\ Marker(b) \in Markers
  /\ \A a, b \in Builds : Sidecar(a) = Sidecar(b) => a = b
  BY DEF Record, Mirror, Sidecar, Marker, Sidecars, Markers

\* A finite set of dated files that is not empty has a newest one.
LEMMA NewestExists ==
  ASSUME NEW c, Dated(c), NEW S \in SUBSET DOMAIN c, S # {}
  PROVE  \E f \in S : c[f].newer \cap S = {}
<1> DEFINE after(f) == c[f].newer \cap S
           T == {after(f) : f \in S}
<1>1. IsFiniteSet(S)
  BY FS_Subset DEF Dated
<1>2. T \subseteq FiniteSubsetsOf(S) /\ T # {}
  <2>1. \A f \in S : IsFiniteSet(after(f)) /\ after(f) \subseteq S
    BY <1>1, FS_Intersection
  <2> QED
    BY <2>1 DEF FiniteSubsetsOf
<1>3. PICK x \in T : \A y \in T : <<y, x>> \notin StrictSubsetOrdering(S)
  <2> HIDE DEF T
  <2> QED
    BY <1>2, FS_StrictSubsetOrderingWellFounded, WFMin
<1>4. PICK f \in S : x = after(f)
  BY <1>3
<1>5. ASSUME NEW g \in after(f) PROVE FALSE
  <2>1. g \in S /\ g \in c[f].newer
    BY <1>5
  <2>2. after(g) \subseteq after(f) /\ g \notin after(g)
    BY <2>1 DEF Dated
  <2>3. <<after(g), after(f)>> \in StrictSubsetOrdering(S)
    <3>1. after(g) # after(f)
      BY <1>5, <2>2
    <3> QED
      BY <2>2, <3>1 DEF StrictSubsetOrdering
  <2> QED
    BY <1>3, <1>4, <2>1, <2>3
<1> QED
  BY <1>4, <1>5

LEMMA NewestIsOne ==
  ASSUME NEW c, Dated(c), NEW f, IsNewest(c, f)
  PROVE  Counted(c) # {} /\ Newest(c) = f /\ NewestDepth(c) = c[f].d
<1>1. \A g : IsNewest(c, g) => g = f
  BY DEF IsNewest, Counted, Dated
<1>2. Newest(c) = f
  BY <1>1 DEF Newest, IsNewest
<1> QED
  BY <1>2 DEF NewestDepth, IsNewest

LEMMA NewestIsNewest ==
  ASSUME NEW c, Dated(c), Counted(c) # {}
  PROVE  IsNewest(c, Newest(c)) /\ NewestDepth(c) = c[Newest(c)].d
<1>1. \E f \in Counted(c) : IsNewest(c, f)
  BY NewestExists DEF Counted, IsNewest
<1> QED
  BY <1>1 DEF Newest, NewestDepth

LEMMA NewestDepthType ==
  ASSUME NEW c, Dated(c)
  PROVE  NewestDepth(c) \in Nat
<1>1. CASE Counted(c) = {}
  BY <1>1 DEF NewestDepth
<1>2. CASE Counted(c) # {}
  BY <1>2, NewestIsNewest DEF IsNewest, Counted, Dated
<1> QED
  BY <1>1, <1>2

-----------------------------------------------------------------------------
(* Writes, removals and renames *)

\* e is c after a write.
IsPut(e, c, f, d) ==
  /\ Dated(e) /\ DOMAIN e = DOMAIN c \cup {f}
  /\ e[f].d = d /\ e[f].newer = {}
  /\ \A g \in DOMAIN c \ {f} : e[g].d = c[g].d /\ e[g].newer = c[g].newer \cup {f}

\* e is c without some files.
IsWithout(e, c, fs) ==
  /\ Dated(e) /\ DOMAIN e = DOMAIN c \ fs
  /\ \A g \in DOMAIN c \ fs : e[g].d = c[g].d /\ e[g].newer = c[g].newer \ fs

LEMMA PutFiles ==
  ASSUME NEW c, Dated(c), NEW f \in Names, NEW d \in Nat
  PROVE  IsPut(Put(c, f, d), c, f, d)
<1> DEFINE e == Put(c, f, d)
<1>1. DOMAIN e = DOMAIN c \cup {f} /\ e[f] = [d |-> d, newer |-> {}]
  BY DEF Put
<1>2. ASSUME NEW g \in DOMAIN c \ {f}
      PROVE  e[g] = [d |-> c[g].d, newer |-> c[g].newer \cup {f}]
  BY <1>2 DEF Put
<1>3. e \in [DOMAIN e -> [d : Nat, newer : SUBSET DOMAIN e]]
  <2>1. \A g \in DOMAIN e : e[g] \in [d : Nat, newer : SUBSET DOMAIN e]
    BY <1>1, <1>2 DEF Dated
  <2>2. e = [g \in DOMAIN e |-> e[g]]
    BY <1>1 DEF Put
  <2> QED
    BY <2>1, <2>2
<1>4. IsFiniteSet(DOMAIN e) /\ DOMAIN e \subseteq Names
  BY <1>1, FS_AddElement DEF Dated
<1> HIDE DEF e
<1>5. \A g \in DOMAIN e : g \notin e[g].newer
  BY <1>1, <1>2 DEF Dated
<1>6. \A g, h \in DOMAIN e : g = h \/ g \in e[h].newer \/ h \in e[g].newer
  BY <1>1, <1>2 DEF Dated
<1>7. \A g, h, k \in DOMAIN e : h \in e[g].newer /\ k \in e[h].newer => k \in e[g].newer
  BY <1>1, <1>2 DEF Dated
<1>8. Dated(e)
  BY <1>3, <1>4, <1>5, <1>6, <1>7 DEF Dated
<1> QED
  <2>1. IsPut(e, c, f, d)
    BY <1>1, <1>2, <1>8 DEF IsPut
  <2> QED
    BY <2>1 DEF e

LEMMA WithoutFiles ==
  ASSUME NEW c, Dated(c), NEW fs
  PROVE  IsWithout(Without(c, fs), c, fs)
<1> DEFINE e == Without(c, fs)
<1>1. DOMAIN e = DOMAIN c \ fs
  BY DEF Without
<1>2. ASSUME NEW g \in DOMAIN e
      PROVE  e[g] = [d |-> c[g].d, newer |-> c[g].newer \ fs]
  BY <1>2 DEF Without
<1>3. e \in [DOMAIN e -> [d : Nat, newer : SUBSET DOMAIN e]]
  <2>1. \A g \in DOMAIN e : e[g] \in [d : Nat, newer : SUBSET DOMAIN e]
    BY <1>1, <1>2 DEF Dated
  <2>2. e = [g \in DOMAIN e |-> e[g]]
    BY <1>1 DEF Without
  <2> QED
    BY <2>1, <2>2
<1>4. IsFiniteSet(DOMAIN e) /\ DOMAIN e \subseteq Names
  <2> HIDE DEF e
  <2>1. IsFiniteSet(DOMAIN c \ fs)
    BY FS_Difference DEF Dated
  <2> QED
    BY <1>1, <2>1 DEF Dated
<1> HIDE DEF e
<1>5. \A g \in DOMAIN e : g \notin e[g].newer
  BY <1>1, <1>2 DEF Dated
<1>6. \A g, h \in DOMAIN e : g = h \/ g \in e[h].newer \/ h \in e[g].newer
  BY <1>1, <1>2 DEF Dated
<1>7. \A g, h, k \in DOMAIN e : h \in e[g].newer /\ k \in e[h].newer => k \in e[g].newer
  BY <1>1, <1>2 DEF Dated
<1>8. Dated(e)
  BY <1>3, <1>4, <1>5, <1>6, <1>7 DEF Dated
<1> QED
  <2>1. IsWithout(e, c, fs)
    BY <1>1, <1>2, <1>8 DEF IsWithout
  <2> QED
    BY <2>1 DEF e

\* What counts is the same in both: the same files, depths and order.
SameCounted(c, e) ==
  /\ Counted(e) = Counted(c)
  /\ \A f \in Counted(c) : /\ e[f].d = c[f].d
                           /\ e[f].newer \cap Counted(c) = c[f].newer \cap Counted(c)

LEMMA SameDepth ==
  ASSUME NEW c, NEW e, Dated(c), Dated(e), SameCounted(c, e)
  PROVE  /\ NewestDepth(e) = NewestDepth(c)
         /\ \A f : IsNewest(c, f) <=> IsNewest(e, f)
<1>1. \A f : IsNewest(c, f) <=> IsNewest(e, f)
  BY DEF SameCounted, IsNewest
<1>2. CASE Counted(c) = {}
  <2>1. Counted(e) = {}
    BY <1>2 DEF SameCounted
  <2> QED
    BY <1>1, <1>2, <2>1 DEF NewestDepth
<1>3. CASE Counted(c) # {}
  <2>1. IsNewest(c, Newest(c)) /\ NewestDepth(c) = c[Newest(c)].d
    BY <1>3, NewestIsNewest
  <2>2. NewestDepth(e) = e[Newest(c)].d
    BY <1>1, <2>1, NewestIsOne
  <2> QED
    BY <2>1, <2>2 DEF SameCounted, IsNewest
<1> QED
  BY <1>1, <1>2, <1>3

LEMMA PutSidecar ==
  ASSUME NEW c, NEW e, NEW b \in Builds, NEW d, IsPut(e, c, Sidecar(b), d)
  PROVE  SameCounted(c, e)
<1>1. Sidecar(b) \in Sidecars
  BY DEF Sidecars
<1>2. Counted(e) = Counted(c) /\ Counted(c) \subseteq DOMAIN c \ {Sidecar(b)}
  BY <1>1 DEF Counted, IsPut
<1>3. ASSUME NEW f \in Counted(c)
      PROVE  e[f].d = c[f].d /\ e[f].newer \cap Counted(c) = c[f].newer \cap Counted(c)
  <2>1. e[f].d = c[f].d /\ e[f].newer = c[f].newer \cup {Sidecar(b)} /\ Sidecar(b) \notin Counted(c)
    BY <1>2 DEF IsPut
  <2> QED
    BY <2>1
<1> QED
  BY <1>2, <1>3 DEF SameCounted

LEMMA WithoutSidecar ==
  ASSUME NEW c, NEW e, NEW b \in Builds, IsWithout(e, c, {Sidecar(b)})
  PROVE  SameCounted(c, e)
<1>1. Sidecar(b) \in Sidecars
  BY DEF Sidecars
<1>2. Counted(e) = Counted(c) /\ Counted(c) \subseteq DOMAIN c \ {Sidecar(b)}
  BY <1>1 DEF Counted, IsWithout
<1>3. ASSUME NEW f \in Counted(c)
      PROVE  e[f].d = c[f].d /\ e[f].newer \cap Counted(c) = c[f].newer \cap Counted(c)
  <2>1. e[f].d = c[f].d /\ e[f].newer = c[f].newer \ {Sidecar(b)} /\ Sidecar(b) \notin Counted(c)
    BY <1>2 DEF IsWithout
  <2> QED
    BY <2>1
<1> QED
  BY <1>2, <1>3 DEF SameCounted

LEMMA PutNewest ==
  ASSUME NEW c, NEW e, NEW f \in Names \ Sidecars, NEW d, IsPut(e, c, f, d)
  PROVE  IsNewest(e, f) /\ NewestDepth(e) = d
<1>1. IsNewest(e, f) /\ e[f].d = d /\ Dated(e)
  BY DEF IsNewest, Counted, IsPut
<1> QED
  BY <1>1, NewestIsOne

LEMMA WithoutOlder ==
  ASSUME NEW c, NEW e, NEW fs, IsWithout(e, c, fs), NEW f, IsNewest(c, f), f \notin fs
  PROVE  IsNewest(e, f) /\ NewestDepth(e) = c[f].d
<1>1. f \in DOMAIN c \ fs
  BY DEF IsNewest, Counted
<1>2. IsNewest(e, f) /\ e[f].d = c[f].d /\ Dated(e)
  BY <1>1 DEF IsNewest, Counted, IsWithout
<1> QED
  BY <1>2, NewestIsOne

\* No sidecar is written or re-dated.
SidecarsOf(e, c) ==
  \A b \in Builds : Sidecar(b) \in DOMAIN e =>
    Sidecar(b) \in DOMAIN c /\ e[Sidecar(b)].d = c[Sidecar(b)].d

\* A prune never takes the newest.
LEMMA PruneKeepsNewest ==
  ASSUME NEW aged, Dated(copies)
  PROVE  /\ Dated(Pruned(aged)) /\ NewestDepth(Pruned(aged)) = ChainLength
         /\ SidecarsOf(Pruned(aged), copies)
<1> DEFINE gone == {m \in Markers \cap DOMAIN copies :
                      /\ \E b \in aged : m = Marker(b)
                      /\ Held(Record) /\ Record \in copies[m].newer}
<1>1. Pruned(aged) = Without(copies, gone) /\ gone \subseteq Markers
  BY DEF Pruned
<1>2. \A f : IsNewest(copies, f) => f \notin gone
  BY NamesDiffer DEF IsNewest, Counted, Held
<1> HIDE DEF gone
<1>5. IsWithout(Without(copies, gone), copies, gone)
  BY WithoutFiles
<1>6. SidecarsOf(Without(copies, gone), copies) /\ Dated(Without(copies, gone))
  BY <1>5 DEF SidecarsOf, IsWithout
<1>3. CASE Counted(copies) = {}
  <2>1. Counted(Without(copies, gone)) = {}
    BY <1>3, <1>5 DEF Counted, IsWithout
  <2>2. NewestDepth(Without(copies, gone)) = 0 /\ ChainLength = 0
    BY <1>3, <2>1 DEF NewestDepth, ChainLength
  <2> QED
    BY <1>1, <1>6, <2>2
<1>4. CASE Counted(copies) # {}
  <2>1. IsNewest(copies, Newest(copies)) /\ ChainLength = copies[Newest(copies)].d
    BY <1>4, NewestIsNewest DEF ChainLength
  <2>2. NewestDepth(Without(copies, gone)) = ChainLength
    BY <1>2, <1>5, <2>1, WithoutOlder
  <2> QED
    BY <1>1, <1>6, <2>2
<1> QED
  BY <1>3, <1>4

LEMMA RenamedFiles ==
  ASSUME Dated(copies), NEW b \in Builds, Held(Sidecar(b))
  PROVE  /\ Dated(Renamed(b)) /\ Marker(b) \in DOMAIN Renamed(b)
         /\ Renamed(b)[Marker(b)].d = Depth(Sidecar(b))
         /\ SidecarsOf(Renamed(b), copies)
<1> DEFINE c     == Without(copies, {Marker(b)})
           as(f) == IF f = Sidecar(b) THEN Marker(b) ELSE IF f = Marker(b) THEN Sidecar(b) ELSE f
           e     == Renamed(b)
<1>1. Sidecar(b) # Marker(b) /\ Sidecar(b) \in Names /\ Marker(b) \in Names
  BY NamesDiffer DEF Names
<1>2. /\ Dated(c) /\ DOMAIN c = DOMAIN copies \ {Marker(b)}
      /\ \A g \in DOMAIN c : c[g].d = copies[g].d
  <2>1. IsWithout(c, copies, {Marker(b)})
    BY WithoutFiles
  <2> HIDE DEF c
  <2> QED
    BY <2>1 DEF IsWithout
<1>3. e = [f \in {as(g) : g \in DOMAIN c} |-> [d |-> c[as(f)].d, newer |-> {as(g) : g \in c[as(f)].newer}]]
  BY DEF Renamed
<1>4. \A f : as(as(f)) = f
  BY <1>1
<1>5. \A f, g : as(f) = as(g) => f = g
  BY <1>1
<1>6. as(Sidecar(b)) = Marker(b) /\ Sidecar(b) \in DOMAIN c
  BY <1>1, <1>2 DEF Held
<1>7. \A f : f \notin {Sidecar(b), Marker(b)} => as(f) = f
  OBVIOUS
<1>8. \A f \in DOMAIN c : as(f) \in Names
  BY <1>1, <1>2 DEF Dated
<1> HIDE DEF c, e, as
<1>9. DOMAIN e = {as(g) : g \in DOMAIN c}
  BY <1>3
<1>10. \A f \in DOMAIN e : as(f) \in DOMAIN c
  BY <1>4, <1>9
<1>11. ASSUME NEW f \in DOMAIN e
       PROVE  /\ e[f] = [d |-> e[f].d, newer |-> e[f].newer]
              /\ e[f].d = c[as(f)].d /\ e[f].newer = {as(g) : g \in c[as(f)].newer}
  <2>1. e[f] = [d |-> c[as(f)].d, newer |-> {as(g) : g \in c[as(f)].newer}]
    BY <1>3, <1>9
  <2> QED
    BY <2>1
<1>12. ASSUME NEW f \in DOMAIN e, NEW g \in DOMAIN e
       PROVE  g \in e[f].newer <=> as(g) \in c[as(f)].newer
  <2>1. e[f].newer = {as(h) : h \in c[as(f)].newer}
    BY <1>11
  <2> QED
    BY <1>4, <2>1
<1>13. Dated(e)
  <2>1. DOMAIN e \subseteq Names
    BY <1>8, <1>9
  <2>2. IsFiniteSet(DOMAIN e)
    <3>1. IsFiniteSet(DOMAIN c \cup {Marker(b)})
      BY <1>2, FS_AddElement DEF Dated
    <3>2. DOMAIN e \subseteq DOMAIN c \cup {Marker(b)}
      <4>1. ASSUME NEW g \in DOMAIN c PROVE as(g) \in DOMAIN c \cup {Marker(b)}
        <5>1. g # Marker(b)
          BY <1>2
        <5> QED
          BY <1>6, <1>7, <5>1
      <4> QED
        BY <1>9, <4>1
    <3> QED
      BY <3>1, <3>2, FS_Subset
  <2>3. e \in [DOMAIN e -> [d : Nat, newer : SUBSET DOMAIN e]]
    <3>1. ASSUME NEW f \in DOMAIN e PROVE e[f] \in [d : Nat, newer : SUBSET DOMAIN e]
      <4>1. c[as(f)].d \in Nat /\ c[as(f)].newer \subseteq DOMAIN c
        BY <1>2, <1>10 DEF Dated
      <4>2. {as(g) : g \in c[as(f)].newer} \subseteq DOMAIN e
        BY <1>9, <4>1
      <4>3. e[f] = [d |-> e[f].d, newer |-> e[f].newer] /\ e[f].d \in Nat /\ e[f].newer \in SUBSET DOMAIN e
        BY <1>11, <4>1, <4>2
      <4> QED
        BY <4>3
    <3>2. e = [f \in DOMAIN e |-> e[f]]
      BY <1>3, <1>9
    <3> QED
      BY <3>1, <3>2
  <2>4. \A f \in DOMAIN e : f \notin e[f].newer
    BY <1>2, <1>10, <1>12 DEF Dated
  <2>5. \A f, g \in DOMAIN e : f = g \/ f \in e[g].newer \/ g \in e[f].newer
    <3> SUFFICES ASSUME NEW f \in DOMAIN e, NEW g \in DOMAIN e
                 PROVE  f = g \/ f \in e[g].newer \/ g \in e[f].newer
      OBVIOUS
    <3>1. as(f) = as(g) \/ as(f) \in c[as(g)].newer \/ as(g) \in c[as(f)].newer
      BY <1>2, <1>10 DEF Dated
    <3> QED
      BY <1>5, <1>12, <3>1
  <2>6. \A f, g, h \in DOMAIN e : g \in e[f].newer /\ h \in e[g].newer => h \in e[f].newer
    BY <1>2, <1>10, <1>12 DEF Dated
  <2> QED
    BY <2>1, <2>2, <2>3, <2>4, <2>5, <2>6 DEF Dated
<1>14. Marker(b) \in DOMAIN e /\ e[Marker(b)].d = Depth(Sidecar(b))
  <2>1. as(Marker(b)) = Sidecar(b)
    BY <1>4, <1>6
  <2>2. Marker(b) \in DOMAIN e
    BY <1>6, <1>9
  <2>3. e[Marker(b)].d = c[Sidecar(b)].d
    BY <1>11, <2>1, <2>2
  <2> QED
    BY <1>2, <1>6, <2>2, <2>3 DEF Depth
<1>15. SidecarsOf(e, copies)
  <2> SUFFICES ASSUME NEW a \in Builds, Sidecar(a) \in DOMAIN e
               PROVE  Sidecar(a) \in DOMAIN copies /\ e[Sidecar(a)].d = copies[Sidecar(a)].d
    BY DEF SidecarsOf
  <2>1. Sidecar(a) # Sidecar(b)
    <3>1. as(Sidecar(b)) \notin DOMAIN c
      BY <1>2, <1>6
    <3> QED
      BY <1>10, <3>1
  <2>2. as(Sidecar(a)) = Sidecar(a)
    BY <1>7, <2>1, NamesDiffer
  <2>3. Sidecar(a) \in DOMAIN c /\ e[Sidecar(a)].d = c[Sidecar(a)].d
    BY <1>10, <1>11, <2>2
  <2> QED
    BY <1>2, <2>3
<1> QED
  BY <1>13, <1>14, <1>15 DEF e

-----------------------------------------------------------------------------
(* What an action leaves alone *)

LEMMA BuildFrame ==
  ASSUME BuildInv, build' = build, SidecarsOf(copies', copies)
  PROVE  BuildInv'
  BY DEF BuildInv, SidecarsOf, Held, Depth

LEMMA RecordFrame ==
  ASSUME RecordInv, Dated(copies), Dated(copies'), cur \in Builds \cup {NoBuild},
         UNCHANGED <<golden, pc, cur, mirrored>>, SameCounted(copies, copies'),
         cur # NoBuild /\ Sidecar(cur) \in DOMAIN copies' =>
           Sidecar(cur) \in DOMAIN copies /\ copies'[Sidecar(cur)].d = copies[Sidecar(cur)].d
  PROVE  RecordInv'
<1>1. /\ NewestDepth(copies') = NewestDepth(copies)
      /\ \A f : IsNewest(copies, f) <=> IsNewest(copies', f)
  BY SameDepth
<1>2. \A f \in Counted(copies) : /\ f \in DOMAIN copies /\ f \in DOMAIN copies'
                                 /\ copies'[f].d = copies[f].d
                                 /\ copies'[f].newer \cap Counted(copies') = copies[f].newer \cap Counted(copies)
  BY DEF SameCounted, Counted
<1>3. /\ Held(Mirror) => Mirror \in Counted(copies)
      /\ Held(Record) => Record \in Counted(copies)
      /\ cur # NoBuild /\ Held(Marker(cur)) => Marker(cur) \in Counted(copies)
  BY NamesDiffer DEF Held, Counted
<1>4. ASSUME NEW f \in Counted(copies), Holds(f) PROVE Holds(f)'
  BY <1>2, <1>4 DEF Holds, Held, Depth
<1>5. pc \in {"free", "tidy", "prune"} => golden.gap # "none" \/ ChainLength' = golden.d
  BY <1>1 DEF RecordInv, ChainLength
<1>6. pc = "record" /\ mirrored => IsNewest(copies', Mirror) /\ Holds(Mirror)'
  BY <1>1, <1>3, <1>4 DEF RecordInv, Holds
<1>7. pc = "rmMirror" \/ (pc = "tidy" /\ ~mirrored) => IsNewest(copies', Record) /\ Holds(Record)'
  BY <1>1, <1>3, <1>4 DEF RecordInv, Holds
<1>8. ASSUME pc = "rmRecord"
      PROVE  /\ Holds(Mirror)' /\ copies'[Mirror].newer \cap Counted(copies') \subseteq {Record}
             /\ Record \in copies'[Mirror].newer => Holds(Record)'
  <2>1. Mirror \in Counted(copies) /\ Holds(Mirror)
    BY <1>3, <1>8 DEF RecordInv, Holds
  <2>2. copies'[Mirror].newer \cap Counted(copies') \subseteq {Record}
    BY <1>2, <1>8, <2>1 DEF RecordInv
  <2>3. ASSUME Record \in copies'[Mirror].newer PROVE Holds(Record)'
    <3>1. Record \in Counted(copies')
      BY <1>2, <2>1, <2>3, NamesDiffer DEF Dated, Counted
    <3>2. Record \in Counted(copies) /\ Record \in copies[Mirror].newer
      BY <1>2, <2>1, <2>3, <3>1 DEF SameCounted
    <3> QED
      BY <1>4, <1>8, <3>2 DEF RecordInv
  <2> QED
    BY <1>4, <2>1, <2>2, <2>3
<1>12. pc = "rmRecord" => mirrored
  BY DEF RecordInv
<1>9. ASSUME pc \in {"mirror", "record", "keep"}, cur # NoBuild, Sidecar(cur) \in DOMAIN copies'
      PROVE  Holds(Sidecar(cur))'
  BY <1>9 DEF RecordInv, Holds, Held, Depth
<1>10. pc = "touch" => cur # NoBuild /\ Holds(Marker(cur))'
  <2> SUFFICES ASSUME pc = "touch" PROVE cur # NoBuild /\ Holds(Marker(cur))'
    OBVIOUS
  <2>1. cur # NoBuild /\ Holds(Marker(cur)) /\ Marker(cur) \in Counted(copies)
    BY <1>3 DEF RecordInv, Holds
  <2>2. Holds(Marker(cur))'
    BY <1>2, <2>1 DEF Holds, Held, Depth
  <2> QED
    BY <2>1, <2>2
<1> QED
  BY <1>5, <1>6, <1>7, <1>8, <1>9, <1>10, <1>12 DEF RecordInv, Held

\* Every file but a sidecar may be written, any file may go.
LEMMA OtherSidecars ==
  ASSUME NEW c, NEW e
  PROVE  /\ \A f \in Names \ Sidecars : \A d : IsPut(e, c, f, d) => SidecarsOf(e, c)
         /\ \A fs : IsWithout(e, c, fs) => SidecarsOf(e, c)
         /\ SidecarsOf(c, c)
         /\ \A k : SidecarsOf(k, c) /\ SidecarsOf(e, k) => SidecarsOf(e, c)
<1>1. ASSUME NEW f \in Names \ Sidecars, NEW d, IsPut(e, c, f, d), NEW b \in Builds, Sidecar(b) \in DOMAIN e
      PROVE  Sidecar(b) \in DOMAIN c /\ e[Sidecar(b)].d = c[Sidecar(b)].d
  <2>1. Sidecar(b) \in DOMAIN c \ {f}
    BY <1>1, NamesDiffer DEF IsPut
  <2> QED
    BY <1>1, <2>1 DEF IsPut
<1>2. ASSUME NEW fs, IsWithout(e, c, fs), NEW b \in Builds, Sidecar(b) \in DOMAIN e
      PROVE  Sidecar(b) \in DOMAIN c /\ e[Sidecar(b)].d = c[Sidecar(b)].d
  BY <1>2 DEF IsWithout
<1> QED
  BY <1>1, <1>2 DEF SidecarsOf

LEMMA WroteFiles ==
  ASSUME Dated(copies), NEW w \in Outcome, NEW f \in Names, NEW d \in Nat
  PROVE  /\ Dated(Wrote(w, f, d))
         /\ w = "lost" => Wrote(w, f, d) = copies
         /\ w # "lost" => IsPut(Wrote(w, f, d), copies, f, d)
         /\ f \notin Sidecars => SidecarsOf(Wrote(w, f, d), copies)
<1>1. CASE w = "lost"
  BY <1>1, OtherSidecars DEF Wrote
<1>2. CASE w # "lost"
  <2>1. Wrote(w, f, d) = Put(copies, f, d) /\ IsPut(Put(copies, f, d), copies, f, d)
    BY <1>2, PutFiles DEF Wrote
  <2>2. Dated(Wrote(w, f, d))
    BY <2>1 DEF IsPut
  <2> QED
    BY <1>2, <2>1, <2>2, OtherSidecars
<1> QED
  BY <1>1, <1>2

LEMMA PaysType ==
  ASSUME faults \in 0..MaxFaults, NEW n \in Nat, Pays(n)
  PROVE  faults' \in 0..MaxFaults
  BY ChainAssumption DEF Pays

LEMMA CostType ==
  ASSUME NEW w
  PROVE  Cost(w) \in Nat
  BY DEF Cost

\* The steps of the lock's holder, when the build and the candidate stay.
LEMMA HolderKeeps ==
  ASSUME IInv, Dated(copies'), build' = build, cur' \in {cur, NoBuild}, SidecarsOf(copies', copies),
         golden' \in Image, mirrored' \in BOOLEAN, faults' \in 0..MaxFaults,
         pc' \in {"free", "mirror", "record", "rmMirror", "rmRecord", "keep", "touch", "tidy", "prune"},
         golden'.t = golden.t, golden'.d = golden.d, golden'.off = golden.off, RecordInv'
  PROVE  IInv'
<1>1. TypeOK'
  BY DEF IInv, TypeOK, Dated
<1>2. BuildInv'
  BY BuildFrame DEF IInv
<1>3. GoldenInv'
  BY DEF IInv, GoldenInv, Counts
<1> QED
  BY <1>1, <1>2, <1>3 DEF IInv

-----------------------------------------------------------------------------
(* The builds *)

\* What a build does leaves the promotion alone.
LEMMA BuilderKeeps ==
  ASSUME IInv, UNCHANGED <<golden, pc, cur, mirrored>>, SameCounted(copies, copies'), Dated(copies'),
         build' \in [Builds -> [at : {"none", "baking", "built"}, t : 0..MaxDepth, d : Nat, off : BOOLEAN]],
         faults' \in 0..MaxFaults, BuildInv', cur # NoBuild => build'[cur].at = "built",
         cur # NoBuild /\ Sidecar(cur) \in DOMAIN copies' =>
           Sidecar(cur) \in DOMAIN copies /\ copies'[Sidecar(cur)].d = copies[Sidecar(cur)].d
  PROVE  IInv'
<1>1. TypeOK'
  BY DEF IInv, TypeOK, Dated
<1>2. RecordInv'
  BY RecordFrame DEF IInv, TypeOK
<1>3. GoldenInv'
  BY DEF IInv, GoldenInv
<1> QED
  BY <1>1, <1>2, <1>3 DEF IInv

LEMMA SameCopies ==
  ASSUME NEW c
  PROVE  SameCounted(c, c)
  BY DEF SameCounted

LEMMA BakeMasterKeeps ==
  ASSUME IInv, NEW b \in Builds, BakeMaster(b)
  PROVE  IInv'
<1>1. build' = [build EXCEPT ![b] = FromMaster] /\ build[b].at = "none" /\ ~Held(Sidecar(b))
  BY DEF BakeMaster, Bakes, Fresh
<1>2. build' \in [Builds -> [at : {"none", "baking", "built"}, t : 0..MaxDepth, d : Nat, off : BOOLEAN]]
  <2>1. FromMaster \in [at : {"none", "baking", "built"}, t : 0..MaxDepth, d : Nat, off : BOOLEAN]
    BY ChainAssumption DEF FromMaster
  <2> QED
    BY <1>1, <2>1 DEF IInv, TypeOK
<1>3. BuildInv'
  <2>1. copies' = copies
    BY DEF BakeMaster
  <2>2. build'[b].at = "baking" /\ Counts(build'[b].t, build'[b].d)
    BY <1>1, ChainAssumption DEF IInv, TypeOK, FromMaster, Counts
  <2>3. \A a \in Builds \ {b} : build'[a] = build[a]
    BY <1>1 DEF IInv, TypeOK
  <2> QED
    BY <1>1, <2>1, <2>2, <2>3 DEF IInv, BuildInv, Held, Depth
<1>4. cur # NoBuild => build'[cur].at = "built"
  <2>1. cur # b
    BY <1>1, ChainAssumption DEF IInv, TypeOK
  <2> QED
    BY <1>1, <2>1 DEF IInv, TypeOK
<1> QED
  BY <1>4, <1>2, <1>3, BuilderKeeps, SameCopies DEF BakeMaster, IInv, TypeOK

LEMMA SnapshotKeeps ==
  ASSUME IInv, NEW b \in Builds, Snapshot(b)
  PROVE  IInv'
<1>1. build' = [build EXCEPT ![b] = Rebake] /\ build[b].at = "none" /\ ~Held(Sidecar(b))
  BY DEF Snapshot, Bakes, Fresh
<1>2. ChainLength \in Nat
  BY NewestDepthType DEF IInv, ChainLength
<1>3. build' \in [Builds -> [at : {"none", "baking", "built"}, t : 0..MaxDepth, d : Nat, off : BOOLEAN]]
  <2>1. golden.t + 1 \in 0..MaxDepth
    BY ChainAssumption DEF Snapshot, IInv, TypeOK, Image
  <2>2. Rebake \in [at : {"none", "baking", "built"}, t : 0..MaxDepth, d : Nat, off : BOOLEAN]
    BY <1>2, <2>1 DEF Rebake, Miscounted, IInv, TypeOK, Image
  <2> QED
    BY <1>1, <2>2 DEF IInv, TypeOK
<1>4. BuildInv'
  <2>1. copies' = copies
    BY DEF Snapshot
  <2>2. build'[b] = Rebake
    BY <1>1 DEF IInv, TypeOK
  <2>3. Miscounted \/ (ChainLength = golden.d /\ Counts(golden.t, golden.d))
    BY DEF Snapshot, IInv, RecordInv, GoldenInv, Miscounted
  <2>4. build'[b].at = "baking" /\ (build'[b].off \/ Counts(build'[b].t, build'[b].d))
    BY <1>2, <2>2, <2>3, ChainAssumption DEF Rebake, Counts, IInv, TypeOK, Image
  <2>5. \A a \in Builds \ {b} : build'[a] = build[a]
    BY <1>1 DEF IInv, TypeOK
  <2> QED
    BY <1>1, <2>1, <2>4, <2>5 DEF IInv, BuildInv, Held, Depth
<1>5. cur # NoBuild => build'[cur].at = "built"
  <2>1. cur # b
    BY <1>1, ChainAssumption DEF IInv, TypeOK
  <2> QED
    BY <1>1, <2>1 DEF IInv, TypeOK
<1> QED
  BY <1>5, <1>3, <1>4, BuilderKeeps, SameCopies DEF Snapshot, IInv, TypeOK

LEMMA FinishKeeps ==
  ASSUME IInv, NEW b \in Builds, Finish(b)
  PROVE  IInv'
<1>1. PICK w \in {"ok", "lost"} : Pays(Cost(w)) /\ copies' = Wrote(w, Sidecar(b), build[b].d)
  BY DEF Finish
<1>2. build' = [build EXCEPT ![b].at = "built", ![b].d = 0] /\ build[b].at = "baking" /\ ~Held(Sidecar(b))
  BY DEF Finish, IInv, BuildInv
<1>3. Sidecar(b) \in Names /\ build[b].d \in Nat /\ w \in Outcome
  BY DEF Names, Sidecars, IInv, TypeOK, Outcome
<1>4. /\ Dated(copies')
      /\ w = "lost" => copies' = copies
      /\ w = "ok" => IsPut(copies', copies, Sidecar(b), build[b].d)
  <2>1. Dated(copies')
    BY <1>1, <1>3, WroteFiles DEF IInv
  <2>2. w = "lost" => copies' = copies
    BY <1>1 DEF Wrote
  <2>3. w = "ok" => IsPut(copies', copies, Sidecar(b), build[b].d)
    BY <1>1, <1>3, WroteFiles DEF IInv
  <2> QED
    BY <2>1, <2>2, <2>3
<1>5. SameCounted(copies, copies')
  BY <1>1, <1>4, SameCopies, PutSidecar
<1>6. build' \in [Builds -> [at : {"none", "baking", "built"}, t : 0..MaxDepth, d : Nat, off : BOOLEAN]]
  BY <1>2 DEF IInv, TypeOK
<1>7. /\ \A a \in Builds \ {b} : build'[a] = build[a]
      /\ build'[b].at = "built" /\ build'[b].t = build[b].t /\ build'[b].off = build[b].off
  BY <1>2 DEF IInv, TypeOK
<1>8. \A a \in Builds \ {b} : Sidecar(a) \in DOMAIN copies' =>
        Sidecar(a) \in DOMAIN copies /\ copies'[Sidecar(a)].d = copies[Sidecar(a)].d
  <2> SUFFICES ASSUME NEW a \in Builds \ {b}, Sidecar(a) \in DOMAIN copies', w = "ok"
               PROVE  Sidecar(a) \in DOMAIN copies /\ copies'[Sidecar(a)].d = copies[Sidecar(a)].d
    BY <1>1, <1>4
  <2>1. Sidecar(a) # Sidecar(b)
    BY NamesDiffer
  <2> QED
    BY <1>4, <2>1 DEF IsPut
<1>9. Sidecar(b) \in DOMAIN copies' => copies'[Sidecar(b)].d = build[b].d
  BY <1>1, <1>2, <1>4 DEF IsPut, Held
<1>10. cur # b /\ cur' = cur
  BY <1>2, ChainAssumption DEF Finish, IInv, TypeOK
<1>11. BuildInv'
  <2>2. ASSUME NEW a \in Builds \ {b}
        PROVE  /\ build'[a].at = "baking" =>
                    Sidecar(a) \notin DOMAIN copies' /\ (build'[a].off \/ Counts(build'[a].t, build'[a].d))
               /\ build'[a].at = "built" /\ Sidecar(a) \in DOMAIN copies' =>
                    build'[a].off \/ Counts(build'[a].t, copies'[Sidecar(a)].d)
    BY <1>7, <1>8 DEF IInv, BuildInv, Held, Depth
  <2>3. Sidecar(b) \in DOMAIN copies' => build'[b].off \/ Counts(build'[b].t, copies'[Sidecar(b)].d)
    BY <1>2, <1>7, <1>9 DEF IInv, BuildInv
  <2> QED
    BY <1>7, <2>2, <2>3 DEF BuildInv, Held, Depth
<1>12. faults' \in 0..MaxFaults
  BY <1>1, CostType, PaysType DEF IInv, TypeOK
<1>13. cur # NoBuild /\ Sidecar(cur) \in DOMAIN copies' =>
         Sidecar(cur) \in DOMAIN copies /\ copies'[Sidecar(cur)].d = copies[Sidecar(cur)].d
  BY <1>8, <1>10 DEF IInv, TypeOK
<1>14. cur # NoBuild => build'[cur].at = "built"
  BY <1>7, <1>10 DEF IInv, TypeOK
<1> QED
  BY <1>14, <1>4, <1>5, <1>6, <1>11, <1>12, <1>13, BuilderKeeps DEF Finish

LEMMA RmCandidateKeeps ==
  ASSUME IInv, NEW b \in Builds, RmCandidate(b)
  PROVE  IInv'
<1>1. build' = [build EXCEPT ![b] = Idle] /\ cur # b /\ cur' = cur
  BY DEF RmCandidate, Bakes
<1>2. IsWithout(copies', copies, {Sidecar(b)})
  BY WithoutFiles DEF RmCandidate, IInv
<1>3. SameCounted(copies, copies') /\ SidecarsOf(copies', copies) /\ Dated(copies')
  BY <1>2, WithoutSidecar, OtherSidecars DEF IsWithout
<1>4. build' \in [Builds -> [at : {"none", "baking", "built"}, t : 0..MaxDepth, d : Nat, off : BOOLEAN]]
  <2>1. Idle \in [at : {"none", "baking", "built"}, t : 0..MaxDepth, d : Nat, off : BOOLEAN]
    BY ChainAssumption DEF Idle
  <2> QED
    BY <1>1, <2>1 DEF IInv, TypeOK
<1>5. /\ \A a \in Builds \ {b} : build'[a] = build[a]
      /\ build'[b].at = "none"
  BY <1>1 DEF IInv, TypeOK, Idle
<1>6. BuildInv'
  <2>2. ASSUME NEW a \in Builds \ {b}
        PROVE  /\ build'[a].at = "baking" =>
                    Sidecar(a) \notin DOMAIN copies' /\ (build'[a].off \/ Counts(build'[a].t, build'[a].d))
               /\ build'[a].at = "built" /\ Sidecar(a) \in DOMAIN copies' =>
                    build'[a].off \/ Counts(build'[a].t, copies'[Sidecar(a)].d)
    BY <1>3, <1>5 DEF IInv, BuildInv, Held, Depth, SidecarsOf
  <2> QED
    BY <1>5, <2>2 DEF BuildInv, Held, Depth
<1>7. cur # NoBuild /\ Sidecar(cur) \in DOMAIN copies' =>
        Sidecar(cur) \in DOMAIN copies /\ copies'[Sidecar(cur)].d = copies[Sidecar(cur)].d
  BY <1>3 DEF SidecarsOf, IInv, TypeOK
<1>8. cur # NoBuild => build'[cur].at = "built"
  BY <1>1, <1>5 DEF IInv, TypeOK
<1> QED
  BY <1>8, <1>3, <1>4, <1>6, <1>7, BuilderKeeps DEF RmCandidate, IInv, TypeOK

-----------------------------------------------------------------------------
(* The holder of the lock *)

LEMMA RecordNames ==
  /\ Record \in Names \ Sidecars /\ Mirror \in Names \ Sidecars
  /\ \A b \in Builds : Marker(b) \in Names \ Sidecars
  BY NamesDiffer DEF Names

LEMMA PreflightKeeps ==
  ASSUME IInv, Preflight
  PROVE  IInv'
<1>1. PICK aged \in SUBSET Builds, wr \in Outcome, wm \in Outcome :
       LET kept == Pruned(aged)
           want == NewestDepth(kept)
           rec  == Held(Record) /\ Depth(Record) = want
           mir  == Held(Mirror) /\ Depth(Mirror) = want
           s1   == IF rec \/ wr = "lost" THEN kept ELSE Put(kept, Record, want)
           s2   == IF mir \/ wm = "lost" \/ (~rec /\ wr # "ok") THEN s1 ELSE Put(s1, Mirror, want)
       IN  Pays(Cost(wr) + Cost(wm)) /\ copies' = s2
  BY DEF Preflight
<1> DEFINE kept == Pruned(aged)
           want == NewestDepth(kept)
<1>2. Dated(kept) /\ want = ChainLength /\ want \in Nat /\ SidecarsOf(kept, copies)
  BY PruneKeepsNewest, NewestDepthType DEF IInv
<1> HIDE DEF kept
<1>3. PICK s1 : /\ s1 \in {kept, Put(kept, Record, want)}
                /\ copies' \in {s1, Put(s1, Mirror, want)}
  <2> DEFINE rec == Held(Record) /\ Depth(Record) = want
             s1 == IF rec \/ wr = "lost" THEN kept ELSE Put(kept, Record, want)
  <2>1. s1 \in {kept, Put(kept, Record, want)} /\ copies' \in {s1, Put(s1, Mirror, want)}
    BY <1>1 DEF kept
  <2> QED
    BY <2>1
<1>4. Dated(s1) /\ NewestDepth(s1) = want /\ SidecarsOf(s1, copies)
  <2>1. CASE s1 = kept
    BY <1>2, <2>1
  <2>2. CASE s1 = Put(kept, Record, want)
    <3>1. IsPut(s1, kept, Record, want)
      BY <1>2, <2>2, PutFiles, RecordNames
    <3>2. Dated(s1) /\ NewestDepth(s1) = want
      BY <3>1, PutNewest, RecordNames DEF IsPut
    <3>3. SidecarsOf(s1, kept)
      BY <3>1, OtherSidecars, RecordNames
    <3> QED
      BY <1>2, <3>2, <3>3, OtherSidecars
  <2> QED
    BY <1>3, <2>1, <2>2
<1>5. Dated(copies') /\ ChainLength' = want /\ SidecarsOf(copies', copies)
  <2>1. CASE copies' = s1
    BY <1>4, <2>1 DEF ChainLength
  <2>2. CASE copies' = Put(s1, Mirror, want)
    <3>1. IsPut(copies', s1, Mirror, want)
      BY <1>2, <1>4, <2>2, PutFiles, RecordNames
    <3>2. Dated(copies') /\ ChainLength' = want
      BY <3>1, PutNewest, RecordNames DEF IsPut, ChainLength
    <3>3. SidecarsOf(copies', s1)
      BY <3>1, OtherSidecars, RecordNames
    <3> QED
      BY <1>4, <3>2, <3>3, OtherSidecars
  <2> QED
    BY <1>3, <2>1, <2>2
<1>6. pc = "free" /\ UNCHANGED <<golden, build, pc, cur, mirrored>>
  BY DEF Preflight
<1>7. RecordInv'
  BY <1>2, <1>5, <1>6 DEF IInv, RecordInv
<1>8. faults' \in 0..MaxFaults
  BY <1>1, CostType, PaysType DEF IInv, TypeOK
<1> QED
  BY <1>5, <1>6, <1>7, <1>8, HolderKeeps DEF IInv, TypeOK

LEMMA PromotesKeeps ==
  ASSUME IInv, NEW b \in Builds \cup {NoBuild}, NEW t \in 0..MaxDepth, NEW off \in BOOLEAN,
         Promotes(b, t, off),
         b # NoBuild => build[b].at = "built" /\ t = build[b].t /\ off = build[b].off
  PROVE  IInv'
<1>1. SidecarDepth(b) \in Nat
  BY ChainAssumption DEF SidecarDepth, Held, Depth, IInv, TypeOK
<1>2. /\ golden' = [t |-> t, d |-> SidecarDepth(b), gap |-> "none", off |-> off]
      /\ pc' = "mirror" /\ cur' = b /\ mirrored' = FALSE
      /\ UNCHANGED <<copies, build, faults>>
  BY DEF Promotes
<1>3. TypeOK'
  <2>1. golden' \in Image
    BY <1>1, <1>2 DEF Image
  <2> QED
    BY <1>2, <2>1 DEF IInv, TypeOK
<1>4. BuildInv'
  BY <1>2 DEF IInv, BuildInv, Held, Depth
<1>5. GoldenInv'
  <2>1. CASE b # NoBuild /\ Held(Sidecar(b))
    BY <1>2, <2>1 DEF SidecarDepth, IInv, BuildInv, GoldenInv
  <2>2. CASE ~(b # NoBuild /\ Held(Sidecar(b)))
    BY <1>2, <2>2, ChainAssumption DEF SidecarDepth, GoldenInv, Counts
  <2> QED
    BY <2>1, <2>2
<1>6. RecordInv'
  BY <1>2 DEF RecordInv, SidecarDepth, Holds, Held, Depth
<1>7. Dated(copies')
  BY <1>2 DEF IInv
<1> QED
  BY <1>3, <1>4, <1>5, <1>6, <1>7 DEF IInv

LEMMA PromoteKeeps ==
  ASSUME IInv, NEW b \in Builds, Promote(b)
  PROVE  IInv'
  BY PromotesKeeps, ChainAssumption DEF Promote, IInv, TypeOK

LEMMA RestoreKeeps ==
  ASSUME IInv, Restore
  PROVE  IInv'
  BY PromotesKeeps DEF Restore

LEMMA WriteMirrorKeeps ==
  ASSUME IInv, WriteMirror
  PROVE  IInv'
<1>1. PICK w \in Outcome : Pays(Cost(w)) /\ copies' = Wrote(w, Mirror, golden.d) /\ mirrored' = (w = "ok")
  BY DEF WriteMirror
<1>2. pc = "mirror" /\ pc' = "record" /\ golden' = golden /\ build' = build /\ cur' = cur
  BY DEF WriteMirror
<1>3. golden.d \in Nat
  BY DEF IInv, TypeOK, Image
<1>4. /\ Dated(copies') /\ SidecarsOf(copies', copies)
      /\ w # "lost" => IsPut(copies', copies, Mirror, golden.d)
  <2>1. Mirror \in Names /\ Mirror \notin Sidecars
    BY RecordNames
  <2> QED
    BY <1>1, <1>3, <2>1, WroteFiles DEF IInv
<1>5. RecordInv'
  <2>1. mirrored' => IsNewest(copies', Mirror) /\ Holds(Mirror)'
    <3>1. ASSUME w = "ok" PROVE IsNewest(copies', Mirror) /\ Holds(Mirror)'
      <4>1. IsPut(copies', copies, Mirror, golden.d)
        BY <1>4, <3>1
      <4> QED
        BY <1>2, <4>1, PutNewest, RecordNames DEF IsPut, Holds, Held, Depth
    <3> QED
      BY <1>1, <3>1
  <2>2. cur' # NoBuild /\ Sidecar(cur') \in DOMAIN copies' => Holds(Sidecar(cur))'
    BY <1>2, <1>4 DEF IInv, TypeOK, RecordInv, SidecarsOf, Holds, Held, Depth
  <2> QED
    BY <1>2, <2>1, <2>2 DEF RecordInv, Held
<1>6. faults' \in 0..MaxFaults
  BY <1>1, CostType, PaysType DEF IInv, TypeOK
<1> QED
  BY <1>1, <1>2, <1>4, <1>5, <1>6, HolderKeeps DEF IInv, TypeOK

LEMMA WriteRecordKeeps ==
  ASSUME IInv, WriteRecord
  PROVE  IInv'
<1>1. PICK w \in Outcome :
        /\ Pays(Cost(w)) /\ copies' = Wrote(w, Record, golden.d)
        /\ pc' = IF w = "ok" THEN "tidy" ELSE IF mirrored THEN "rmRecord" ELSE "keep"
  BY DEF WriteRecord
<1>2. pc = "record" /\ golden' = golden /\ build' = build /\ cur' = cur /\ mirrored' = mirrored
  BY DEF WriteRecord
<1>3. golden.d \in Nat
  BY DEF IInv, TypeOK, Image
<1>4. /\ Dated(copies') /\ SidecarsOf(copies', copies)
      /\ w = "lost" => copies' = copies
      /\ w # "lost" => IsPut(copies', copies, Record, golden.d)
  <2>1. Record \in Names /\ Record \notin Sidecars
    BY RecordNames
  <2> QED
    BY <1>1, <1>3, <2>1, WroteFiles DEF IInv
<1>5. ASSUME w = "ok" PROVE RecordInv'
  <2>1. IsPut(copies', copies, Record, golden.d)
    BY <1>4, <1>5
  <2>2. IsNewest(copies', Record) /\ ChainLength' = golden'.d
    BY <1>2, <2>1, PutNewest, RecordNames DEF ChainLength
  <2>4. Holds(Record)'
    BY <1>2, <2>1 DEF IsPut, Holds, Held, Depth
  <2>3. pc' = "tidy"
    BY <1>1, <1>5
  <2> QED
    BY <1>2, <2>2, <2>3, <2>4 DEF RecordInv
<1>6. ASSUME w # "ok" /\ mirrored PROVE RecordInv'
  <2>1. IsNewest(copies, Mirror) /\ Holds(Mirror)
    BY <1>2, <1>6 DEF IInv, RecordInv
  <2>2. pc' = "rmRecord"
    BY <1>1, <1>6
  <2>3. /\ Holds(Mirror)' /\ copies'[Mirror].newer \cap Counted(copies') \subseteq {Record}
        /\ Record \in copies'[Mirror].newer => Holds(Record)'
    <3>1. CASE w = "lost"
      <4>1. Record \notin copies[Mirror].newer
        BY <2>1, RecordNames DEF IInv, Dated, IsNewest, Counted
      <4> QED
        BY <1>2, <1>4, <2>1, <3>1, <4>1 DEF IsNewest, Holds, Held, Depth
    <3>2. CASE w # "lost"
      <4>1. IsPut(copies', copies, Record, golden.d) /\ Mirror \in DOMAIN copies \ {Record}
        BY <1>4, <2>1, <3>2, NamesDiffer DEF Holds, Held
      <4>2. Holds(Mirror)' /\ Holds(Record)'
        BY <1>2, <2>1, <4>1 DEF IsPut, Holds, Held, Depth
      <4>3. copies'[Mirror].newer \cap Counted(copies') \subseteq {Record}
        BY <2>1, <4>1 DEF IsPut, IsNewest, Counted
      <4> QED
        BY <4>2, <4>3
    <3> QED
      BY <3>1, <3>2
  <2> QED
    BY <1>2, <1>6, <2>2, <2>3 DEF RecordInv
<1>7. ASSUME w # "ok" /\ ~mirrored PROVE RecordInv'
  <2>1. pc' = "keep"
    BY <1>1, <1>7
  <2>2. cur' # NoBuild /\ Sidecar(cur') \in DOMAIN copies' => Holds(Sidecar(cur))'
    BY <1>2, <1>4 DEF IInv, TypeOK, RecordInv, SidecarsOf, Holds, Held, Depth
  <2> QED
    BY <1>2, <2>1, <2>2 DEF RecordInv, Held
<1>8. faults' \in 0..MaxFaults
  BY <1>1, CostType, PaysType DEF IInv, TypeOK
<1>9. RecordInv'
  BY <1>5, <1>6, <1>7
<1>10. pc' \in {"tidy", "rmRecord", "keep"}
  BY <1>1
<1> QED
  BY <1>2, <1>4, <1>8, <1>9, <1>10, HolderKeeps DEF IInv, TypeOK

\* With the mirror written and the record's write reported failed, either is the newest.
LEMMA EitherNewest ==
  ASSUME IInv, pc = "rmRecord"
  PROVE  ChainLength = golden.d
<1>1. /\ Holds(Mirror) /\ copies[Mirror].newer \cap Counted(copies) \subseteq {Record}
      /\ Record \in copies[Mirror].newer => Holds(Record)
  BY DEF IInv, RecordInv
<1>2. CASE Record \in copies[Mirror].newer
  <2>1. IsNewest(copies, Record)
    BY <1>1, <1>2, RecordNames DEF IInv, Dated, IsNewest, Counted, Holds, Held
  <2> QED
    BY <1>1, <1>2, <2>1, NewestIsOne DEF IInv, Holds, Depth, ChainLength
<1>3. CASE Record \notin copies[Mirror].newer
  <2>1. IsNewest(copies, Mirror)
    BY <1>1, <1>3, RecordNames DEF IsNewest, Counted, Holds, Held
  <2> QED
    BY <1>1, <2>1, NewestIsOne DEF IInv, Holds, Depth, ChainLength
<1> QED
  BY <1>2, <1>3

LEMMA RmStaleKeeps ==
  ASSUME IInv, RmStale
  PROVE  IInv'
<1> DEFINE f == IF pc = "rmMirror" THEN Mirror ELSE Record
<1>1. PICK w \in Outcome : Pays(Cost(w)) /\ copies' = Removed(w, f)
  BY DEF RmStale
<1> HIDE DEF f
<1>2. /\ pc \in {"rmMirror", "rmRecord"} /\ pc' = IF pc = "rmRecord" THEN "tidy" ELSE "prune"
      /\ golden' = golden /\ build' = build /\ cur' = cur /\ mirrored' = mirrored
  BY DEF RmStale
<1>3. copies' = copies \/ IsWithout(copies', copies, {f})
  BY <1>1, WithoutFiles DEF Removed, IInv
<1>4. Dated(copies') /\ SidecarsOf(copies', copies)
  <2>1. CASE copies' = copies
    BY <2>1, OtherSidecars DEF IInv
  <2>2. CASE IsWithout(copies', copies, {f})
    BY <2>2, OtherSidecars DEF IsWithout
  <2> QED
    BY <1>3, <2>1, <2>2
<1>5. ChainLength' = golden.d
  <2>1. CASE pc = "rmMirror"
    <3>1. IsNewest(copies, Record) /\ Depth(Record) = golden.d /\ Record \notin {f}
      BY <2>1, NamesDiffer DEF f, IInv, RecordInv, Holds
    <3> QED
      BY <1>3, <3>1, NewestIsOne, WithoutOlder DEF ChainLength, Depth, IInv
  <2>2. CASE pc = "rmRecord" /\ copies' = copies
    BY <2>2, EitherNewest DEF ChainLength
  <2>3. CASE pc = "rmRecord" /\ IsWithout(copies', copies, {f})
    <3>1. f = Record /\ Mirror \in DOMAIN copies \ {Record} /\ Depth(Mirror) = golden.d
      BY <2>3, NamesDiffer DEF f, IInv, RecordInv, Holds, Held
    <3>2. copies[Mirror].newer \cap Counted(copies) \subseteq {Record}
      BY <2>3 DEF IInv, RecordInv
    <3>3. IsNewest(copies', Mirror) /\ copies'[Mirror].d = golden.d
      BY <2>3, <3>1, <3>2, RecordNames DEF IsWithout, IsNewest, Counted, Depth
    <3> QED
      BY <1>4, <3>3, NewestIsOne DEF ChainLength
  <2> QED
    BY <1>2, <1>3, <2>1, <2>2, <2>3
<1>6. RecordInv'
  <2>1. pc' = "tidy" => mirrored'
    BY <1>2 DEF IInv, RecordInv
  <2> QED
    BY <1>2, <1>5, <2>1 DEF RecordInv
<1>7. faults' \in 0..MaxFaults
  BY <1>1, CostType, PaysType DEF IInv, TypeOK
<1> QED
  BY <1>2, <1>4, <1>6, <1>7, HolderKeeps DEF IInv, TypeOK

LEMMA KeepKeeps ==
  ASSUME IInv, Keep
  PROVE  IInv'
<1>1. pc = "keep" /\ build' = build /\ cur' = cur /\ mirrored' = mirrored
  BY DEF Keep
<1>2. ASSUME golden' = [golden EXCEPT !.gap = "lost"], pc' = "prune", UNCHANGED <<copies, faults>>
      PROVE  IInv'
  <2>1. /\ golden' \in Image /\ golden'.t = golden.t /\ golden'.d = golden.d /\ golden'.off = golden.off
        /\ golden'.gap = "lost"
    BY <1>2 DEF IInv, TypeOK, Image
  <2>2. RecordInv'
    BY <1>1, <1>2, <2>1 DEF RecordInv
  <2>3. Dated(copies') /\ SidecarsOf(copies', copies)
    BY <1>2, OtherSidecars DEF IInv
  <2> QED
    BY <1>1, <1>2, <2>1, <2>2, <2>3, HolderKeeps DEF IInv, TypeOK
<1>3. ASSUME cur # NoBuild, Held(Sidecar(cur)), NEW w \in Outcome, Pays(Cost(w)),
             copies' = IF w = "lost" THEN copies ELSE Renamed(cur),
             golden' = IF w = "ok" THEN golden ELSE [golden EXCEPT !.gap = "lost"],
             pc' = IF w = "ok" THEN "touch" ELSE "prune"
      PROVE  IInv'
  <2>1. /\ golden' \in Image /\ golden'.t = golden.t /\ golden'.d = golden.d
        /\ golden'.off = golden.off
        /\ w # "ok" => golden'.gap = "lost"
    BY <1>3 DEF IInv, TypeOK, Image
  <2>2. /\ Dated(copies') /\ SidecarsOf(copies', copies)
        /\ w = "ok" => Marker(cur) \in DOMAIN copies' /\ copies'[Marker(cur)].d = Depth(Sidecar(cur))
    <3>1. cur \in Builds
      BY <1>3 DEF IInv, TypeOK
    <3>2. /\ Dated(Renamed(cur)) /\ SidecarsOf(Renamed(cur), copies)
          /\ Marker(cur) \in DOMAIN Renamed(cur) /\ Renamed(cur)[Marker(cur)].d = Depth(Sidecar(cur))
      BY <1>3, <3>1, RenamedFiles DEF IInv
    <3> QED
      BY <1>3, <3>2, OtherSidecars DEF IInv
  <2>3. Depth(Sidecar(cur)) = golden.d
    BY <1>1, <1>3 DEF IInv, RecordInv, Holds
  <2>4. ASSUME w = "ok" PROVE RecordInv'
    <3>1. pc' = "touch" /\ Holds(Marker(cur))'
      BY <1>1, <1>3, <2>1, <2>2, <2>3, <2>4 DEF Holds, Held, Depth
    <3> QED
      BY <1>1, <1>3, <3>1 DEF RecordInv
  <2>5. ASSUME w # "ok" PROVE RecordInv'
    <3>1. pc' = "prune"
      BY <1>3, <2>5
    <3> QED
      BY <1>1, <2>1, <2>5, <3>1 DEF RecordInv
  <2>6. faults' \in 0..MaxFaults
    BY <1>3, CostType, PaysType DEF IInv, TypeOK
  <2>7. pc' \in {"touch", "prune"}
    BY <1>3
  <2> QED
    BY <1>1, <2>1, <2>2, <2>4, <2>5, <2>6, <2>7, HolderKeeps DEF IInv, TypeOK
<1> QED
  BY <1>2, <1>3 DEF Keep

LEMMA TouchKeeps ==
  ASSUME IInv, Touch
  PROVE  IInv'
<1>1. /\ pc = "touch" /\ pc' = "prune"
      /\ build' = build /\ cur' = cur /\ mirrored' = mirrored /\ faults' = faults
  BY DEF Touch
<1>2. cur \in Builds /\ Holds(Marker(cur)) /\ golden.d \in Nat
  BY <1>1 DEF IInv, TypeOK, Image, RecordInv
<1>3. Marker(cur) \in Names \ Sidecars
  BY <1>2, RecordNames
<1>4. ASSUME copies' = Put(copies, Marker(cur), Depth(Marker(cur))), golden' = golden
      PROVE  IInv'
  <2>1. IsPut(copies', copies, Marker(cur), golden.d)
    BY <1>2, <1>3, <1>4, PutFiles DEF IInv, Holds
  <2>2. Dated(copies') /\ SidecarsOf(copies', copies)
    BY <1>3, <2>1, OtherSidecars DEF IsPut
  <2>3. ChainLength' = golden'.d
    BY <1>3, <1>4, <2>1, PutNewest DEF ChainLength
  <2>4. RecordInv'
    BY <1>1, <2>3 DEF RecordInv
  <2> QED
    BY <1>1, <1>4, <2>2, <2>4, HolderKeeps DEF IInv, TypeOK
<1>5. ASSUME copies' = copies,
             golden' = IF IsNewest(copies, Marker(cur)) THEN golden ELSE [golden EXCEPT !.gap = "outranked"]
      PROVE  IInv'
  <2>1. /\ golden' \in Image /\ golden'.t = golden.t /\ golden'.d = golden.d /\ golden'.off = golden.off
        /\ IsNewest(copies, Marker(cur)) \/ golden'.gap = "outranked"
    BY <1>5 DEF IInv, TypeOK, Image
  <2>2. golden'.gap # "none" \/ ChainLength' = golden'.d
    BY <1>2, <1>5, <2>1, NewestIsOne DEF IInv, Holds, Depth, ChainLength
  <2>3. RecordInv'
    BY <1>1, <2>2 DEF RecordInv
  <2>4. Dated(copies') /\ SidecarsOf(copies', copies)
    BY <1>5, OtherSidecars DEF IInv
  <2> QED
    BY <1>1, <2>1, <2>3, <2>4, HolderKeeps DEF IInv, TypeOK
<1> QED
  BY <1>4, <1>5 DEF Touch

LEMMA TidyKeeps ==
  ASSUME IInv, Tidy
  PROVE  IInv'
<1>1. /\ pc = "tidy" /\ pc' = IF mirrored THEN "prune" ELSE "rmMirror"
      /\ golden' = golden /\ build' = build /\ cur' = cur /\ mirrored' = mirrored /\ faults' = faults
      /\ copies' = IF cur = NoBuild THEN copies ELSE Without(copies, {Sidecar(cur)})
  BY DEF Tidy
<1>2. Dated(copies') /\ SidecarsOf(copies', copies) /\ SameCounted(copies, copies')
  <2>1. CASE cur = NoBuild
    BY <1>1, <2>1, OtherSidecars, SameCopies DEF IInv
  <2>2. CASE cur # NoBuild
    <3>1. IsWithout(copies', copies, {Sidecar(cur)})
      BY <1>1, <2>2, WithoutFiles DEF IInv
    <3>2. cur \in Builds
      BY <2>2 DEF IInv, TypeOK
    <3> QED
      BY <3>1, <3>2, OtherSidecars, WithoutSidecar DEF IsWithout
  <2> QED
    BY <2>1, <2>2
<1>3. ChainLength' = ChainLength
  BY <1>2, SameDepth DEF IInv, ChainLength
<1>4. RecordInv'
  <2>1. CASE mirrored
    BY <1>1, <1>3, <2>1 DEF IInv, RecordInv
  <2>2. CASE ~mirrored
    <3>1. IsNewest(copies, Record) /\ Holds(Record)
      BY <1>1, <2>2 DEF IInv, RecordInv
    <3>2. IsNewest(copies', Record)
      BY <1>2, <3>1, SameDepth DEF IInv
    <3>3. Holds(Record)'
      BY <1>1, <1>2, <3>1 DEF SameCounted, IsNewest, Counted, Holds, Held, Depth
    <3> QED
      BY <1>1, <2>2, <3>2, <3>3 DEF RecordInv
  <2> QED
    BY <2>1, <2>2
<1> QED
  BY <1>1, <1>2, <1>4, HolderKeeps DEF IInv, TypeOK

LEMMA PruneKeeps ==
  ASSUME IInv, Prune
  PROVE  IInv'
<1>1. PICK aged \in SUBSET Builds : copies' = Pruned(aged)
  BY DEF Prune
<1>2. /\ pc = "prune" /\ pc' = "free" /\ cur' = NoBuild /\ mirrored' = FALSE
      /\ golden' = golden /\ build' = build /\ faults' = faults
  BY DEF Prune, Release
<1>3. Dated(copies') /\ SidecarsOf(copies', copies) /\ ChainLength' = ChainLength
  BY <1>1, PruneKeepsNewest DEF IInv, ChainLength
<1>4. RecordInv'
  BY <1>2, <1>3 DEF IInv, RecordInv
<1> QED
  BY <1>2, <1>3, <1>4, HolderKeeps DEF IInv, TypeOK

LEMMA KilledKeeps ==
  ASSUME IInv, Killed
  PROVE  IInv'
<1>1. /\ pc # "free" /\ Pays(1) /\ pc' = "free" /\ cur' = NoBuild /\ mirrored' = FALSE
      /\ golden' = IF pc \in {"mirror", "keep", "touch"} \/ (pc = "record" /\ ~mirrored)
                   THEN [golden EXCEPT !.gap = "lost"] ELSE golden
      /\ copies' = copies /\ build' = build
  BY DEF Killed, Release
<1>2. /\ golden' \in Image /\ golden'.t = golden.t /\ golden'.d = golden.d
      /\ golden'.off = golden.off
      /\ pc \in {"mirror", "keep", "touch"} \/ (pc = "record" /\ ~mirrored) => golden'.gap = "lost"
      /\ golden'.gap = golden.gap \/ golden'.gap = "lost"
  BY <1>1 DEF IInv, TypeOK, Image
<1>3. golden'.gap # "none" \/ ChainLength = golden.d
  <2>1. CASE pc \in {"mirror", "keep", "touch"} \/ (pc = "record" /\ ~mirrored)
    BY <1>2, <2>1
  <2>2. CASE pc = "record" /\ mirrored
    BY <2>2, NewestIsOne DEF IInv, RecordInv, Holds, Depth, ChainLength
  <2>3. CASE pc = "rmMirror"
    BY <2>3, NewestIsOne DEF IInv, RecordInv, Holds, Depth, ChainLength
  <2>4. CASE pc = "rmRecord"
    BY <2>4, EitherNewest
  <2>5. CASE pc \in {"tidy", "prune"}
    BY <1>2, <2>5 DEF IInv, RecordInv
  <2> QED
    BY <1>1, <2>1, <2>2, <2>3, <2>4, <2>5 DEF IInv, TypeOK
<1>4. ChainLength' = ChainLength
  BY <1>1 DEF ChainLength
<1>5. RecordInv'
  BY <1>1, <1>2, <1>3, <1>4 DEF RecordInv
<1>6. faults' \in 0..MaxFaults
  BY <1>1, PaysType DEF IInv, TypeOK
<1>7. Dated(copies') /\ SidecarsOf(copies', copies)
  BY <1>1, OtherSidecars DEF IInv
<1> QED
  BY <1>1, <1>2, <1>5, <1>6, <1>7, HolderKeeps DEF IInv, TypeOK

-----------------------------------------------------------------------------
(* The theorems *)

LEMMA InitInv ==
  ASSUME Init
  PROVE  IInv
<1>1. DOMAIN copies = {}
  BY DEF Init
<1>2. Dated(copies)
  <2>1. copies \in [DOMAIN copies -> [d : Nat, newer : SUBSET DOMAIN copies]]
    BY <1>1 DEF Init
  <2> QED
    BY <1>1, <2>1, FS_EmptySet DEF Dated
<1>3. TypeOK
  <2>1. golden \in Image
    BY ChainAssumption DEF Init, Image
  <2>2. build \in [Builds -> [at : {"none", "baking", "built"}, t : 0..MaxDepth, d : Nat, off : BOOLEAN]]
    BY ChainAssumption DEF Init, Idle
  <2>3. pc = "free" /\ cur = NoBuild /\ mirrored = FALSE /\ faults \in 0..MaxFaults
    BY ChainAssumption DEF Init
  <2> QED
    BY <1>2, <2>1, <2>2, <2>3 DEF TypeOK, Dated
<1>4. BuildInv /\ GoldenInv
  BY ChainAssumption DEF Init, BuildInv, GoldenInv, Counts, Idle
<1>5. Counted(copies) = {} /\ ChainLength = 0
  BY <1>1 DEF Counted, ChainLength, NewestDepth
<1>6. RecordInv
  BY <1>5 DEF Init, RecordInv
<1> QED
  BY <1>2, <1>3, <1>4, <1>6 DEF IInv

LEMMA StutterKeeps ==
  ASSUME IInv, UNCHANGED vars
  PROVE  IInv'
<1>1. RecordInv'
  BY RecordFrame, SameCopies DEF IInv, TypeOK, vars
<1>2. SidecarsOf(copies', copies)
  BY OtherSidecars DEF vars
<1> QED
  BY <1>1, <1>2, HolderKeeps DEF IInv, TypeOK, vars

\* Every state of a run satisfies the invariant the other theorems follow from.
THEOREM ChainInvariance == Spec => []IInv
<1>1. Init => IInv
  BY InitInv
<1>2. IInv /\ [Next]_vars => IInv'
  <2> SUFFICES ASSUME IInv, [Next]_vars PROVE IInv'
    OBVIOUS
  <2>1. ASSUME NEW b \in Builds,
               BakeMaster(b) \/ Snapshot(b) \/ Finish(b) \/ RmCandidate(b) \/ Promote(b)
        PROVE  IInv'
    BY <2>1, BakeMasterKeeps, SnapshotKeeps, FinishKeeps, RmCandidateKeeps, PromoteKeeps
  <2>2. CASE Recording
    BY <2>2, WriteMirrorKeeps, WriteRecordKeeps, RmStaleKeeps, KeepKeeps, TouchKeeps, TidyKeeps, PruneKeeps
       DEF Recording
  <2> QED
    BY <2>1, <2>2, PreflightKeeps, RestoreKeeps, KilledKeeps, StutterKeeps DEF Next
<1> QED
  BY <1>1, <1>2, PTL DEF Spec

\* Every state is of its type: a build's image and depth, the files and their dates.
THEOREM ChainTypes == Spec => []TypeOK
  BY ChainInvariance, PTL DEF IInv

\* When no promotion is under way, the depth read is the one promoted with the golden: no stale
\* record, mirror or marker outranks it.  Except when it was logged as lost, a kill came before
\* anything held it, or (which nothing says) the marker kept the build's time and a copy is newer.
THEOREM DepthIsKept == Spec => []DepthKept
<1>1. IInv => DepthKept
  BY DEF IInv, RecordInv, DepthKept
<1> QED
  BY <1>1, ChainInvariance, PTL

\* A golden rebaked GOLDEN_MAX_CHAIN times is seen to be due for a bake from the master, unless
\* its record, or that of one it was rebaked from, went wrong in one of those ways.
THEOREM MasterIsDue == Spec => []MasterDue
<1>1. IInv => MasterDue
  <2> SUFFICES ASSUME IInv, pc = "free", ~Miscounted, golden.t >= MaxChain
               PROVE  ChainLength >= MaxChain
    BY DEF MasterDue
  <2>1. ChainLength = golden.d /\ (golden.d >= golden.t \/ golden.d >= MaxChain)
    BY DEF IInv, RecordInv, GoldenInv, Counts, Miscounted
  <2> QED
    BY <2>1, ChainAssumption DEF IInv, TypeOK, Image
<1> QED
  BY <1>1, ChainInvariance, PTL

=============================================================================
