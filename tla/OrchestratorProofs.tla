------------------------- MODULE OrchestratorProofs -------------------------
(***************************************************************************)
(* That uploads are kept while they are needed and removed after, that the *)
(* executor keeps to its threads and that rows and panes agree: for any    *)
(* uploads, threads, store and pool sizes, and failures.                   *)
(***************************************************************************)
EXTENDS Orchestrator, VmPoolProofs

Distinct(s) == \A i, k \in DOMAIN s : s[i] = s[k] => i = k

\* A job is in the queue once or with one thread, and only after its request accepted it.
FlowInv ==
  /\ \A j \in Jobs : InHand(j) => req[j] = "accepted"
  /\ Distinct(queue)
  /\ \A t \in Threads : cur[t] \notin Range(queue)
  /\ \A t, u \in Threads : cur[t] = cur[u] /\ cur[t] # NoJob => t = u
  /\ \A t \in Threads : cur[t] = NoJob <=> step[t] = "none"
  /\ \A t \in Threads : cur[t] # NoJob => t \in alive

\* A request that is being answered.
Asking(j) == req[j] \in {"upload", "submit", "row", "pane", "unlink"}

\* An upload is there from its first byte until its job is over; a server answers its requests
\* before it ends, and a queue is left over only by an executor that never had a thread.
UploadInv ==
  /\ UploadKept /\ UploadOwned
  /\ \A j \in Jobs : Asking(j) => j \in tmp /\ proc = "serving" /\ engines \in {"registered", "off"}
  /\ shut /\ alive = {} => Range(queue) \subseteq stranded
  /\ ~shut => stranded = {}

\* A row is over only when no thread will write its pane any more, or when its request is about to;
\* a pane is done by a thread that has the verdict.
RowInv ==
  /\ \A j \in Jobs : req[j] \in {"submit", "row"} \/ j \in Range(queue) => row[j] = "queued"
  /\ \A j \in Jobs : req[j] \in {"submit", "row", "pane"} => pane[j] = "queued"
  /\ \A j \in Jobs : req[j] \in {"pane", "unlink"} => row[j] = "error"
  /\ \A j \in Jobs : req[j] \in {"none", "upload"} => row[j] = "none"
  /\ \A j \in Jobs : req[j] = "refused" => row[j] \in {"none", "error"}
  /\ \A t \in Threads : step[t] \in {"start", "engine", "validate", "finish"} => row[cur[t]] \in {"queued", "running"}
  /\ \A t \in Threads : step[t] = "finish" => pane[cur[t]] \in {"done", "error", "unavailable"}
  /\ \A t \in Threads : step[t] = "finish" /\ pane[cur[t]] = "done" => pc[t] = "idle" /\ out[t] = "verdict"
  /\ \A j \in Jobs : row[j] = "error" => req[j] = "pane" \/ pane[j] = "error"
  /\ \A j \in Jobs : row[j] = "done" => pane[j] \in {"done", "error", "unavailable"}

ExecutorInv == IsFiniteSet(alive) /\ ThreadsBounded

OInv == PoolInv /\ TypeOK /\ FlowInv /\ UploadInv /\ RowInv /\ ExecutorInv

-----------------------------------------------------------------------------
(* The queue *)

LEMMA Appended ==
  ASSUME NEW q \in Seq(Jobs), NEW j \in Jobs
  PROVE  /\ Append(q, j) \in Seq(Jobs)
         /\ Range(Append(q, j)) = Range(q) \cup {j}
         /\ Distinct(q) /\ j \notin Range(q) => Distinct(Append(q, j))
<1>1. Append(q, j) \in Seq(Jobs)
  OBVIOUS
<1>2. /\ DOMAIN Append(q, j) = DOMAIN q \cup {Len(q) + 1}
      /\ \A i \in DOMAIN q : Append(q, j)[i] = q[i]
      /\ Append(q, j)[Len(q) + 1] = j
  OBVIOUS
<1> QED
  BY <1>1, <1>2, SMTT(20) DEF Range, Distinct

LEMMA Taken ==
  ASSUME NEW q \in Seq(Jobs), q # <<>>
  PROVE  /\ Head(q) \in Jobs /\ Tail(q) \in Seq(Jobs)
         /\ Range(q) = Range(Tail(q)) \cup {Head(q)}
         /\ Distinct(q) => Distinct(Tail(q)) /\ Head(q) \notin Range(Tail(q))
<1>1. Len(q) \in Nat \ {0} /\ DOMAIN q = 1..Len(q) /\ Head(q) = q[1]
  OBVIOUS
<1>2. Head(q) \in Jobs /\ Tail(q) \in Seq(Jobs)
  BY <1>1
<1>3. /\ DOMAIN Tail(q) = 1..(Len(q) - 1)
      /\ \A i \in DOMAIN Tail(q) : Tail(q)[i] = q[i + 1]
  BY <1>1
<1>4. Range(q) = Range(Tail(q)) \cup {Head(q)}
  <2>1. Range(Tail(q)) \cup {Head(q)} \subseteq Range(q)
    BY <1>1, <1>3 DEF Range
  <2>2. ASSUME NEW i \in DOMAIN q PROVE q[i] \in Range(Tail(q)) \cup {Head(q)}
    <3>1. CASE i = 1
      BY <1>1, <3>1
    <3>2. CASE i # 1
      <4>1. i - 1 \in DOMAIN Tail(q) /\ Tail(q)[i - 1] = q[i]
        BY <1>1, <1>3, <3>2
      <4> QED
        BY <4>1 DEF Range
    <3> QED
      BY <3>1, <3>2
  <2> QED
    BY <2>1, <2>2 DEF Range
<1>5. Distinct(q) => Distinct(Tail(q)) /\ Head(q) \notin Range(Tail(q))
  BY <1>1, <1>3, SMTT(20) DEF Range, Distinct
<1> QED
  BY <1>2, <1>4, <1>5

-----------------------------------------------------------------------------
(* The executor *)

\* A thread is started only when there are fewer than may be.
LEMMA StartThreadBounded ==
  ASSUME TypeOK, ExecutorInv, StartThread
  PROVE  alive' \subseteq Threads \ {Main} /\ ExecutorInv' /\ faults' \in 0..MaxFaults
<1>1. \/ alive' = alive
      \/ \E t \in Threads \ {Main} : alive' = alive \cup {t} /\ Cardinality(alive) < MaxThreads
  <2>1. Cardinality(alive) \in Nat /\ MaxThreads \in Nat
    BY FS_CardinalityType, OrchestratorAssumption DEF OrchestratorAssumption, ExecutorInv
  <2> QED
    BY <2>1 DEF StartThread
<1>2. faults' \in 0..MaxFaults
  BY VmPoolAssumption DEF VmPoolAssumption, TypeOK, PoolTypeOK, StartThread, Fault
<1>3. ExecutorInv'
  <2>1. CASE alive' = alive
    BY <2>1 DEF ExecutorInv, ThreadsBounded
  <2>2. ASSUME NEW t \in Threads \ {Main}, alive' = alive \cup {t}, Cardinality(alive) < MaxThreads
        PROVE  ExecutorInv'
    <3>1. /\ IsFiniteSet(alive \cup {t})
          /\ Cardinality(alive \cup {t}) \in {Cardinality(alive), Cardinality(alive) + 1}
      BY FS_AddElement DEF ExecutorInv
    <3>2. Cardinality(alive) \in Nat /\ MaxThreads \in Nat
      BY FS_CardinalityType, OrchestratorAssumption DEF OrchestratorAssumption, ExecutorInv
    <3> QED
      BY <2>2, <3>1, <3>2 DEF ExecutorInv, ThreadsBounded
  <2> QED
    BY <1>1, <2>1, <2>2
<1> QED
  BY <1>1, <1>2, <1>3 DEF TypeOK

-----------------------------------------------------------------------------
(* The steps: a lemma for each action, a step for each part of the invariant *)

LEMMA UploadKeeps == ASSUME NEW j \in Jobs, OInv, Upload(j) PROVE OInv'
<1> USE OrchestratorAssumption DEF OrchestratorAssumption, OInv, Upload, Goes, poolAll, poolVars, vmVars, thrVars, jobVars, exVars, runVars, lateVars
<1>1. PoolInv'
  BY ProcKeeps, VmPoolAssumption DEF VmPoolAssumption, PoolTypeOK, TypeOK, Fault
<1>2. TypeOK'
  BY <1>1, SMTT(20) DEF PoolInv, TypeOK
<1>3. FlowInv'
  BY SMTT(20) DEF TypeOK, FlowInv, InHand
<1>4. UploadInv'
  BY SMTT(20) DEF TypeOK, FlowInv, UploadInv, UploadKept, UploadOwned, Answering, Asking, InHand
<1>5. RowInv'
  BY SMTT(20) DEF TypeOK, FlowInv, InHand, RowInv
<1>6. ExecutorInv'
  BY SMTT(20) DEF ExecutorInv, ThreadsBounded
<1> QED
  BY <1>1, <1>2, <1>3, <1>4, <1>5, <1>6

LEMMA UploadFailsKeeps == ASSUME NEW j \in Jobs, OInv, UploadFails(j) PROVE OInv'
<1> USE OrchestratorAssumption DEF OrchestratorAssumption, OInv, UploadFails, Goes, poolAll, poolVars, vmVars, thrVars, jobVars, exVars, runVars, lateVars
<1>1. PoolInv'
  BY ProcKeeps, VmPoolAssumption DEF VmPoolAssumption, PoolTypeOK, TypeOK, Fault
<1>2. TypeOK'
  BY <1>1, SMTT(20) DEF PoolInv, TypeOK
<1>3. FlowInv'
  BY SMTT(20) DEF TypeOK, FlowInv, InHand
<1>4. UploadInv'
  BY SMTT(20) DEF TypeOK, FlowInv, UploadInv, UploadKept, UploadOwned, Answering, Asking, InHand
<1>5. RowInv'
  BY SMTT(20) DEF TypeOK, FlowInv, InHand, RowInv
<1>6. ExecutorInv'
  BY SMTT(20) DEF ExecutorInv, ThreadsBounded
<1> QED
  BY <1>1, <1>2, <1>3, <1>4, <1>5, <1>6

\* The store stays within its cap.
LEMMA CreateRows ==
  ASSUME NEW j \in Jobs, TypeOK
  PROVE  LET r == IF Len(rows) < MaxRows THEN Append(rows, j) ELSE Append(Tail(rows), j)
         IN  r \in Seq(Jobs) /\ Len(r) <= MaxRows
<1>1. rows \in Seq(Jobs) /\ Len(rows) \in Nat /\ Len(rows) <= MaxRows /\ MaxRows \in Nat \ {0}
  BY OrchestratorAssumption DEF TypeOK, OrchestratorAssumption
<1>2. CASE Len(rows) < MaxRows
  <2>1. Append(rows, j) \in Seq(Jobs) /\ Len(Append(rows, j)) = Len(rows) + 1
    BY <1>1
  <2> QED
    BY <1>1, <1>2, <2>1
<1>3. CASE ~(Len(rows) < MaxRows)
  <2>1. Len(rows) \in Nat \ {0}
    BY <1>1, <1>3
  <2>2. rows # <<>> /\ Tail(rows) \in Seq(Jobs) /\ Len(Tail(rows)) = Len(rows) - 1
    BY <1>1, <2>1
  <2>3. Append(Tail(rows), j) \in Seq(Jobs) /\ Len(Append(Tail(rows), j)) = Len(rows)
    BY <2>1, <2>2
  <2> QED
    BY <1>1, <1>3, <2>3
<1> QED
  BY <1>2, <1>3

LEMMA CreateKeeps == ASSUME NEW j \in Jobs, OInv, Create(j) PROVE OInv'
<1>1. /\ UNCHANGED <<poolVars, vmVars, thrVars, proc, engines, exVars, runVars, lateVars>>
      /\ faults' \in 0..MaxFaults
  BY VmPoolAssumption DEF VmPoolAssumption, Create, Fault, OInv, TypeOK, PoolTypeOK
<1>2. PoolInv'
  BY <1>1, ProcKeeps DEF OInv, TypeOK, PoolTypeOK
<1>3. req[j] = "upload" /\ ~InHand(j)
  BY DEF Create, OInv, FlowInv
<1>4. rows' \in Seq(Jobs) /\ Len(rows') <= MaxRows
  <2>1. CASE rows' = rows
    BY <2>1 DEF OInv, TypeOK
  <2>2. CASE rows' = IF Len(rows) < MaxRows THEN Append(rows, j) ELSE Append(Tail(rows), j)
    BY <2>2, CreateRows DEF OInv
  <2> QED
    BY <2>1, <2>2 DEF Create
<1>5. \A k \in Jobs : InHand(k)' <=> InHand(k)
  BY <1>1 DEF InHand, exVars, runVars
<1>6. \/ /\ req' = [req EXCEPT ![j] = "submit"] /\ loop' = j /\ tmp' = tmp
         /\ row' = [row EXCEPT ![j] = "queued"] /\ pane' = [pane EXCEPT ![j] = "queued"]
      \/ /\ req' = [req EXCEPT ![j] = "refused"] /\ tmp' = tmp \ {j}
         /\ UNCHANGED <<row, pane, loop>>
  BY DEF Create, Goes, SetRow, SetPane
<1>7. TypeOK'
  <2>1. /\ req' \in [Jobs -> {"none", "upload", "submit", "row", "pane", "unlink", "accepted", "refused"}]
        /\ row' \in [Jobs -> {"none", "queued", "running", "done", "error"}]
        /\ pane' \in [Jobs -> {"none", "queued", "running", "unavailable", "done", "error"}]
        /\ tmp' \subseteq Jobs /\ loop' \in Jobs \cup {NoJob}
    BY <1>6 DEF OInv, TypeOK
  <2>2. PoolTypeOK' /\ TypeOK
    BY <1>2 DEF OInv, PoolInv
  <2>3. /\ queue' = queue /\ alive' = alive /\ shut' = shut /\ cur' = cur /\ step' = step
        /\ poke' = poke /\ poker' = poker /\ stranded' = stranded /\ engines' = engines
    BY <1>1 DEF exVars, runVars, lateVars
  <2> QED
    BY <1>4, <2>1, <2>2, <2>3, Zenon DEF TypeOK
<1>8. FlowInv'
  BY <1>1, <1>3, <1>5, <1>6, SMTT(20) DEF OInv, TypeOK, FlowInv, exVars, runVars
<1>9. UploadInv'
  <2>1. /\ queue' = queue /\ alive' = alive /\ shut' = shut /\ cur' = cur /\ stranded' = stranded
        /\ engines' = engines /\ proc' = proc
    BY <1>1 DEF exVars, runVars, lateVars
  <2>2. /\ req'[j] \in {"submit", "refused"} /\ (req'[j] = "refused" => j \notin tmp')
        /\ tmp' \subseteq tmp /\ tmp \ {j} \subseteq tmp' /\ (req'[j] = "submit" => tmp' = tmp)
        /\ \A k \in Jobs \ {j} : req'[k] = req[k]
    BY <1>6 DEF OInv, TypeOK
  <2>3. j \in tmp /\ proc = "serving" /\ engines \in {"registered", "off"}
    BY <1>3 DEF OInv, UploadInv, Asking
  <2>4. UploadKept'
    BY <1>3, <1>5, <2>2 DEF OInv, UploadInv, UploadKept
  <2>5. UploadOwned'
    <3> SUFFICES ASSUME NEW k \in tmp'
                 PROVE  \/ Answering(k)'
                        \/ \E t \in alive' : cur'[t] = k
                        \/ k \in Range(queue') /\ (~shut' \/ alive' # {})
                        \/ k \in stranded'
      BY DEF UploadOwned
    <3>1. CASE k = j
      BY <2>1, <2>2, <2>3, <3>1 DEF Answering
    <3>2. CASE k # j
      <4>1. k \in tmp /\ k \in Jobs /\ req'[k] = req[k]
        BY <2>2, <3>2 DEF OInv, TypeOK
      <4> QED
        BY <2>1, <4>1 DEF OInv, UploadInv, UploadOwned, Answering
    <3> QED
      BY <3>1, <3>2
  <2>6. \A k \in Jobs : Asking(k)' => k \in tmp'
    BY <2>2, <2>3 DEF OInv, UploadInv, Asking
  <2> QED
    BY <2>1, <2>2, <2>3, <2>4, <2>5, <2>6 DEF OInv, UploadInv, Asking
<1>10. RowInv'
  <2>1. queue' = queue /\ cur' = cur /\ step' = step /\ pc' = pc /\ out' = out
    BY <1>1 DEF exVars, runVars, thrVars
  <2>2. \A t \in Threads : cur[t] # j
    BY <1>3 DEF InHand
  <2>3. CASE /\ req' = [req EXCEPT ![j] = "submit"]
             /\ row' = [row EXCEPT ![j] = "queued"] /\ pane' = [pane EXCEPT ![j] = "queued"]
    <3>1. /\ row'[j] = "queued" /\ pane'[j] = "queued"
          /\ req'[j] = "submit"
          /\ \A k \in Jobs \ {j} : row'[k] = row[k] /\ pane'[k] = pane[k] /\ req'[k] = req[k]
      BY <2>3 DEF OInv, TypeOK
    <3>2. \A t \in Threads : step[t] # "none" => cur[t] \in Jobs \ {j}
      BY <2>2 DEF OInv, TypeOK, FlowInv
    <3> QED
      BY <2>1, <3>1, <3>2, SMTT(20) DEF OInv, RowInv
  <2>4. CASE req' = [req EXCEPT ![j] = "refused"] /\ row' = row /\ pane' = pane
    <3>1. req'[j] = "refused" /\ row[j] = "none" /\ \A k \in Jobs \ {j} : req'[k] = req[k]
      BY <1>3, <2>4 DEF OInv, TypeOK, RowInv
    <3> QED
      BY <2>1, <2>4, <3>1, SMTT(20) DEF OInv, RowInv
  <2> QED
    BY <1>6, <2>3, <2>4
<1>11. ExecutorInv'
  BY <1>1 DEF OInv, ExecutorInv, ThreadsBounded, exVars
<1> QED
  BY <1>2, <1>7, <1>8, <1>9, <1>10, <1>11 DEF OInv

LEMMA SubmitKeeps == ASSUME NEW j \in Jobs, OInv, Submit(j) PROVE OInv'
<1>1. UNCHANGED <<poolVars, vmVars, thrVars, proc, engines, tmp, rows, row, pane, shut, runVars, lateVars>>
  BY DEF Submit
<1>2. \/ /\ ~shut /\ queue' = Append(queue, j) /\ StartThread /\ req' = [req EXCEPT ![j] = "accepted"]
         /\ loop' = NoJob
      \/ /\ req' = [req EXCEPT ![j] = "row"]
         /\ UNCHANGED <<loop, queue, alive, faults>>
  BY DEF Submit, Goes
<1>3. alive' \subseteq Threads \ {Main} /\ ExecutorInv' /\ faults' \in 0..MaxFaults
  <2>1. CASE StartThread
    BY <2>1, StartThreadBounded DEF OInv
  <2>2. CASE UNCHANGED <<alive, faults>>
    BY <2>2 DEF OInv, TypeOK, PoolTypeOK, ExecutorInv, ThreadsBounded
  <2> QED
    BY <1>2, <2>1, <2>2
<1>4. PoolInv'
  BY <1>1, <1>3, ProcKeeps DEF OInv, TypeOK, PoolTypeOK
<1>5. req[j] = "submit" /\ ~InHand(j)
  BY DEF Submit, OInv, FlowInv
<1>6. /\ Append(queue, j) \in Seq(Jobs) /\ Range(Append(queue, j)) = Range(queue) \cup {j}
      /\ Distinct(queue) => Distinct(Append(queue, j))
  BY <1>5, Appended DEF OInv, TypeOK, InHand
<1>7. CASE ~shut /\ queue' = Append(queue, j) /\ StartThread /\ req' = [req EXCEPT ![j] = "accepted"] /\ loop' = NoJob
  <2>1. queue' \in Seq(Jobs) /\ Range(queue') = Range(queue) \cup {j}
    BY <1>6, <1>7
  <2>2. cur' = cur /\ step' = step
    BY <1>1 DEF runVars
  <2>3. tmp' = tmp /\ row' = row /\ pane' = pane /\ out' = out /\ pc' = pc /\ alive \subseteq alive'
    BY <1>1, <1>7 DEF StartThread, thrVars
  <2>4. /\ req'[j] = "accepted" /\ \A k \in Jobs \ {j} : req'[k] = req[k]
        /\ req' \in [Jobs -> {"none", "upload", "submit", "row", "pane", "unlink", "accepted", "refused"}]
    BY <1>7 DEF OInv, TypeOK
  <2>5. TypeOK'
    <3>1. PoolTypeOK' /\ loop' = NoJob /\ engines' = engines /\ rows' = rows /\ shut' = shut
          /\ poke' = poke /\ poker' = poker /\ stranded' = stranded
      BY <1>1, <1>4, <1>7 DEF PoolInv, lateVars
    <3>2. MaxRows' = MaxRows /\ TypeOK /\ alive' \subseteq Threads \ {Main}
      BY <1>3 DEF OInv
    <3> QED
      BY <2>1, <2>2, <2>3, <2>4, <3>1, <3>2, Zenon DEF TypeOK
  <2>6. \A k \in Jobs : InHand(k)' <=> k = j \/ InHand(k)
    BY <2>1, <2>2 DEF InHand
  <2>7. FlowInv'
    <3>1. Distinct(queue)'
      BY <1>6, <1>7, Zenon DEF OInv, FlowInv
    <3>2. \A k \in Jobs : InHand(k)' => req'[k] = "accepted"
      BY <2>4, <2>6 DEF OInv, FlowInv
    <3>3. \A t \in Threads : cur'[t] \notin Range(queue')
      BY <1>5, <2>1, <2>2 DEF OInv, FlowInv, InHand
    <3>4. /\ \A t, u \in Threads : cur[t] = cur[u] /\ cur[t] # NoJob => t = u
          /\ \A t \in Threads : cur[t] = NoJob <=> step[t] = "none"
          /\ \A t \in Threads : cur[t] # NoJob => t \in alive
      BY DEF OInv, FlowInv
    <3> QED
      BY <2>2, <2>3, <3>1, <3>2, <3>3, <3>4 DEF FlowInv
  <2>8. UploadInv'
    <3>1. /\ proc' = proc /\ engines' = engines /\ ~shut' /\ stranded' = stranded /\ ~shut
          /\ \A k \in Range(queue) : k \in Range(queue')
      BY <1>1, <1>7, <2>1 DEF lateVars
    <3>2. UploadKept'
      BY <1>5, <2>3, <2>6 DEF OInv, UploadInv, UploadKept, Asking
    <3>3. UploadOwned'
      BY <1>5, <2>1, <2>2, <2>3, <2>4, <3>1 DEF OInv, TypeOK, UploadInv, UploadOwned, Answering
    <3>4. \A k \in Jobs : Asking(k)' => k \in tmp' /\ proc' = "serving" /\ engines' \in {"registered", "off"}
      BY <2>3, <2>4, <3>1 DEF OInv, UploadInv, Asking
    <3>5. stranded' = {}
      BY <3>1 DEF OInv, UploadInv
    <3> QED
      BY <3>1, <3>2, <3>3, <3>4, <3>5 DEF UploadInv
  <2>9. RowInv'
    BY <1>5, <2>1, <2>2, <2>3, <2>4 DEF OInv, TypeOK, RowInv
  <2> QED
    BY <1>3, <1>4, <2>5, <2>7, <2>8, <2>9 DEF OInv
<1>8. CASE req' = [req EXCEPT ![j] = "row"] /\ UNCHANGED <<loop, queue, alive, faults>>
  <2>1. cur' = cur /\ step' = step
    BY <1>1 DEF runVars
  <2>2. TypeOK'
    BY <1>1, <1>3, <1>4, <1>8, SMTT(20) DEF runVars, lateVars, OInv, PoolInv, TypeOK
  <2>3. \A k \in Jobs : InHand(k)' <=> InHand(k)
    BY <1>8, <2>1 DEF InHand
  <2>4. FlowInv'
    BY <1>5, <1>8, <2>1, <2>3, SMTT(20) DEF OInv, TypeOK, FlowInv
  <2>5. UploadInv'
    BY <1>1, <1>5, <1>8, <2>1, <2>3, SMTT(20) DEF lateVars, OInv, TypeOK, UploadInv, UploadKept, UploadOwned, Answering, Asking
  <2>6. RowInv'
    BY <1>1, <1>5, <1>8, <2>1, SMTT(20) DEF thrVars, OInv, TypeOK, FlowInv, InHand, RowInv
  <2> QED
    BY <1>3, <1>4, <2>2, <2>4, <2>5, <2>6 DEF OInv
<1> QED
  BY <1>2, <1>7, <1>8

LEMMA RefuseRowKeeps == ASSUME NEW j \in Jobs, OInv, RefuseRow(j) PROVE OInv'
<1> USE OrchestratorAssumption DEF OrchestratorAssumption, OInv, RefuseRow, Goes, SetRow, poolAll, poolVars, vmVars, thrVars, jobVars, exVars, runVars, lateVars
<1>1. PoolInv'
  BY ProcKeeps, VmPoolAssumption DEF VmPoolAssumption, PoolTypeOK, TypeOK, Fault
<1>2. TypeOK'
  BY <1>1, SMTT(20) DEF PoolInv, TypeOK
<1>3. FlowInv'
  BY SMTT(20) DEF TypeOK, FlowInv, InHand
<1>4. UploadInv'
  BY SMTT(20) DEF TypeOK, FlowInv, UploadInv, UploadKept, UploadOwned, Answering, Asking, InHand
<1>5. RowInv'
  BY SMTT(20) DEF TypeOK, FlowInv, InHand, RowInv
<1>6. ExecutorInv'
  BY SMTT(20) DEF ExecutorInv, ThreadsBounded
<1> QED
  BY <1>1, <1>2, <1>3, <1>4, <1>5, <1>6

LEMMA RefusePaneKeeps == ASSUME NEW j \in Jobs, OInv, RefusePane(j) PROVE OInv'
<1> USE OrchestratorAssumption DEF OrchestratorAssumption, OInv, RefusePane, Goes, SetPane, poolAll, poolVars, vmVars, thrVars, jobVars, exVars, runVars, lateVars
<1>1. PoolInv'
  BY ProcKeeps, VmPoolAssumption DEF VmPoolAssumption, PoolTypeOK, TypeOK, Fault
<1>2. TypeOK'
  BY <1>1, SMTT(20) DEF PoolInv, TypeOK
<1>3. FlowInv'
  BY SMTT(20) DEF TypeOK, FlowInv, InHand
<1>4. UploadInv'
  BY SMTT(20) DEF TypeOK, FlowInv, UploadInv, UploadKept, UploadOwned, Answering, Asking, InHand
<1>5. RowInv'
  BY SMTT(20) DEF TypeOK, FlowInv, InHand, RowInv
<1>6. ExecutorInv'
  BY SMTT(20) DEF ExecutorInv, ThreadsBounded
<1> QED
  BY <1>1, <1>2, <1>3, <1>4, <1>5, <1>6

LEMMA RefuseUnlinkKeeps == ASSUME NEW j \in Jobs, OInv, RefuseUnlink(j) PROVE OInv'
<1> USE OrchestratorAssumption DEF OrchestratorAssumption, OInv, RefuseUnlink, Goes, poolAll, poolVars, vmVars, thrVars, jobVars, exVars, runVars, lateVars
<1>1. PoolInv'
  BY ProcKeeps, VmPoolAssumption DEF VmPoolAssumption, PoolTypeOK, TypeOK, Fault
<1>2. TypeOK'
  BY <1>1, SMTT(20) DEF PoolInv, TypeOK
<1>3. FlowInv'
  BY SMTT(20) DEF TypeOK, FlowInv, InHand
<1>4. UploadInv'
  BY SMTT(20) DEF TypeOK, FlowInv, UploadInv, UploadKept, UploadOwned, Answering, Asking, InHand
<1>5. RowInv'
  BY SMTT(20) DEF TypeOK, FlowInv, InHand, RowInv
<1>6. ExecutorInv'
  BY SMTT(20) DEF ExecutorInv, ThreadsBounded
<1> QED
  BY <1>1, <1>2, <1>3, <1>4, <1>5, <1>6

LEMMA TakeKeeps == ASSUME NEW t \in Threads, OInv, Take(t) PROVE OInv'
<1> DEFINE j == Head(queue)
<1>1. /\ j \in Jobs /\ queue' \in Seq(Jobs) /\ Range(queue) = Range(queue') \cup {j}
      /\ Distinct(queue) => Distinct(queue') /\ j \notin Range(queue')
  BY Taken DEF Take, OInv, TypeOK
<1>2. /\ cur[t] = NoJob /\ cur'[t] = j /\ step'[t] = "start"
      /\ \A u \in Threads \ {t} : cur'[u] = cur[u] /\ step'[u] = step[u]
  BY DEF Take, At, OInv, TypeOK
<1>3. UNCHANGED <<poolAll, jobVars, alive, shut, lateVars>>
  BY DEF Take
<1>4. \A k \in Jobs : InHand(k)' <=> InHand(k)
  BY <1>1, <1>2, OrchestratorAssumption DEF OrchestratorAssumption, InHand
<1>5. PoolInv'
  BY <1>3, ProcKeeps DEF poolAll, OInv, TypeOK, PoolTypeOK
<1>6. TypeOK'
  <2>1. /\ cur' \in [Threads -> Jobs \cup {NoJob}]
        /\ step' \in [Threads -> {"none", "start", "engine", "validate", "finish", "unlink"}]
    BY <1>1 DEF Take, At, OInv, TypeOK
  <2>2. /\ TypeOK /\ PoolTypeOK' /\ UNCHANGED <<jobVars, alive, shut, lateVars>>
    BY <1>3, <1>5 DEF OInv, PoolInv
  <2> QED
    BY <1>1, <2>1, <2>2, Zenon DEF TypeOK, jobVars, lateVars
<1>7. FlowInv'
  <2>1. /\ Distinct(queue) /\ \A u \in Threads : cur[u] # j
        /\ \A k \in Jobs : InHand(k) => req[k] = "accepted"
        /\ \A u \in Threads : cur[u] \notin Range(queue')
        /\ \A u, v \in Threads : cur[u] = cur[v] /\ cur[u] # NoJob => u = v
        /\ \A u \in Threads : cur[u] = NoJob <=> step[u] = "none"
        /\ \A u \in Threads : cur[u] # NoJob => u \in alive
    BY <1>1 DEF OInv, FlowInv
  <2>2. \A k \in Jobs : InHand(k)' => req'[k] = "accepted"
    BY <1>3, <1>4, <2>1 DEF jobVars
  <2>3. /\ \A u \in Threads : cur'[u] \notin Range(queue')
        /\ \A u, v \in Threads : cur'[u] = cur'[v] /\ cur'[u] # NoJob => u = v
        /\ \A u \in Threads : cur'[u] = NoJob <=> step'[u] = "none"
        /\ \A u \in Threads : cur'[u] # NoJob => u \in alive'
    BY <1>1, <1>2, <1>3, <2>1, OrchestratorAssumption DEF OrchestratorAssumption, Take
  <2> QED
    BY <1>1, <2>1, <2>2, <2>3 DEF FlowInv
<1>8. UploadInv'
  <2>1. /\ UNCHANGED <<req, tmp, engines, proc, alive, shut, stranded>> /\ t \in alive'
    BY <1>3 DEF Take, poolAll, jobVars, lateVars
  <2>2. \A u \in alive, k \in Jobs : cur[u] = k => cur'[u] = k
    BY <1>2, OrchestratorAssumption DEF OrchestratorAssumption, OInv, TypeOK
  <2>3. UploadOwned'
    BY <1>1, <1>2, <2>1, <2>2 DEF OInv, TypeOK, UploadInv, UploadOwned, Answering
  <2>4. UploadKept'
    BY <1>4, <2>1 DEF OInv, UploadInv, UploadKept
  <2> QED
    BY <1>1, <2>1, <2>3, <2>4 DEF OInv, UploadInv, Asking
<1>9. RowInv'
  <2>1. UNCHANGED <<req, row, pane, pc, out>>
    BY <1>3 DEF poolAll, thrVars, jobVars
  <2> QED
    BY <1>1, <1>2, <2>1, SMTT(20) DEF OInv, RowInv
<1>10. ExecutorInv'
  BY <1>3 DEF OInv, ExecutorInv, ThreadsBounded
<1> QED
  BY <1>5, <1>6, <1>7, <1>8, <1>9, <1>10 DEF OInv

LEMMA JobStartKeeps == ASSUME NEW t \in Threads, OInv, JobStart(t) PROVE OInv'
<1> USE OrchestratorAssumption DEF OrchestratorAssumption, OInv, JobStart, SetRow, At, poolAll, poolVars, vmVars, thrVars, jobVars, exVars, runVars, lateVars
<1>1. PoolInv'
  BY ProcKeeps, VmPoolAssumption DEF VmPoolAssumption, PoolTypeOK, TypeOK, Fault
<1>2. TypeOK'
  <2>1. cur[t] \in Jobs
    BY SMT DEF TypeOK, FlowInv
  <2> QED
    BY <1>1, <2>1, SMTT(20) DEF PoolInv, TypeOK
<1>3. FlowInv'
  BY SMTT(20) DEF TypeOK, FlowInv, InHand
<1>4. UploadInv'
  BY SMTT(20) DEF TypeOK, FlowInv, UploadInv, UploadKept, UploadOwned, Answering, Asking, InHand
<1>5. RowInv'
  BY SMTT(20) DEF TypeOK, FlowInv, InHand, RowInv
<1>6. ExecutorInv'
  BY SMTT(20) DEF ExecutorInv, ThreadsBounded
<1> QED
  BY <1>1, <1>2, <1>3, <1>4, <1>5, <1>6

LEMMA UnavailableKeeps == ASSUME NEW t \in Threads, OInv, Unavailable(t) PROVE OInv'
<1> USE OrchestratorAssumption DEF OrchestratorAssumption, OInv, Unavailable, SetPane, At, poolAll, poolVars, vmVars, thrVars, jobVars, exVars, runVars, lateVars
<1>1. PoolInv'
  BY ProcKeeps, VmPoolAssumption DEF VmPoolAssumption, PoolTypeOK, TypeOK, Fault
<1>2. TypeOK'
  <2>1. cur[t] \in Jobs
    BY SMT DEF TypeOK, FlowInv
  <2> QED
    BY <1>1, <2>1, SMTT(20) DEF PoolInv, TypeOK
<1>3. FlowInv'
  BY SMTT(20) DEF TypeOK, FlowInv, InHand
<1>4. UploadInv'
  BY SMTT(20) DEF TypeOK, FlowInv, UploadInv, UploadKept, UploadOwned, Answering, Asking, InHand
<1>5. RowInv'
  BY SMTT(20) DEF TypeOK, FlowInv, InHand, RowInv
<1>6. ExecutorInv'
  BY SMTT(20) DEF ExecutorInv, ThreadsBounded
<1> QED
  BY <1>1, <1>2, <1>3, <1>4, <1>5, <1>6

LEMMA EngineStartKeeps == ASSUME NEW t \in Threads, OInv, EngineStart(t) PROVE OInv'
<1> USE OrchestratorAssumption DEF OrchestratorAssumption, OInv, EngineStart, SetPane, At, poolAll, poolVars, vmVars, thrVars, jobVars, exVars, runVars, lateVars
<1>1. PoolInv'
  BY BeginKeeps, Zenon
<1>2. TypeOK'
  <2>1. cur[t] \in Jobs
    BY SMT DEF TypeOK, FlowInv
  <2> QED
    BY <1>1, <2>1, SMTT(20) DEF PoolInv, TypeOK
<1>3. FlowInv'
  BY SMTT(20) DEF TypeOK, FlowInv, InHand
<1>4. UploadInv'
  BY SMTT(20) DEF TypeOK, FlowInv, UploadInv, UploadKept, UploadOwned, Answering, Asking, InHand
<1>5. RowInv'
  <2>1. /\ step'[t] = "validate" /\ \A u \in Threads \ {t} : step'[u] = step[u] /\ pc'[u] = pc[u] /\ out'[u] = out[u]
    BY DEF Begin, TypeOK, PoolTypeOK
  <2>2. /\ UNCHANGED <<req, row, queue, cur>> /\ step[t] = "engine"
        /\ pane'[cur[t]] = "running" /\ \A j \in Jobs \ {cur[t]} : pane'[j] = pane[j]
    BY DEF TypeOK, FlowInv
  <2>3. /\ req[cur[t]] = "accepted" /\ cur[t] \in Jobs /\ \A u \in Threads \ {t} : cur[u] # cur[t]
    BY <2>2 DEF TypeOK, FlowInv, InHand
  <2>4. row[cur[t]] \in {"queued", "running"} /\ cur[t] \notin Range(queue)
    BY <2>2 DEF FlowInv, RowInv
  <2>5. \A u \in Threads \ {t} : step[u] # "none" => cur[u] \in Jobs \ {cur[t]}
    BY <2>3 DEF TypeOK, FlowInv
  <2> HIDE DEF OInv, EngineStart
  <2>6. RowInv
    BY DEF OInv
  <2>7. /\ \A j \in Jobs : req'[j] \in {"submit", "row", "pane"} => pane'[j] = "queued"
        /\ \A j \in Jobs : row'[j] = "error" => req'[j] = "pane" \/ pane'[j] = "error"
        /\ \A j \in Jobs : row'[j] = "done" => pane'[j] \in {"done", "error", "unavailable"}
    BY <2>2, <2>3, <2>4, <2>6 DEF RowInv
  <2>8. ASSUME NEW u \in Threads
        PROVE  /\ step'[u] \in {"start", "engine", "validate", "finish"} => row'[cur'[u]] \in {"queued", "running"}
               /\ step'[u] = "finish" => pane'[cur'[u]] \in {"done", "error", "unavailable"}
               /\ step'[u] = "finish" /\ pane'[cur'[u]] = "done" => pc'[u] = "idle" /\ out'[u] = "verdict"
    <3>1. CASE u = t
      BY <2>1, <2>2, <2>4, <3>1
    <3>2. CASE u # t
      BY <2>1, <2>2, <2>5, <2>6, <3>2 DEF RowInv
    <3> QED
      BY <3>1, <3>2
  <2> QED
    BY <2>2, <2>6, <2>7, <2>8 DEF RowInv
<1>6. ExecutorInv'
  BY SMTT(20) DEF ExecutorInv, ThreadsBounded
<1> QED
  BY <1>1, <1>2, <1>3, <1>4, <1>5, <1>6

LEMMA EngineEndsKeeps == ASSUME NEW t \in Threads, OInv, EngineEnds(t) PROVE OInv'
<1> USE OrchestratorAssumption DEF OrchestratorAssumption, OInv, EngineEnds, SetPane, At, poolAll, poolVars, vmVars, thrVars, jobVars, exVars, runVars, lateVars
<1>1. PoolInv'
  BY ProcKeeps, VmPoolAssumption DEF VmPoolAssumption, PoolTypeOK, TypeOK, Fault
<1>2. TypeOK'
  <2>1. cur[t] \in Jobs
    BY SMT DEF TypeOK, FlowInv
  <2> QED
    BY <1>1, <2>1, SMTT(20) DEF PoolInv, TypeOK
<1>3. FlowInv'
  BY SMTT(20) DEF TypeOK, FlowInv, InHand
<1>4. UploadInv'
  BY SMTT(20) DEF TypeOK, FlowInv, UploadInv, UploadKept, UploadOwned, Answering, Asking, InHand
<1>5. RowInv'
  BY SMTT(20) DEF TypeOK, FlowInv, InHand, RowInv
<1>6. ExecutorInv'
  BY SMTT(20) DEF ExecutorInv, ThreadsBounded
<1> QED
  BY <1>1, <1>2, <1>3, <1>4, <1>5, <1>6

LEMMA JobDoneKeeps == ASSUME NEW t \in Threads, OInv, JobDone(t) PROVE OInv'
<1> USE OrchestratorAssumption DEF OrchestratorAssumption, OInv, JobDone, SetRow, At, poolAll, poolVars, vmVars, thrVars, jobVars, exVars, runVars, lateVars
<1>1. PoolInv'
  BY ProcKeeps, VmPoolAssumption DEF VmPoolAssumption, PoolTypeOK, TypeOK, Fault
<1>2. TypeOK'
  <2>1. cur[t] \in Jobs
    BY SMT DEF TypeOK, FlowInv
  <2> QED
    BY <1>1, <2>1, SMTT(20) DEF PoolInv, TypeOK
<1>3. FlowInv'
  BY SMTT(20) DEF TypeOK, FlowInv, InHand
<1>4. UploadInv'
  BY SMTT(20) DEF TypeOK, FlowInv, UploadInv, UploadKept, UploadOwned, Answering, Asking, InHand
<1>5. RowInv'
  BY SMTT(20) DEF TypeOK, FlowInv, InHand, RowInv
<1>6. ExecutorInv'
  BY SMTT(20) DEF ExecutorInv, ThreadsBounded
<1> QED
  BY <1>1, <1>2, <1>3, <1>4, <1>5, <1>6

LEMMA JobLostKeeps == ASSUME NEW t \in Threads, OInv, JobLost(t) PROVE OInv'
<1> USE OrchestratorAssumption DEF OrchestratorAssumption, OInv, JobLost, At, poolAll, poolVars, vmVars, thrVars, jobVars, exVars, runVars, lateVars
<1>1. PoolInv'
  BY ProcKeeps, VmPoolAssumption DEF VmPoolAssumption, PoolTypeOK, TypeOK, Fault
<1>2. TypeOK'
  BY <1>1, SMTT(20) DEF PoolInv, TypeOK
<1>3. FlowInv'
  BY SMTT(20) DEF TypeOK, FlowInv, InHand
<1>4. UploadInv'
  BY SMTT(20) DEF TypeOK, FlowInv, UploadInv, UploadKept, UploadOwned, Answering, Asking, InHand
<1>5. RowInv'
  BY SMTT(20) DEF TypeOK, FlowInv, InHand, RowInv
<1>6. ExecutorInv'
  BY SMTT(20) DEF ExecutorInv, ThreadsBounded
<1> QED
  BY <1>1, <1>2, <1>3, <1>4, <1>5, <1>6

LEMMA JobUnlinkKeeps == ASSUME NEW t \in Threads, OInv, JobUnlink(t) PROVE OInv'
<1> USE OrchestratorAssumption DEF OrchestratorAssumption, OInv, JobUnlink, At, poolAll, poolVars, vmVars, thrVars, jobVars, exVars, runVars, lateVars
<1>1. PoolInv'
  BY ProcKeeps, VmPoolAssumption DEF VmPoolAssumption, PoolTypeOK, TypeOK, Fault
<1>2. TypeOK'
  BY <1>1, SMTT(20) DEF PoolInv, TypeOK
<1>3. FlowInv'
  <2>1. /\ cur'[t] = NoJob /\ step'[t] = "none"
        /\ \A u \in Threads \ {t} : cur'[u] = cur[u] /\ step'[u] = step[u]
    BY SMT DEF TypeOK
  <2>2. \A j \in Jobs : InHand(j)' => InHand(j)
    BY <2>1, SMT DEF InHand
  <2>3. /\ \A u \in Threads : cur'[u] \notin Range(queue')
        /\ \A u, v \in Threads : cur'[u] = cur'[v] /\ cur'[u] # NoJob => u = v
        /\ \A u \in Threads : cur'[u] = NoJob <=> step'[u] = "none"
    <3>1. NoJob \notin Range(queue')
      <4>1. \A i \in DOMAIN queue : queue[i] \in Jobs
        BY SMT DEF TypeOK
      <4> QED
        BY <4>1, SMT DEF Range
    <3> QED
      BY <2>1, <3>1, SMTT(20) DEF FlowInv
  <2> QED
    BY <2>2, <2>3, SMT DEF FlowInv
<1>4. UploadInv'
  BY SMTT(20) DEF TypeOK, FlowInv, UploadInv, UploadKept, UploadOwned, Answering, Asking, InHand
<1>5. RowInv'
  BY SMTT(20) DEF TypeOK, FlowInv, InHand, RowInv
<1>6. ExecutorInv'
  BY SMTT(20) DEF ExecutorInv, ThreadsBounded
<1> QED
  BY <1>1, <1>2, <1>3, <1>4, <1>5, <1>6

LEMMA ThreadEndsKeeps == ASSUME NEW t \in Threads, OInv, ThreadEnds(t) PROVE OInv'
<1> USE OrchestratorAssumption DEF OrchestratorAssumption, OInv, ThreadEnds, Idle, poolAll, poolVars, vmVars, thrVars, jobVars, exVars, runVars, lateVars
<1>1. PoolInv'
  BY ProcKeeps, VmPoolAssumption DEF VmPoolAssumption, PoolTypeOK, TypeOK, Fault
<1>2. TypeOK'
  BY <1>1, SMTT(20) DEF PoolInv, TypeOK
<1>3. FlowInv'
  BY SMTT(20) DEF TypeOK, FlowInv, InHand
<1>4. UploadInv'
  <2>1. Range(queue) = {}
    BY DEF Range
  <2>2. \A u \in alive : cur[u] \in Jobs => u \in alive'
    OBVIOUS
  <2>3. UNCHANGED <<req, tmp, engines, proc, queue, shut, cur, stranded>>
    OBVIOUS
  <2> HIDE DEF ThreadEnds
  <2> QED
    BY <2>1, <2>2, <2>3, SMTT(20) DEF TypeOK, UploadInv, UploadKept, UploadOwned, Answering, Asking, InHand
<1>5. RowInv'
  BY SMTT(20) DEF TypeOK, FlowInv, InHand, RowInv
<1>6. ExecutorInv'
  <2>1. /\ IsFiniteSet(alive \ {t}) /\ Cardinality(alive \ {t}) \in {Cardinality(alive), Cardinality(alive) - 1}
        /\ Cardinality(alive) \in Nat
    BY FS_RemoveElement, FS_CardinalityType DEF ExecutorInv
  <2> QED
    BY <2>1 DEF ExecutorInv, ThreadsBounded
<1> QED
  BY <1>1, <1>2, <1>3, <1>4, <1>5, <1>6

LEMMA PokeLooksKeeps == ASSUME OInv, PokeLooks PROVE OInv'
<1> USE OrchestratorAssumption DEF OrchestratorAssumption, OInv, PokeLooks, poolAll, poolVars, vmVars, thrVars, jobVars, exVars, runVars, lateVars
<1>1. PoolInv'
  BY ProcKeeps, VmPoolAssumption DEF VmPoolAssumption, PoolTypeOK, TypeOK, Fault
<1>2. TypeOK'
  BY <1>1, SMTT(20) DEF PoolInv, TypeOK
<1>3. FlowInv'
  BY SMTT(20) DEF TypeOK, FlowInv, InHand
<1>4. UploadInv'
  BY SMTT(20) DEF TypeOK, FlowInv, UploadInv, UploadKept, UploadOwned, Answering, Asking, InHand
<1>5. RowInv'
  BY SMTT(20) DEF TypeOK, FlowInv, InHand, RowInv
<1>6. ExecutorInv'
  BY SMTT(20) DEF ExecutorInv, ThreadsBounded
<1> QED
  BY <1>1, <1>2, <1>3, <1>4, <1>5, <1>6

LEMMA PokeKeeps == ASSUME OInv, Poke PROVE OInv'
<1> USE OrchestratorAssumption DEF OrchestratorAssumption, OInv, Poke, poolAll, poolVars, vmVars, thrVars, jobVars, exVars, runVars, lateVars
<1>0a. alive' \subseteq Threads \ {Main} /\ ExecutorInv' /\ faults' \in 0..MaxFaults
  <2>1. CASE StartThread
    BY <2>1, StartThreadBounded
  <2>2. CASE UNCHANGED <<alive, faults>>
    BY <2>2 DEF TypeOK, PoolTypeOK, ExecutorInv, ThreadsBounded
  <2> QED
    BY <2>1, <2>2, Zenon
<1>1. PoolInv'
  BY <1>0a, ProcKeeps DEF PoolTypeOK, TypeOK
<1>2. TypeOK'
  <2>1. UNCHANGED <<jobVars, queue, shut, runVars>> /\ poke' = FALSE
    BY Zenon
  <2> QED
    BY <1>1, <1>0a, <2>1, Zenon DEF PoolInv, TypeOK
<1>3. FlowInv'
  BY SMTT(20) DEF TypeOK, FlowInv, InHand
<1>4. UploadInv'
  BY SMTT(20) DEF TypeOK, FlowInv, UploadInv, UploadKept, UploadOwned, Answering, Asking, InHand
<1>5. RowInv'
  BY SMTT(20) DEF TypeOK, FlowInv, InHand, RowInv
<1>6. ExecutorInv'
  BY <1>0a
<1> QED
  BY <1>1, <1>2, <1>3, <1>4, <1>5, <1>6

LEMMA StartUpKeeps == ASSUME OInv, StartUp PROVE OInv'
<1> USE OrchestratorAssumption DEF OrchestratorAssumption, OInv, StartUp, poolAll, poolVars, vmVars, thrVars, jobVars, exVars, runVars, lateVars
<1>1. PoolInv'
  <2>1. CASE Begin(Main, "warmup")
    BY <2>1, BeginKeeps
  <2>2. CASE UNCHANGED thrVars
    BY <2>2, ProcKeeps DEF PoolTypeOK, TypeOK
  <2> QED
    BY <2>1, <2>2, Zenon
<1>2. TypeOK'
  BY <1>1, SMTT(20) DEF PoolInv, TypeOK
<1>3. FlowInv'
  BY SMTT(20) DEF TypeOK, FlowInv, InHand
<1>4. UploadInv'
  BY SMTT(20) DEF TypeOK, FlowInv, UploadInv, UploadKept, UploadOwned, Answering, Asking, InHand
<1>5. RowInv'
  <2>1. step[Main] = "none"
    BY DEF TypeOK, FlowInv
  <2>2. UNCHANGED <<req, row, pane, queue, cur, step>>
    OBVIOUS
  <2>3. \A u \in Threads \ {Main} : pc'[u] = pc[u] /\ out'[u] = out[u]
    BY DEF Begin, TypeOK, PoolTypeOK
  <2> HIDE DEF OInv, StartUp
  <2> QED
    BY <2>1, <2>2, <2>3, SMTT(20) DEF OInv, RowInv
<1>6. ExecutorInv'
  BY SMTT(20) DEF ExecutorInv, ThreadsBounded
<1> QED
  BY <1>1, <1>2, <1>3, <1>4, <1>5, <1>6

LEMMA StartUpEndsKeeps == ASSUME OInv, StartUpEnds PROVE OInv'
<1> USE OrchestratorAssumption DEF OrchestratorAssumption, OInv, StartUpEnds, poolAll, poolVars, vmVars, thrVars, jobVars, exVars, runVars, lateVars
<1>1. PoolInv'
  BY ProcKeeps, VmPoolAssumption DEF VmPoolAssumption, PoolTypeOK, TypeOK, Fault
<1>2. TypeOK'
  BY <1>1, SMTT(20) DEF PoolInv, TypeOK
<1>3. FlowInv'
  BY SMTT(20) DEF TypeOK, FlowInv, InHand
<1>4. UploadInv'
  BY SMTT(20) DEF TypeOK, FlowInv, UploadInv, UploadKept, UploadOwned, Answering, Asking, InHand
<1>5. RowInv'
  BY SMTT(20) DEF TypeOK, FlowInv, InHand, RowInv
<1>6. ExecutorInv'
  BY SMTT(20) DEF ExecutorInv, ThreadsBounded
<1> QED
  BY <1>1, <1>2, <1>3, <1>4, <1>5, <1>6

LEMMA LifespanEndsKeeps == ASSUME OInv, LifespanEnds PROVE OInv'
<1> USE OrchestratorAssumption DEF OrchestratorAssumption, OInv, LifespanEnds, poolAll, poolVars, vmVars, thrVars, jobVars, exVars, runVars, lateVars
<1>1. PoolInv'
  BY ProcKeeps, VmPoolAssumption DEF VmPoolAssumption, PoolTypeOK, TypeOK, Fault
<1>2. TypeOK'
  BY <1>1, SMTT(20) DEF PoolInv, TypeOK
<1>3. FlowInv'
  BY SMTT(20) DEF TypeOK, FlowInv, InHand
<1>4. UploadInv'
  BY SMTT(20) DEF TypeOK, FlowInv, UploadInv, UploadKept, UploadOwned, Answering, Asking, InHand
<1>5. RowInv'
  BY SMTT(20) DEF TypeOK, FlowInv, InHand, RowInv
<1>6. ExecutorInv'
  BY SMTT(20) DEF ExecutorInv, ThreadsBounded
<1> QED
  BY <1>1, <1>2, <1>3, <1>4, <1>5, <1>6

LEMMA InterpreterExitKeeps == ASSUME OInv, InterpreterExit PROVE OInv'
<1> USE OrchestratorAssumption DEF OrchestratorAssumption, OInv, InterpreterExit, poolAll, poolVars, vmVars, thrVars, jobVars, exVars, runVars, lateVars
<1>1. PoolInv'
  BY ProcKeeps, VmPoolAssumption DEF VmPoolAssumption, PoolTypeOK, TypeOK, Fault
<1>2. TypeOK'
  <2>1. Range(queue) \subseteq Jobs
    BY DEF TypeOK, Range
  <2> QED
    BY <1>1, <2>1, SMTT(20) DEF PoolInv, TypeOK
<1>3. FlowInv'
  BY SMTT(20) DEF TypeOK, FlowInv, InHand
<1>4. UploadInv'
  <2>1. /\ UNCHANGED <<req, tmp, engines, proc, queue, alive, cur>> /\ ~shut
        /\ (alive = {} => Range(queue) \subseteq stranded')
    OBVIOUS
  <2>2. UploadOwned'
    <3> HIDE DEF InterpreterExit
    <3> SUFFICES ASSUME NEW j \in tmp
                 PROVE  \/ Answering(j)'
                        \/ \E t \in alive : cur[t] = j
                        \/ j \in Range(queue) /\ alive # {}
                        \/ j \in stranded'
      BY <2>1 DEF UploadOwned
    <3>1. Answering(j)' <=> Answering(j)
      BY <2>1 DEF Answering
    <3>2. \/ Answering(j)
          \/ \E t \in alive : cur[t] = j
          \/ j \in Range(queue)
      BY <2>1 DEF UploadInv, UploadOwned
    <3> QED
      BY <2>1, <3>1, <3>2
  <2> QED
    BY <2>1, <2>2 DEF UploadInv, UploadKept, Asking, InHand
<1>5. RowInv'
  BY SMTT(20) DEF TypeOK, FlowInv, InHand, RowInv
<1>6. ExecutorInv'
  BY SMTT(20) DEF ExecutorInv, ThreadsBounded
<1> QED
  BY <1>1, <1>2, <1>3, <1>4, <1>5, <1>6

LEMMA ProcessEndsKeeps == ASSUME OInv, ProcessEnds PROVE OInv'
<1> USE OrchestratorAssumption DEF OrchestratorAssumption, OInv, ProcessEnds, Exit, poolAll, poolVars, vmVars, thrVars, jobVars, exVars, runVars, lateVars
<1>1. PoolInv'
  BY ProcKeeps, VmPoolAssumption DEF VmPoolAssumption, PoolTypeOK, TypeOK, Fault
<1>2. TypeOK'
  BY <1>1, SMTT(20) DEF PoolInv, TypeOK
<1>3. FlowInv'
  BY SMTT(20) DEF TypeOK, FlowInv, InHand
<1>4. UploadInv'
  BY SMTT(20) DEF TypeOK, FlowInv, UploadInv, UploadKept, UploadOwned, Answering, Asking, InHand
<1>5. RowInv'
  BY SMTT(20) DEF TypeOK, FlowInv, InHand, RowInv
<1>6. ExecutorInv'
  BY SMTT(20) DEF ExecutorInv, ThreadsBounded
<1> QED
  BY <1>1, <1>2, <1>3, <1>4, <1>5, <1>6

\* What a call has answered stays until the next call, and a server serves until its lifespan ends.
AnswersKept ==
  /\ \A t \in Threads : pc[t] = "idle" => pc'[t] = "idle" /\ out'[t] = out[t]
  /\ proc = "serving" => proc' = "serving"

LEMMA ThreadAnswers == ASSUME NEW t \in Threads, PoolInv, ThreadStep(t) PROVE AnswersKept
<1>1. /\ pc[t] # "idle" /\ proc' = proc
      /\ \A u \in Threads \ {t} : pc'[u] = pc[u] /\ out'[u] = out[u]
  BY DEF ThreadStep, Get, Boot, Poll, Return, Claim, Verdict, AgentFails, Ends, Refused, PoolInv, PoolTypeOK, Fault
<1> QED
  BY <1>1 DEF AnswersKept

\* The pool's own steps, whatever the threads are validating for.
LEMMA PoolPart ==
  ASSUME OInv, PoolInv', UNCHANGED <<jobVars, exVars, runVars, lateVars>>, AnswersKept
  PROVE  OInv'
<1> USE DEF jobVars, exVars, runVars, lateVars, OInv, AnswersKept
<1>1. TypeOK'
  BY SMTT(20) DEF PoolInv, TypeOK
<1>2. FlowInv' /\ UploadInv' /\ RowInv' /\ ExecutorInv'
  BY SMTT(20) DEF FlowInv, UploadInv, UploadKept, UploadOwned, Answering, Asking, RowInv, ExecutorInv, ThreadsBounded, InHand
<1> QED
  BY <1>1, <1>2

-----------------------------------------------------------------------------
(* The specification *)

LEMMA OInit == Init => OInv
<1> SUFFICES ASSUME Init PROVE OInv
  OBVIOUS
<1> USE OrchestratorAssumption DEF OrchestratorAssumption, Init
<1>1. PoolInv
  BY InitInv
<1>2. TypeOK
  <2>1. PoolTypeOK
    BY <1>1 DEF PoolInv
  <2>2. rows \in Seq(Jobs) /\ Len(rows) <= MaxRows /\ queue \in Seq(Jobs)
    OBVIOUS
  <2>3. /\ cur \in [Threads -> Jobs \cup {NoJob}]
        /\ step \in [Threads -> {"none", "start", "engine", "validate", "finish", "unlink"}]
        /\ req \in [Jobs -> {"none", "upload", "submit", "row", "pane", "unlink", "accepted", "refused"}]
        /\ row \in [Jobs -> {"none", "queued", "running", "done", "error"}]
        /\ pane \in [Jobs -> {"none", "queued", "running", "unavailable", "done", "error"}]
    OBVIOUS
  <2> QED
    BY <2>1, <2>2, <2>3, Zenon DEF TypeOK
<1>3. Range(queue) = {}
  BY DEF Range
<1>4. \A j \in Jobs : ~InHand(j)
  BY <1>3 DEF InHand
<1>5. FlowInv
  BY <1>3, <1>4 DEF FlowInv, Distinct
<1>6. UploadInv
  BY <1>4 DEF UploadInv, UploadKept, UploadOwned, Answering, Asking
<1>7. RowInv
  BY <1>3 DEF RowInv
<1>8. ExecutorInv
  BY FS_EmptySet DEF ExecutorInv, ThreadsBounded
<1> QED
  BY <1>1, <1>2, <1>5, <1>6, <1>7, <1>8 DEF OInv

LEMMA RunKeeps == ASSUME NEW t \in Threads, OInv, RunStep(t) PROVE OInv'
<1>1. CASE ThreadStep(t) /\ UNCHANGED <<jobVars, exVars, runVars, lateVars>>
  <2>1. PoolInv'
    BY <1>1, GetKeeps, BootKeeps, PollKeeps, ReturnKeeps, ClaimKeeps, VerdictKeeps, AgentFailsKeeps
    DEF ThreadStep, OInv
  <2>2. AnswersKept
    BY <1>1, ThreadAnswers DEF OInv
  <2> QED
    BY <1>1, <2>1, <2>2, PoolPart
<1> QED
  BY <1>1, TakeKeeps, JobStartKeeps, UnavailableKeeps, EngineStartKeeps, EngineEndsKeeps, JobDoneKeeps,
     JobLostKeeps, JobUnlinkKeeps, ThreadEndsKeeps DEF RunStep

LEMMA OStep == OInv /\ [Next]_ovars => OInv'
<1> SUFFICES ASSUME OInv, [Next]_ovars PROVE OInv'
  OBVIOUS
<1>1. ASSUME NEW j \in Jobs, Upload(j) \/ UploadFails(j) \/ RequestStep(j) PROVE OInv'
  BY <1>1, UploadKeeps, UploadFailsKeeps, CreateKeeps, SubmitKeeps, RefuseRowKeeps, RefusePaneKeeps, RefuseUnlinkKeeps
  DEF RequestStep
<1>2. ASSUME NEW t \in Threads, RunStep(t) PROVE OInv'
  BY <1>2, RunKeeps
<1>3. CASE PokeLooks \/ Poke
  BY <1>3, PokeLooksKeeps, PokeKeeps
<1>4. CASE StartUp \/ StartUpEnds \/ LifespanEnds \/ InterpreterExit \/ ProcessEnds
  BY <1>4, StartUpKeeps, StartUpEndsKeeps, LifespanEndsKeeps, InterpreterExitKeeps, ProcessEndsKeeps
<1>5. CASE Shutdown
  <2>1. PoolInv' /\ UNCHANGED <<jobVars, exVars, runVars, lateVars>>
    BY <1>5, ShutStopKeeps, ShutClearKeeps DEF Shutdown, OInv
  <2>2. AnswersKept
    BY <1>5 DEF Shutdown, ShutStop, ShutClear, AnswersKept, thrVars
  <2> QED
    BY <2>1, <2>2, PoolPart
<1>6. CASE Library /\ UNCHANGED <<jobVars, exVars, runVars, lateVars>>
  <2>1. PoolInv'
    BY <1>6, SpawnKeeps, WarmsKeeps, GuestDiesKeeps DEF Library, OInv
  <2>2. AnswersKept
    BY <1>6 DEF Library, Spawn, Warms, GuestDies, AnswersKept, thrVars
  <2> QED
    BY <1>6, <2>1, <2>2, PoolPart
<1>7. CASE UNCHANGED ovars
  <2>1. UNCHANGED <<poolVars, vmVars, thrVars>> /\ proc' = proc /\ faults' = faults
    BY <1>7, Zenon DEF ovars, poolAll
  <2>2. proc \in {"serving", "stopping", "reaping", "clearing", "down", "gone"} /\ faults \in 0..MaxFaults
    BY Zenon DEF OInv, PoolInv, PoolTypeOK
  <2>3. PoolInv'
    BY <2>1, <2>2, ProcKeeps, Zenon DEF OInv
  <2>4. AnswersKept
    BY <2>1 DEF AnswersKept, thrVars
  <2> QED
    BY <1>7, <2>3, <2>4, PoolPart, Zenon DEF ovars
<1> QED
  BY <1>1, <1>2, <1>3, <1>4, <1>5, <1>6, <1>7 DEF Next

\* The inductive invariant holds for any uploads, threads, guests, store and executor sizes.
THEOREM OrchestratorInvariance == Spec => []OInv
<1> QED
  BY OInit, OStep, PTL DEF Spec

-----------------------------------------------------------------------------
(* The results *)

\* Every variable keeps its type, and the store of rows its cap.
THEOREM OrchestratorTypes == Spec => []TypeOK
<1>1. OInv => TypeOK
  BY DEF OInv
<1> QED
  BY <1>1, OrchestratorInvariance, PTL

\* A job that is queued or runs has its upload, whatever the executor raised.
THEOREM UploadsKept == Spec => []UploadKept
<1>1. OInv => UploadKept
  BY DEF OInv, UploadInv
<1> QED
  BY <1>1, OrchestratorInvariance, PTL

\* Every upload that exists has somebody who will remove it: its request, while the server runs, its
\* thread, or the thread that will take it from the queue.  One exception is named: what is
\* queued when the executor is shut and never had a thread is stranded.
THEOREM UploadsOwned == Spec => []UploadOwned
<1>1. OInv => UploadOwned
  BY DEF OInv, UploadInv
<1> QED
  BY <1>1, OrchestratorInvariance, PTL

\* The executor keeps to its threads, whoever races to start one.
THEOREM ThreadsKeptBounded == Spec => []ThreadsBounded
<1>1. OInv => ThreadsBounded
  BY DEF OInv, ExecutorInv
<1> QED
  BY <1>1, OrchestratorInvariance, PTL

\* A row that is over has an engine that is over, and an error is never shown as done.
THEOREM PanesTold == Spec => []PaneTold
<1>1. OInv => PaneTold
  BY Zenon DEF OInv, RowInv, PaneTold
<1> QED
  BY <1>1, OrchestratorInvariance, PTL

\* The orchestrator's threads boot one pool between them.
THEOREM OrchestratorHasOnePool == Spec => []OnePool
<1>1. OInv => OnePool
  BY OneNewest DEF OInv
<1> QED
  BY <1>1, OrchestratorInvariance, PTL

=============================================================================
