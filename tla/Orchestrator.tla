---------------------------- MODULE Orchestrator ----------------------------
(***************************************************************************)
(* The all-in-one orchestrator: requests that spool an upload to a         *)
(* temporary file and create a row in a bounded in-memory store, the       *)
(* thread pool executor that runs the rows, the poker that starts a thread *)
(* when none could start, the start of the server and its shutdown.  The   *)
(* threads validate through the pool of VmPool.                            *)
(***************************************************************************)
EXTENDS VmPool, Sequences, SequencesExt

CONSTANTS
  Main,        \* the event loop's thread; the others are the executor's
  Jobs,        \* uploads
  MaxRows,     \* max_jobs
  MaxThreads,  \* max_workers
  NoJob

ASSUME OrchestratorAssumption ==
  /\ MaxRows \in Nat \ {0} /\ MaxThreads \in Nat \ {0}
  /\ NoJob \notin Jobs /\ Main \in Threads

VARIABLES
  engines,     \* the start of the server: ENGINES
  req,         \* request: where scan() is
  tmp,         \* the upload's temporary file is there
  rows,        \* _jobs in insertion order
  row,         \* status of a row
  pane,        \* status of its engine
  loop,        \* the request the event loop is busy with
  queue,       \* the executor's work queue
  alive,       \* the executor's threads
  shut,        \* the executor takes no more work
  cur,         \* thread: the job it runs
  step,        \* thread: where _run_inner is
  poker,       \* there is a poker thread
  poke,        \* it saw work and no thread
  stranded     \* what was queued when the executor was shut without ever a thread

jobVars == <<engines, req, tmp, rows, row, pane, loop>>
exVars  == <<queue, alive, shut>>
runVars == <<cur, step>>
lateVars == <<poker, poke, stranded>>
ovars   == <<poolAll, jobVars, exVars, runVars, lateVars>>

-----------------------------------------------------------------------------
(* The executor *)

Idle == {t \in alive : cur[t] = NoJob}

\* _adjust_thread_count: a thread for an item no idle thread will take; it may not start.
StartThread ==
  \/ /\ Idle # {} \/ Cardinality(alive) >= MaxThreads
     /\ UNCHANGED <<alive, faults>>
  \/ /\ Idle = {} /\ Cardinality(alive) < MaxThreads
     /\ \/ \E t \in Threads \ (alive \cup {Main}) : alive' = alive \cup {t} /\ UNCHANGED faults
        \/ Fault /\ UNCHANGED alive

Evicted(j) == j \notin Range(rows)

-----------------------------------------------------------------------------
(* scan() *)

Goes(j, l) == req' = [req EXCEPT ![j] = l]
SetRow(j, s) == row' = [row EXCEPT ![j] = s]
SetPane(j, s) == pane' = [pane EXCEPT ![j] = s]

\* The upload is written to a temporary file, chunk by chunk ...
Upload(j) ==
  /\ proc = "serving" /\ engines \in {"registered", "off"} /\ loop = NoJob
  /\ req[j] = "none"
  /\ Goes(j, "upload")
  /\ tmp' = tmp \cup {j}
  /\ UNCHANGED <<poolAll, engines, rows, row, pane, loop, exVars, runVars, lateVars>>

\* ... too large, cut off or unwritable it is removed.
UploadFails(j) ==
  /\ req[j] = "upload" /\ loop = NoJob
  /\ Goes(j, "refused")
  /\ tmp' = tmp \ {j}
  /\ UNCHANGED <<poolAll, engines, rows, row, pane, loop, exVars, runVars, lateVars>>

\* create: a row, and the oldest beyond the cap is evicted.  From here to the answer the event
\* loop does nothing else.
Create(j) ==
  /\ req[j] = "upload" /\ loop = NoJob
  /\ \/ /\ Goes(j, "submit")
        /\ loop' = j
        /\ SetRow(j, "queued") /\ SetPane(j, "queued")
        /\ rows' = IF Len(rows) < MaxRows THEN Append(rows, j) ELSE Append(Tail(rows), j)
        /\ UNCHANGED <<tmp, faults>>
     \/ /\ Fault
        /\ Goes(j, "refused")
        /\ tmp' = tmp \ {j}
        /\ UNCHANGED <<rows, row, pane, loop>>
  /\ UNCHANGED <<poolVars, vmVars, thrVars, proc, engines, exVars, runVars, lateVars>>

\* Mutant: any exception of the executor is taken for a refusal.
SubmitRaises(j) ==
  /\ req[j] = "submit" /\ ~shut
  /\ loop' = NoJob
  /\ queue' = Append(queue, j)
  /\ Idle = {} /\ Fault
  /\ Goes(j, "refused") /\ tmp' = tmp \ {j}
  /\ SetRow(j, "error") /\ SetPane(j, "error")
  /\ UNCHANGED <<poolVars, vmVars, thrVars, proc, engines, rows, alive, shut, runVars, lateVars>>

\* submit: queued, whether or not a thread could start for it; or refused before that.
Submit(j) ==
  /\ req[j] = "submit"
  /\ \/ /\ ~shut
        /\ loop' = NoJob
        /\ queue' = Append(queue, j)
        /\ StartThread
        /\ Goes(j, "accepted")
     \/ /\ shut
        /\ Goes(j, "row")
        /\ UNCHANGED <<loop, queue, alive, faults>>
  /\ UNCHANGED <<poolVars, vmVars, thrVars, proc, engines, tmp, rows, row, pane, shut, runVars, lateVars>>

\* What a refusal writes, a section of the store's lock each: the row ...
RefuseRow(j) ==
  /\ req[j] = "row"
  /\ SetRow(j, "error")
  /\ Goes(j, "pane")
  /\ UNCHANGED <<poolAll, engines, tmp, rows, pane, loop, exVars, runVars, lateVars>>

\* Mutant: the refused row's engine is left queued.
RefusePaneNot(j) ==
  /\ req[j] = "pane"
  /\ Goes(j, "unlink")
  /\ UNCHANGED <<poolAll, engines, tmp, rows, row, pane, loop, exVars, runVars, lateVars>>

\* ... its engine ...
RefusePane(j) ==
  /\ req[j] = "pane"
  /\ SetPane(j, "error")
  /\ Goes(j, "unlink")
  /\ UNCHANGED <<poolAll, engines, tmp, rows, row, loop, exVars, runVars, lateVars>>

\* ... and the upload is removed before the answer.
RefuseUnlink(j) ==
  /\ req[j] = "unlink"
  /\ tmp' = tmp \ {j}
  /\ Goes(j, "refused") /\ loop' = NoJob
  /\ UNCHANGED <<poolAll, engines, rows, row, pane, exVars, runVars, lateVars>>

RequestStep(j) == Create(j) \/ Submit(j) \/ RefuseRow(j) \/ RefusePane(j) \/ RefuseUnlink(j)

-----------------------------------------------------------------------------
(* A thread: _run_inner *)

At(t, l) == step' = [step EXCEPT ![t] = l]

Take(t) ==
  /\ t \in alive /\ cur[t] = NoJob /\ queue # <<>>
  /\ cur' = [cur EXCEPT ![t] = Head(queue)]
  /\ queue' = Tail(queue)
  /\ At(t, "start")
  /\ UNCHANGED <<poolAll, jobVars, alive, shut, lateVars>>

\* _update and _update_engine of an evicted job raise: on to the removal of the upload.
JobLost(t) ==
  /\ \/ step[t] \in {"start", "engine", "finish"}
     \/ step[t] = "validate" /\ pc[t] = "idle"
  /\ Evicted(cur[t])
  /\ At(t, "unlink")
  /\ UNCHANGED <<poolAll, jobVars, exVars, cur, lateVars>>

JobStart(t) ==
  /\ step[t] = "start" /\ ~Evicted(cur[t])
  /\ SetRow(cur[t], "running")
  /\ At(t, "engine")
  /\ UNCHANGED <<poolAll, engines, req, tmp, rows, pane, loop, exVars, cur, lateVars>>

\* An engine that is not registered (or is none: the request names it) is unavailable ...
Unavailable(t) ==
  /\ step[t] = "engine" /\ ~Evicted(cur[t])
  /\ SetPane(cur[t], "unavailable")
  /\ At(t, "finish")
  /\ UNCHANGED <<poolAll, engines, req, tmp, rows, row, loop, exVars, cur, lateVars>>

\* ... a registered one validates the upload ...
EngineStart(t) ==
  /\ step[t] = "engine" /\ ~Evicted(cur[t])
  /\ engines = "registered"
  /\ SetPane(cur[t], "running")
  /\ At(t, "validate")
  /\ Begin(t, "verdict")
  /\ UNCHANGED <<poolVars, vmVars, proc, faults, engines, req, tmp, rows, row, loop, exVars, cur, lateVars>>

\* ... and its failure is an error, never a verdict.
EngineEnds(t) ==
  /\ step[t] = "validate" /\ pc[t] = "idle" /\ ~Evicted(cur[t])
  /\ SetPane(cur[t], IF out[t] = "verdict" THEN "done" ELSE "error")
  /\ At(t, "finish")
  /\ UNCHANGED <<poolAll, engines, req, tmp, rows, row, loop, exVars, cur, lateVars>>

JobDone(t) ==
  /\ step[t] = "finish" /\ ~Evicted(cur[t])
  /\ SetRow(cur[t], "done")
  /\ At(t, "unlink")
  /\ UNCHANGED <<poolAll, engines, req, tmp, rows, pane, loop, exVars, cur, lateVars>>

\* Mutant: the upload of a job evicted while it was queued is not removed.
JobUnlinkStarted(t) ==
  /\ step[t] = "unlink"
  /\ tmp' = IF row[cur[t]] = "queued" THEN tmp ELSE tmp \ {cur[t]}
  /\ At(t, "none") /\ cur' = [cur EXCEPT ![t] = NoJob]
  /\ UNCHANGED <<poolAll, engines, req, rows, row, pane, loop, exVars, lateVars>>

\* The finally removes the upload whatever happened.
JobUnlink(t) ==
  /\ step[t] = "unlink"
  /\ tmp' = tmp \ {cur[t]}
  /\ At(t, "none") /\ cur' = [cur EXCEPT ![t] = NoJob]
  /\ UNCHANGED <<poolAll, engines, req, rows, row, pane, loop, exVars, lateVars>>

\* A thread of an executor that is shut ends when there is no more work.
ThreadEnds(t) ==
  /\ shut /\ t \in Idle /\ queue = <<>>
  /\ alive' = alive \ {t}
  /\ UNCHANGED <<poolAll, jobVars, queue, shut, runVars, lateVars>>

RunStep(t) ==
  \/ Take(t) \/ JobStart(t) \/ Unavailable(t) \/ EngineStart(t) \/ EngineEnds(t) \/ JobDone(t)
  \/ JobLost(t) \/ JobUnlink(t) \/ ThreadEnds(t)
  \/ ThreadStep(t) /\ UNCHANGED <<jobVars, exVars, runVars, lateVars>>

-----------------------------------------------------------------------------
(* The poker, the shutdown *)

\* Mutant: there is no poker.
PokeLooksNot == FALSE /\ UNCHANGED ovars

\* The poker's look without the locks ...
PokeLooks ==
  /\ poker /\ ~poke /\ ~shut
  /\ queue # <<>> /\ alive = {}
  /\ poke' = TRUE
  /\ UNCHANGED <<poolAll, jobVars, exVars, runVars, poker, stranded>>

\* Mutant: what it saw is not looked at again, and the thread is started without the locks.
PokeStale ==
  /\ poke /\ poke' = FALSE
  /\ \E t \in Threads \ (alive \cup {Main}) : alive' = alive \cup {t}
  /\ UNCHANGED <<poolAll, jobVars, queue, shut, runVars, poker, stranded>>

\* ... is repeated under them before a thread is started; it may not start this time either.
Poke ==
  /\ poke /\ poke' = FALSE
  /\ IF shut \/ queue = <<>> \/ alive # {} THEN UNCHANGED <<alive, faults>> ELSE StartThread
  /\ UNCHANGED <<poolVars, vmVars, thrVars, proc, jobVars, queue, shut, runVars, poker, stranded>>

-----------------------------------------------------------------------------
(* The lifespan *)

\* The start of the server boots the pool; ORCHESTRATOR_WARM=0 registers no engine.
StartUp ==
  /\ engines = "none"
  /\ \/ engines' = "off" /\ UNCHANGED thrVars
     \/ engines' = "booting" /\ Begin(Main, "warmup")
  /\ UNCHANGED <<poolVars, vmVars, proc, faults, req, tmp, rows, row, pane, loop, exVars, runVars, lateVars>>

\* A boot that fails ends the start; its guests were reaped by the boot itself.
StartUpEnds ==
  /\ engines = "booting" /\ pc[Main] = "idle"
  /\ \/ out[Main] = "none" /\ engines' = "registered" /\ UNCHANGED proc
     \/ out[Main] = "error" /\ engines' = "failed" /\ proc' = "down"
  /\ UNCHANGED <<poolVars, vmVars, thrVars, faults, req, tmp, rows, row, pane, loop, exVars, runVars, lateVars>>

\* The server has answered its requests and runs the end of its lifespan.
LifespanEnds ==
  /\ proc = "serving" /\ engines \in {"registered", "off"}
  /\ \A j \in Jobs : req[j] \in {"none", "accepted", "refused"}
  /\ proc' = "reaping"
  /\ UNCHANGED <<poolVars, vmVars, thrVars, faults, jobVars, exVars, runVars, lateVars>>

Shutdown == (ShutStop \/ ShutClear) /\ UNCHANGED <<jobVars, exVars, runVars, lateVars>>

\* The interpreter's exit shuts the executor; with the server in a thread of its own, even while
\* it serves.  Threads finish the queue first; what is queued for none is dropped.
InterpreterExit ==
  /\ ~shut
  /\ \/ proc = "down" /\ UNCHANGED faults
     \/ proc = "serving" /\ Fault
  /\ shut' = TRUE
  /\ stranded' = IF alive = {} THEN Range(queue) ELSE {}
  /\ UNCHANGED <<poolVars, vmVars, thrVars, proc, jobVars, queue, alive, runVars, poker, poke>>

\* The process is gone when its threads have ended.
ProcessEnds ==
  /\ shut /\ alive = {}
  /\ Exit
  /\ UNCHANGED <<jobVars, exVars, runVars, lateVars>>

-----------------------------------------------------------------------------
(* The specification *)

\* The poker may be the thread that cannot start.
Init ==
  /\ PoolInit
  /\ engines = "none"
  /\ req = [j \in Jobs |-> "none"] /\ tmp = {} /\ rows = <<>>
  /\ row = [j \in Jobs |-> "none"] /\ pane = [j \in Jobs |-> "none"]
  /\ loop = NoJob /\ queue = <<>> /\ alive = {} /\ shut = FALSE
  /\ cur = [t \in Threads |-> NoJob] /\ step = [t \in Threads |-> "none"]
  /\ poker \in BOOLEAN /\ poke = FALSE /\ stranded = {}

Next ==
  \/ \E j \in Jobs : Upload(j) \/ UploadFails(j) \/ RequestStep(j)
  \/ \E t \in Threads : RunStep(t)
  \/ PokeLooks \/ Poke
  \/ StartUp \/ StartUpEnds \/ LifespanEnds \/ Shutdown \/ InterpreterExit \/ ProcessEnds
  \/ Library /\ UNCHANGED <<jobVars, exVars, runVars, lateVars>>

\* Threads, the poker and the event loop run on.
Fairness ==
  /\ \A t \in Threads :
       WF_ovars(RunStep(t)) /\ SF_ovars(Boot(t) /\ UNCHANGED <<jobVars, exVars, runVars, lateVars>>)
  /\ \A j \in Jobs : WF_ovars(RequestStep(j))
  /\ WF_ovars(PokeLooks) /\ WF_ovars(Poke)

Spec == Init /\ [][Next]_ovars /\ Fairness

-----------------------------------------------------------------------------
(* Properties *)

TypeOK ==
  /\ PoolTypeOK
  /\ engines \in {"none", "off", "booting", "registered", "failed"}
  /\ req \in [Jobs -> {"none", "upload", "submit", "row", "pane", "unlink", "accepted", "refused"}]
  /\ tmp \subseteq Jobs /\ rows \in Seq(Jobs) /\ Len(rows) <= MaxRows
  /\ row \in [Jobs -> {"none", "queued", "running", "done", "error"}]
  /\ pane \in [Jobs -> {"none", "queued", "running", "unavailable", "done", "error"}]
  /\ loop \in Jobs \cup {NoJob} /\ queue \in Seq(Jobs)
  /\ alive \subseteq Threads \ {Main} /\ shut \in BOOLEAN
  /\ poker \in BOOLEAN /\ poke \in BOOLEAN /\ stranded \subseteq Jobs
  /\ cur \in [Threads -> Jobs \cup {NoJob}]
  /\ step \in [Threads -> {"none", "start", "engine", "validate", "finish", "unlink"}]

InHand(j) == j \in Range(queue) \/ \E t \in Threads : cur[t] = j

\* A request that is still being answered, by a server that runs.
Answering(j) == req[j] \in {"upload", "submit", "row", "pane", "unlink"} /\ proc = "serving"

\* A job that will run has its upload, also when the executor raised after it was queued ...
UploadKept == \A j \in Jobs : InHand(j) => j \in tmp

\* ... and there is no upload that nobody is left to remove: its request does, or the thread that
\* runs it, or the one that will take it from the queue; nothing sweeps the temporary directory.
\* One exception: what is queued when the process exits and no thread ever started for it, which
\* nothing removes and nothing reports.
UploadOwned ==
  \A j \in tmp :
    \/ Answering(j)
    \/ \E t \in alive : cur[t] = j
    \/ j \in Range(queue) /\ (~shut \/ alive # {})
    \/ j \in stranded

\* The poker and a submission that race to start a thread do not pass the claim concurrency.
ThreadsBounded == Cardinality(alive) <= MaxThreads

\* Whoever reads a finished row sees a finished engine, and once a refusal is answered no engine
\* is left queued under its error row (until then it may be); a row in error, and an engine
\* whose validation failed, are never shown as done.
PaneTold ==
  /\ \A j \in Jobs : ~Evicted(j) =>
       /\ row[j] = "done" => pane[j] \in {"done", "error", "unavailable"}
       /\ row[j] = "error" => pane[j] \in (IF req[j] = "pane" THEN {"queued"} ELSE {"error"})
       /\ req[j] = "refused" /\ row[j] # "none" => row[j] = "error"
  /\ \A t \in Threads : step[t] = "finish" /\ pane[cur[t]] = "done" => out[t] = "verdict"

\* An accepted job is decided or evicted, and its upload removed, even when no thread could start
\* for it and the poker has to; without a poker, once there is a thread.  Unless the process
\* ends first.
EventuallyRun ==
  \A j \in Jobs :
    req[j] = "accepted" /\ (poker \/ alive # {})
      ~> shut \/ (j \notin tmp /\ (Evicted(j) \/ row[j] = "done"))

=============================================================================
