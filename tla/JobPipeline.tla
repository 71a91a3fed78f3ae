----------------------------- MODULE JobPipeline -----------------------------
(***************************************************************************)
(* The submission tier: an untrusted ingress that spools an upload and     *)
(* creates a row in the shared job store, and pool-manager processes       *)
(* whose claim threads validate the spooled input and write one terminal   *)
(* status back, fenced by a compare-and-set on the row.  A start recovers  *)
(* the rows an earlier process abandoned, and a retention sweep removes    *)
(* old job directories.                                                    *)
(*                                                                         *)
(* Store calls may raise: without effect ("lost") or after their effect    *)
(* ("landed").  Processes may be killed between any two steps.  Time is    *)
(* two ages against the retention cutoff: of a directory (mtime) and of a  *)
(* finished row (finished_at).                                             *)
(***************************************************************************)
EXTENDS Naturals, FiniteSets

CONSTANTS
  Jobs,       \* job ids: one per upload request (a uuid), never reused
  Managers,   \* pool-manager process slots
  Threads,    \* claim threads
  Owner,      \* the manager a claim thread belongs to
  Exclusive,  \* TRUE: the unit's one instance; FALSE: a second manager may run beside it
  MaxFaults,  \* bound on environment failures (store errors, kills, I/O errors)
  NoJob, NoThread

ASSUME ConstantsAssumption ==
  /\ Owner \in [Threads -> Managers]
  /\ Exclusive \in BOOLEAN
  /\ MaxFaults \in Nat
  /\ NoJob \notin Jobs
  /\ NoThread \notin Threads

VARIABLES
  req,        \* ingress: where the upload request of a job is
  row,        \* store: the row's status and why it ended
  claim,      \* store: the row's claim_id (the claimant)
  recent,     \* store: jobs whose finished_at is after the retention cutoff
  dir,        \* JOB_ROOT/<job>: absent, or its mtime against the cutoff
  spool,      \* JOB_ROOT/<job>/input/<name>
  out,        \* JOB_ROOT/<job>/output
  scratch,    \* jobs with a scratch tree under WORK_ROOT
  mgr,        \* manager: where run() is
  stop,       \* managers whose _stop event is set
  todo,       \* manager: rows _recover_orphans still has to handle
  drop,       \* manager: the orphan whose spool is to be unlinked next
  swpc,       \* retention thread: where _sweep_one is
  swjob,      \* retention thread: the directory it looks at
  pc,         \* claim thread: where _process is
  cur,        \* claim thread: the claimed job
  res,        \* claim thread: the terminal status it will write
  opened,     \* claim threads whose in_fd is not None
  recorded,   \* claim threads whose terminal status reached the store
  seen,       \* history: jobs a sha256 mismatch was logged for
  faults      \* environment failures so far

storeVars == <<row, claim, recent>>
fsVars    == <<dir, spool, out, scratch>>
runVars   == <<mgr, stop, todo, drop>>
sweepVars == <<swpc, swjob>>
procVars  == <<pc, cur, res, opened, recorded>>
vars      == <<req, storeVars, fsVars, runVars, sweepVars, procVars, seen, faults>>

-----------------------------------------------------------------------------
(* Values *)

Judged   == {"done", "engine"}               \* a verdict; "engine": envelope_status = engine_error
Aborted  == {"error", "mismatch", "orphan"}  \* FAILED rows without a verdict
Terminal == Judged \cup Aborted
Live     == {"queued", "running"}

InFlight == {"spooling", "creating", "asking"}
Sweeping == {"warming", "claiming"}          \* the retention thread exists

Working(t) == pc[t] # "idle"
WorkedOn(j) == \E t \in Threads : Working(t) /\ cur[t] = j

-----------------------------------------------------------------------------
(* The environment *)

Fault == faults < MaxFaults /\ faults' = faults + 1

\* A store call returns, or raises without or with its effect.
Outcome == {"ok", "lost", "landed"}
StoreCall(o) == IF o = "ok" THEN UNCHANGED faults ELSE Fault

\* update_if_status(job_id, RUNNING, status=v [, expect_claim_id]): the row becomes v if
\* the fence holds and the call was not lost.
CasWrite(j, v, fence, o) ==
  IF fence /\ o # "lost"
    THEN row' = [row EXCEPT ![j] = v] /\ recent' = recent \cup {j}
    ELSE UNCHANGED <<row, recent>>

\* The spool reads differently from what the ingress hashed.
SpoolChanges(j) ==
  /\ spool[j] = "ok"
  /\ Fault
  /\ spool' = [spool EXCEPT ![j] = "changed"]
  /\ UNCHANGED <<req, storeVars, dir, out, scratch, runVars, sweepVars, procVars, seen>>

\* The retention cutoff passes a directory's mtime.  The window is at least a day
\* (_retention_days) and an upload is already received when its directory is made, so
\* it does not pass the directory of a request in flight.
AgeDir(j) ==
  /\ dir[j] = "young" /\ req[j] \notin InFlight
  /\ dir' = [dir EXCEPT ![j] = "old"]
  /\ UNCHANGED <<req, storeVars, spool, out, scratch, runVars, sweepVars, procVars, seen, faults>>

\* The cutoff passes a row's finished_at, not within the seconds in which the thread
\* that wrote it still publishes.
AgeFinish(j) ==
  /\ j \in recent /\ ~WorkedOn(j)
  /\ recent' = recent \ {j}
  /\ UNCHANGED <<req, row, claim, fsVars, runVars, sweepVars, procVars, seen, faults>>

-----------------------------------------------------------------------------
(* The ingress: POST /scan *)

\* Job.new, mkdir <job>/input, open the spool file.
Spool(j) ==
  /\ req[j] = "none"
  /\ req' = [req EXCEPT ![j] = "spooling"]
  /\ dir' = [dir EXCEPT ![j] = "young"]
  /\ spool' = [spool EXCEPT ![j] = "partial"]
  /\ UNCHANGED <<storeVars, out, scratch, runVars, sweepVars, procVars, seen, faults>>

\* Unlink the spool, remove <job>/input and <job> (an OSError is passed over: what stays
\* is what a killed ingress leaves).  rmdir refuses a <job> that holds a published output.
RemoveSpool(j) ==
  /\ spool' = [spool EXCEPT ![j] = "absent"]
  /\ dir' = [dir EXCEPT ![j] = IF out[j] = "none" THEN "none" ELSE @]
  /\ UNCHANGED <<out, scratch>>

\* The stream ended, or failed (over the cap, client gone, disk full) and is cleaned up.
SpoolEnds(j) ==
  /\ req[j] = "spooling"
  /\ \/ /\ req' = [req EXCEPT ![j] = "creating"]
        /\ spool' = [spool EXCEPT ![j] = "ok"]
        /\ UNCHANGED <<dir, out, scratch>>
     \/ /\ req' = [req EXCEPT ![j] = "refused"]
        /\ RemoveSpool(j)
  /\ UNCHANGED <<storeVars, runVars, sweepVars, procVars, seen, faults>>

\* _store.create(job): 202, or an exception that may hide a committed row.
Create(j) ==
  /\ req[j] = "creating"
  /\ \E o \in Outcome :
       /\ StoreCall(o)
       /\ req' = [req EXCEPT ![j] = IF o = "ok" THEN "accepted" ELSE "asking"]
       /\ row' = [row EXCEPT ![j] = IF o = "lost" THEN @ ELSE "queued"]
  /\ UNCHANGED <<claim, recent, fsVars, runVars, sweepVars, procVars, seen>>

\* Mutant: a create that raised is taken for one that did nothing.
AskNot(j) ==
  /\ req[j] = "asking"
  /\ req' = [req EXCEPT ![j] = IF row[j] # "none" THEN "committed" ELSE "refused"]
  /\ RemoveSpool(j)
  /\ UNCHANGED <<storeVars, runVars, sweepVars, procVars, seen, faults>>

\* After a failed create: committed = get(job_id) is not None, FALSE if get raises too.
Ask(j) ==
  /\ req[j] = "asking"
  /\ \/ /\ row[j] # "none"
        /\ req' = [req EXCEPT ![j] = "committed"]
        /\ UNCHANGED <<fsVars, faults>>
     \/ /\ row[j] = "none"
        /\ req' = [req EXCEPT ![j] = "refused"]
        /\ RemoveSpool(j)
        /\ UNCHANGED faults
     \/ /\ Fault
        /\ req' = [req EXCEPT ![j] = "refused"]
        /\ RemoveSpool(j)
  /\ UNCHANGED <<storeVars, runVars, sweepVars, procVars, seen>>

\* The ingress container dies: every request in flight is cut where it is.
IngressKilled ==
  /\ \E j \in Jobs : req[j] \in InFlight
  /\ Fault
  /\ req' = [j \in Jobs |-> IF req[j] \in InFlight THEN "refused" ELSE req[j]]
  /\ UNCHANGED <<storeVars, fsVars, runVars, sweepVars, procVars, seen>>

RequestStep(j) == SpoolEnds(j) \/ Create(j) \/ Ask(j)

-----------------------------------------------------------------------------
(* The pool-manager process: PoolManager.run *)

Start(m) ==
  /\ mgr[m] = "down"
  /\ Exclusive => \A n \in Managers : mgr[n] = "down"
  /\ mgr' = [mgr EXCEPT ![m] = "checking"]
  /\ stop' = stop \ {m}
  /\ UNCHANGED <<req, storeVars, fsVars, todo, drop, sweepVars, procVars, seen, faults>>

\* A root or egress check refuses: exit before the orphan recovery touched anything.
Refuse(m) ==
  /\ mgr[m] = "checking"
  /\ Fault
  /\ mgr' = [mgr EXCEPT ![m] = "down"]
  /\ UNCHANGED <<req, storeVars, fsVars, stop, todo, drop, sweepVars, procVars, seen>>

\* Mutant: the recovery lists the wrong status.
ListOrphansQueued(m) ==
  /\ mgr[m] = "checking"
  /\ mgr' = [mgr EXCEPT ![m] = "recovering"]
  /\ todo' = [todo EXCEPT ![m] = {j \in Jobs : row[j] = "queued"}]
  /\ UNCHANGED <<req, storeVars, fsVars, stop, drop, sweepVars, procVars, seen, faults>>

\* _recover_orphans: list(status=RUNNING); a list that raises recovers nothing.
ListOrphans(m) ==
  /\ mgr[m] = "checking"
  /\ \/ /\ mgr' = [mgr EXCEPT ![m] = "recovering"]
        /\ todo' = [todo EXCEPT ![m] = {j \in Jobs : row[j] = "running"}]
        /\ UNCHANGED faults
     \/ /\ Fault
        /\ mgr' = [mgr EXCEPT ![m] = "warming"]
        /\ UNCHANGED todo
  /\ UNCHANGED <<req, storeVars, fsVars, stop, drop, sweepVars, procVars, seen>>

\* One listed row: FAILED if it still is RUNNING, whoever claimed it.
RecoverRow(m, j) ==
  /\ mgr[m] = "recovering" /\ drop[m] = NoJob /\ j \in todo[m]
  /\ todo' = [todo EXCEPT ![m] = @ \ {j}]
  /\ \E o \in Outcome :
       /\ StoreCall(o)
       /\ CasWrite(j, "orphan", row[j] = "running", o)
       /\ drop' = [drop EXCEPT ![m] = IF o = "ok" /\ row[j] = "running" THEN j ELSE @]
  /\ UNCHANGED <<req, claim, fsVars, mgr, stop, sweepVars, procVars, seen>>

\* The recovered row's spool is unlinked (an OSError leaves it to the retention).
RecoverUnlink(m) ==
  /\ mgr[m] = "recovering" /\ drop[m] # NoJob
  /\ drop' = [drop EXCEPT ![m] = NoJob]
  /\ \/ /\ spool' = [spool EXCEPT ![drop[m]] = "absent"]
        /\ UNCHANGED faults
     \/ /\ Fault
        /\ UNCHANGED spool
  /\ UNCHANGED <<req, storeVars, dir, out, scratch, mgr, stop, todo, sweepVars, procVars, seen>>

\* Recovery over: the retention thread starts and the pool warms.
RecoverEnd(m) ==
  /\ mgr[m] = "recovering" /\ drop[m] = NoJob /\ todo[m] = {}
  /\ mgr' = [mgr EXCEPT ![m] = "warming"]
  /\ UNCHANGED <<req, storeVars, fsVars, stop, todo, drop, sweepVars, procVars, seen, faults>>

\* What an exiting or killed process leaves: no threads, nothing it remembered.
Gone(m) ==
  /\ mgr' = [mgr EXCEPT ![m] = "down"]
  /\ todo' = [todo EXCEPT ![m] = {}]
  /\ drop' = [drop EXCEPT ![m] = NoJob]
  /\ swpc' = [swpc EXCEPT ![m] = "idle"]
  /\ swjob' = [swjob EXCEPT ![m] = NoJob]

\* warmup() returns, ...
Warm(m) ==
  /\ mgr[m] = "warming"
  /\ mgr' = [mgr EXCEPT ![m] = "claiming"]
  /\ UNCHANGED <<req, storeVars, fsVars, stop, todo, drop, sweepVars, procVars, seen, faults>>

\* ... or raises: ended by the stop event (exit 0), or failed (exit 1).
WarmEnds(m) ==
  /\ mgr[m] = "warming"
  /\ IF m \in stop THEN UNCHANGED faults ELSE Fault
  /\ Gone(m)
  /\ UNCHANGED <<req, storeVars, fsVars, stop, procVars, seen>>

\* A stop or restart of the unit; one that hits a starting manager counts as a fault.
Sigterm(m) ==
  /\ mgr[m] # "down" /\ m \notin stop
  /\ IF mgr[m] = "claiming" THEN UNCHANGED faults ELSE Fault
  /\ stop' = stop \cup {m}
  /\ UNCHANGED <<req, storeVars, fsVars, mgr, todo, drop, sweepVars, procVars, seen>>

\* Mutant: run() returns without joining the claim threads.
ExitUnjoined(m) ==
  /\ mgr[m] = "claiming" /\ m \in stop
  /\ Gone(m)
  /\ UNCHANGED <<req, storeVars, fsVars, stop, procVars, seen, faults>>

\* The executor has joined every claim thread: run() returns.
Exit(m) ==
  /\ mgr[m] = "claiming" /\ m \in stop
  /\ \A t \in Threads : Owner[t] = m => ~Working(t)
  /\ Gone(m)
  /\ UNCHANGED <<req, storeVars, fsVars, stop, procVars, seen, faults>>

\* SIGKILL (TimeoutStopSec, the OOM killer), a host reset: every thread ends where it is.
Killed(m) ==
  /\ mgr[m] # "down"
  /\ Fault
  /\ Gone(m)
  /\ pc' = [t \in Threads |-> IF Owner[t] = m THEN "idle" ELSE pc[t]]
  /\ cur' = [t \in Threads |-> IF Owner[t] = m THEN NoJob ELSE cur[t]]
  /\ UNCHANGED <<req, storeVars, fsVars, stop, res, opened, recorded, seen>>

ManagerStep(m) ==
  \/ ListOrphans(m)
  \/ \E j \in Jobs : RecoverRow(m, j)
  \/ RecoverUnlink(m)
  \/ RecoverEnd(m)
  \/ Warm(m)
  \/ WarmEnds(m)
  \/ Exit(m)

-----------------------------------------------------------------------------
(* A claim thread: _worker_loop and _process *)

\* claim_next: a queued row becomes RUNNING under this thread's claim.  A raise after the
\* effect leaves it RUNNING with nobody at work; a raise without effect changes nothing.
Claim(t) ==
  /\ mgr[Owner[t]] = "claiming" /\ Owner[t] \notin stop /\ pc[t] = "idle"
  /\ \E j \in Jobs, o \in Outcome \ {"lost"} :
       /\ row[j] = "queued"
       /\ StoreCall(o)
       /\ row' = [row EXCEPT ![j] = "running"]
       /\ claim' = [claim EXCEPT ![j] = t]
       /\ IF o = "ok"
            THEN /\ pc' = [pc EXCEPT ![t] = "read"]
                 /\ cur' = [cur EXCEPT ![t] = j]
            ELSE UNCHANGED <<pc, cur>>
  /\ opened' = opened \ {t}
  /\ recorded' = recorded \ {t}
  /\ UNCHANGED <<req, recent, fsVars, runVars, sweepVars, res, seen>>

\* Open <job>/input/<name> through pinned descriptors, check it, copy it into a scratch
\* tree and hash the copy.  The descriptor pins the bytes, so opening and copying are one
\* step.  Either the copy is what the ingress hashed, or it is not (keep_input), or the
\* spool is missing, or an open, a check or the copy fails.
ReadInput(t) ==
  LET j == cur[t]
      ToFail(why, fd) == /\ pc' = [pc EXCEPT ![t] = "fail"]
                         /\ res' = [res EXCEPT ![t] = why]
                         /\ opened' = fd
  IN  /\ pc[t] = "read"
      /\ \/ /\ spool[j] = "ok"
            /\ pc' = [pc EXCEPT ![t] = "validate"]
            /\ opened' = opened \cup {t}
            /\ scratch' = scratch \cup {j}
            /\ UNCHANGED <<res, seen, faults>>
         \/ /\ spool[j] = "changed"
            /\ ToFail("mismatch", opened \cup {t})
            /\ scratch' = scratch \cup {j}
            /\ seen' = seen \cup {j}
            /\ UNCHANGED faults
         \/ /\ spool[j] = "absent"
            /\ ToFail("error", opened)
            /\ UNCHANGED <<scratch, seen, faults>>
         \/ /\ spool[j] # "absent"
            /\ Fault
            /\ \/ ToFail("error", opened) /\ UNCHANGED scratch
               \/ ToFail("error", opened \cup {t}) /\ scratch' \in {scratch, scratch \cup {j}}
            /\ UNCHANGED seen
      /\ UNCHANGED <<req, storeVars, dir, spool, out, runVars, sweepVars, cur, recorded>>

\* validate_to_dir: an envelope (engine_error makes the row FAILED), or an exception.
Validate(t) ==
  /\ pc[t] = "validate"
  /\ \/ /\ pc' = [pc EXCEPT ![t] = "record"]
        /\ \E v \in Judged : res' = [res EXCEPT ![t] = v]
     \/ /\ pc' = [pc EXCEPT ![t] = "fail"]
        /\ res' = [res EXCEPT ![t] = "error"]
  /\ UNCHANGED <<req, storeVars, fsVars, runVars, sweepVars, cur, opened, recorded, seen, faults>>

\* Mutant: a plain update, not a compare-and-set.
FencedNot(t) == TRUE

\* The fence of a claim thread's writes.
Fenced(t) == row[cur[t]] = "running" /\ claim[cur[t]] = t

\* The verdict's compare-and-set: recorded, lost to another writer, or an exception.
Record(t) ==
  /\ pc[t] = "record"
  /\ \E o \in Outcome :
       /\ StoreCall(o)
       /\ CasWrite(cur[t], res[t], Fenced(t), o)
       /\ recorded' = IF o = "ok" /\ Fenced(t) THEN recorded \cup {t} ELSE recorded \ {t}
       /\ pc' = [pc EXCEPT ![t] = IF o # "ok" THEN "fail"
                                   ELSE IF Fenced(t) THEN "publish" ELSE "close"]
       /\ res' = [res EXCEPT ![t] = IF o = "ok" THEN @ ELSE "error"]
  /\ UNCHANGED <<req, claim, fsVars, runVars, sweepVars, cur, opened, seen>>

\* _publish: mkdir <job>/output and copy the sealed files; an OSError is only a warning.
Publish(t) ==
  LET j == cur[t] IN
  /\ pc[t] = "publish"
  /\ pc' = [pc EXCEPT ![t] = "close"]
  /\ \/ /\ dir[j] # "none"
        /\ out' = [out EXCEPT ![j] = "full"]
        /\ dir' = [dir EXCEPT ![j] = "young"]
        /\ UNCHANGED faults
     \/ /\ dir[j] # "none"
        /\ Fault
        /\ out' = [out EXCEPT ![j] = "partial"]
        /\ dir' = [dir EXCEPT ![j] = "young"]
     \/ /\ IF dir[j] = "none" THEN UNCHANGED faults ELSE Fault
        /\ UNCHANGED <<dir, out>>
  /\ UNCHANGED <<req, storeVars, spool, scratch, runVars, sweepVars, cur, res, opened, recorded, seen>>

\* The failure's compare-and-set; if it raises, the row stays as it is.
RecordFailure(t) ==
  /\ pc[t] = "fail"
  /\ \E o \in Outcome :
       /\ StoreCall(o)
       /\ CasWrite(cur[t], res[t], Fenced(t), o)
       /\ recorded' = IF o = "ok" /\ Fenced(t) THEN recorded \cup {t} ELSE recorded \ {t}
  /\ pc' = [pc EXCEPT ![t] = "close"]
  /\ UNCHANGED <<req, claim, fsVars, runVars, sweepVars, cur, res, opened, seen>>

\* Mutants: the spool is consumed although the write was lost, or although it is evidence.
ConsumedUnrecorded(t) == t \in opened /\ res[t] # "mismatch"
ConsumedEvidence(t) == t \in opened /\ t \in recorded

\* in_fd is not None and recorded and not keep_input
Consumed(t) == t \in opened /\ t \in recorded /\ res[t] # "mismatch"

\* The finally block: the consumed spool is unlinked, the scratch tree removed (a failing
\* removal leaves either to the retention), the loop goes on.
Close(t) ==
  LET j == cur[t] IN
  /\ pc[t] = "close"
  /\ \/ /\ spool' = [spool EXCEPT ![j] = IF Consumed(t) THEN "absent" ELSE @]
        /\ scratch' = scratch \ {j}
        /\ UNCHANGED faults
     \/ /\ Fault
        /\ spool' \in {spool, [spool EXCEPT ![j] = IF Consumed(t) THEN "absent" ELSE @]}
        /\ scratch' \in {scratch, scratch \ {j}}
  /\ pc' = [pc EXCEPT ![t] = "idle"]
  /\ cur' = [cur EXCEPT ![t] = NoJob]
  /\ UNCHANGED <<req, storeVars, dir, out, runVars, sweepVars, res, opened, recorded, seen>>

ProcessStep(t) ==
  ReadInput(t) \/ Validate(t) \/ Record(t) \/ Publish(t) \/ RecordFailure(t) \/ Close(t)

-----------------------------------------------------------------------------
(* The retention thread: _sweep_one *)

\* st_mtime is not after the cutoff.
SweepStat(m, j) ==
  /\ mgr[m] \in Sweeping /\ swpc[m] = "idle"
  /\ dir[j] = "old"
  /\ swpc' = [swpc EXCEPT ![m] = "get"]
  /\ swjob' = [swjob EXCEPT ![m] = j]
  /\ UNCHANGED <<req, storeVars, fsVars, runVars, procVars, seen, faults>>

\* Mutants: finished_at is not looked at; a directory without a row is kept.
ExpiredAnyTerminal(j) == row[j] \notin Live
ExpiredWithRow(j) == row[j] \in Terminal /\ j \notin recent

\* The row does not protect the directory: there is none, or it finished before the cutoff.
Expired(j) == row[j] \notin Live /\ j \notin recent

SweepGet(m) ==
  /\ mgr[m] \in Sweeping /\ swpc[m] = "get"
  /\ \/ /\ Expired(swjob[m])
        /\ swpc' = [swpc EXCEPT ![m] = "remove"]
        /\ UNCHANGED <<swjob, faults>>
     \/ /\ IF Expired(swjob[m]) THEN Fault ELSE UNCHANGED faults
        /\ swpc' = [swpc EXCEPT ![m] = "idle"]
        /\ swjob' = [swjob EXCEPT ![m] = NoJob]
  /\ UNCHANGED <<req, storeVars, fsVars, runVars, procVars, seen>>

\* _rm_job_dir: the tree is emptied by descriptors, then removed; a failure stops it half way.
SweepRemove(m) ==
  LET j == swjob[m] IN
  /\ mgr[m] \in Sweeping /\ swpc[m] = "remove"
  /\ swpc' = [swpc EXCEPT ![m] = "idle"]
  /\ swjob' = [swjob EXCEPT ![m] = NoJob]
  /\ spool' = [spool EXCEPT ![j] = "absent"]
  /\ out' = [out EXCEPT ![j] = "none"]
  /\ \/ /\ dir' = [dir EXCEPT ![j] = "none"]
        /\ UNCHANGED faults
     \/ /\ Fault
        /\ dir' = [dir EXCEPT ![j] = IF @ = "none" THEN @ ELSE "young"]
  /\ UNCHANGED <<req, storeVars, scratch, runVars, procVars, seen>>

\* WORK_ROOT: a scratch tree is protected by its age alone, and a validation lasts less
\* than the day the window is at least.
SweepScratch(m, j) ==
  /\ mgr[m] \in Sweeping
  /\ j \in scratch /\ ~WorkedOn(j)
  /\ scratch' = scratch \ {j}
  /\ UNCHANGED <<req, storeVars, dir, spool, out, runVars, sweepVars, procVars, seen, faults>>

-----------------------------------------------------------------------------
(* The specification *)

Init ==
  /\ req = [j \in Jobs |-> "none"]
  /\ row = [j \in Jobs |-> "none"]
  /\ claim = [j \in Jobs |-> NoThread]
  /\ recent = {}
  /\ dir = [j \in Jobs |-> "none"]
  /\ spool = [j \in Jobs |-> "absent"]
  /\ out = [j \in Jobs |-> "none"]
  /\ scratch = {}
  /\ mgr = [m \in Managers |-> "down"]
  /\ stop = {}
  /\ todo = [m \in Managers |-> {}]
  /\ drop = [m \in Managers |-> NoJob]
  /\ swpc = [m \in Managers |-> "idle"]
  /\ swjob = [m \in Managers |-> NoJob]
  /\ pc = [t \in Threads |-> "idle"]
  /\ cur = [t \in Threads |-> NoJob]
  /\ res = [t \in Threads |-> "error"]
  /\ opened = {}
  /\ recorded = {}
  /\ seen = {}
  /\ faults = 0

Next ==
  \/ \E j \in Jobs : \/ SpoolChanges(j) \/ AgeDir(j) \/ AgeFinish(j)
                     \/ Spool(j) \/ RequestStep(j)
  \/ IngressKilled
  \/ \E m \in Managers : \/ Start(m) \/ Refuse(m) \/ ManagerStep(m) \/ Sigterm(m) \/ Killed(m)
                         \/ SweepGet(m) \/ SweepRemove(m)
  \/ \E m \in Managers, j \in Jobs : SweepStat(m, j) \/ SweepScratch(m, j)
  \/ \E t \in Threads : Claim(t) \/ ProcessStep(t)

Spec == Init /\ [][Next]_vars

\* Threads, requests and starts run on, and a restart always comes: the daily rotation's
\* restart_pool.  Claiming and sweeping are strong: they are polled every few seconds or
\* minutes and restarts are a day apart, so a stop does not precede them in every life.
Fairness ==
  /\ \A j \in Jobs : /\ WF_vars(RequestStep(j))
                     /\ WF_vars(AgeDir(j)) /\ WF_vars(AgeFinish(j))
  /\ \A m \in Managers : /\ WF_vars(Start(m)) /\ WF_vars(ManagerStep(m)) /\ WF_vars(Sigterm(m))
                         /\ SF_vars(SweepGet(m)) /\ SF_vars(SweepRemove(m))
  /\ \A m \in Managers, j \in Jobs : SF_vars(SweepStat(m, j)) /\ SF_vars(SweepScratch(m, j))
  /\ \A t \in Threads : SF_vars(Claim(t)) /\ WF_vars(ProcessStep(t))

FairSpec == Spec /\ Fairness

-----------------------------------------------------------------------------
(* Properties *)

InHandOK == \A t \in Threads : Working(t) => cur[t] \in Jobs
FaultsOK == faults \in 0..MaxFaults

TypeOK ==
  /\ req \in [Jobs -> {"none", "accepted", "committed", "refused"} \cup InFlight]
  /\ row \in [Jobs -> {"none"} \cup Live \cup Terminal]
  /\ claim \in [Jobs -> Threads \cup {NoThread}]
  /\ recent \subseteq Jobs
  /\ dir \in [Jobs -> {"none", "young", "old"}]
  /\ spool \in [Jobs -> {"absent", "partial", "ok", "changed"}]
  /\ out \in [Jobs -> {"none", "partial", "full"}]
  /\ scratch \subseteq Jobs
  /\ mgr \in [Managers -> {"down", "checking", "recovering"} \cup Sweeping]
  /\ stop \subseteq Managers
  /\ todo \in [Managers -> SUBSET Jobs]
  /\ drop \in [Managers -> Jobs \cup {NoJob}]
  /\ swpc \in [Managers -> {"idle", "get", "remove"}]
  /\ swjob \in [Managers -> Jobs \cup {NoJob}]
  /\ pc \in [Threads -> {"idle", "read", "validate", "record", "publish", "fail", "close"}]
  /\ cur \in [Threads -> Jobs \cup {NoJob}]
  /\ InHandOK
  /\ res \in [Threads -> Terminal]
  /\ opened \subseteq Threads
  /\ recorded \subseteq Threads
  /\ seen \subseteq Jobs
  /\ FaultsOK

\* Jobs the ingress answered with a 202, or whose create raised and it may, or did, find committed.
Standing(j) == req[j] \in {"accepted", "asking", "committed"}

\* A submitter who got a 202 still has its input on disk until the row is terminal, through
\* lost writes, kills, restarts, a second manager and the retention sweep; and so has a job whose
\* create raised after its commit, unless the ingress cannot learn of it.
AcceptedKeepsInput ==
  \A j \in Jobs : Standing(j) /\ row[j] \in Live =>
                    spool[j] \in {"ok", "changed"} /\ dir[j] # "none"

\* The row that tells its submitter "the spool is kept for inspection" speaks the truth as
\* long as the retention window has not passed.
EvidenceKept ==
  \A j \in Jobs : Standing(j) /\ row[j] = "mismatch" /\ j \in recent => spool[j] = "changed"

\* With one manager at a time, the row of a job in hand is RUNNING under that thread's
\* claim until the thread writes it: orphan recovery fails no job that is being validated.
NoLiveJobOrphaned ==
  Exclusive => \A t \in Threads : pc[t] \in {"read", "validate", "record"} => Fenced(t)

\* A step takes a job's directory or its output away only if the job's row is absent or
\* finished before the cutoff, or as the clean-up of a request in flight.
SparesLive(j) ==
  \/ dir[j] # "none" /\ dir'[j] = "none"
  \/ out[j] # "none" /\ out'[j] = "none"
  => \/ row[j] \notin Live /\ j \notin recent
     \/ req[j] \in InFlight /\ out[j] = "none"

\* The retention takes away only directories and outputs whose row is absent or finished
\* before the cutoff, although it acts on a row it read earlier.
RetentionSparesLive == [][\A j \in Jobs : SparesLive(j)]_vars

\* The inductive invariant: TypeOK, AcceptedKeepsInput, EvidenceKept, NoLiveJobOrphaned
\* and what they rest on.

Settled == {"accepted", "committed", "refused"}

\* A request makes its row once, after its spool is complete; only settled ones age.
RequestInv ==
  \A j \in Jobs :
    /\ req[j] \in {"none", "spooling", "creating"} => row[j] = "none"
    /\ req[j] \in {"spooling", "creating"} => dir[j] # "none"
    /\ req[j] = "creating" => spool[j] \in {"ok", "changed"}
    /\ req[j] = "accepted" => row[j] # "none"
    /\ req[j] = "none" => dir[j] = "none"
    /\ dir[j] = "old" => req[j] \in Settled

\* A thread at work holds the row's claim; what it recorded is what the row says.
ThreadInv ==
  \A t \in Threads :
    /\ Working(t) => /\ claim[cur[t]] = t
                     /\ row[cur[t]] \in {"running"} \cup Terminal
                     /\ mgr[Owner[t]] = "claiming"
    /\ pc[t] \in {"record", "publish"} => res[t] \in Judged
    /\ pc[t] = "publish" => t \in recorded
    /\ pc[t] \in {"publish", "close"} /\ t \in recorded => row[cur[t]] = res[t]

\* The evidence of a mismatch still to be recorded is there.
MismatchInv ==
  \A t \in Threads :
    pc[t] = "fail" /\ res[t] = "mismatch" /\ Standing(cur[t]) /\ row[cur[t]] = "running"
      => spool[cur[t]] = "changed"

\* Orphan recovery unlinks only the spool of a row it made terminal.
RecoverInv == \A m \in Managers : drop[m] # NoJob => row[drop[m]] = "orphan"

\* The retention's stale read stays true.
SweepInv ==
  \A m \in Managers :
    /\ swpc[m] # "idle" => swjob[m] \in Jobs /\ req[swjob[m]] \in Settled
    /\ swpc[m] = "remove" => row[swjob[m]] \notin Live /\ swjob[m] \notin recent

\* Only a judged job has an output.
OutputInv == \A j \in Jobs : out[j] # "none" => row[j] \in Judged

\* The unit's one instance.
ExclusiveInv ==
  Exclusive => \A m, n \in Managers : mgr[m] # "down" /\ mgr[n] # "down" => m = n

IInv ==
  /\ TypeOK /\ RequestInv /\ ThreadInv /\ MismatchInv /\ RecoverInv /\ SweepInv /\ OutputInv
  /\ ExclusiveInv /\ AcceptedKeepsInput /\ EvidenceKept /\ NoLiveJobOrphaned

\* What the store and the job directories show of the abstract lifecycle.
StatusShown == [j \in Jobs |-> IF row[j] \in Judged THEN "judged"
                              ELSE IF row[j] \in Aborted THEN "aborted" ELSE row[j]]
OutputShown == {j \in Jobs : out[j] # "none"}

Lifecycle == INSTANCE JobLifecycle WITH status <- StatusShown, visible <- OutputShown

\* The pipeline implements the one-verdict job lifecycle: whatever is lost, killed or run
\* twice, a job's status moves once from queued to running to one conclusion, and only a
\* judged job's output shows.
ImplementsLifecycle == Lifecycle!AbsSpec

\* Every job a row was created for gets a terminal status, even when the write that would
\* have concluded it, or the claim's answer, was lost: the next start recovers it.
EventuallyDecided == \A j \in Jobs : row[j] \in Live ~> row[j] \in Terminal

\* Nothing is left behind for good: neither a scratch tree nor a job directory, of an
\* abandoned upload included, survives the retention.
EventuallyReclaimed ==
  \A j \in Jobs : /\ j \in scratch ~> j \notin scratch
                  /\ dir[j] # "none" ~> dir[j] = "none"

\* "The evidence stays where it is": a spool whose sha256 mismatch was logged is not
\* unlinked within the retention window.
LoggedEvidenceStays ==
  \A j \in Jobs : Standing(j) /\ j \in seen /\ j \in recent => spool[j] = "changed"

=============================================================================
