---------------------------- MODULE PoolRestart ----------------------------
(***************************************************************************)
(* The restart that puts a promoted golden into service: restart_pool      *)
(* against the pool-manager's unit, the manager's start and stop, and the  *)
(* readiness marker between them.  Workers keep the golden they booted     *)
(* from, so only a life of the manager that began after the promotion      *)
(* serves the new one.                                                     *)
(*                                                                         *)
(* Lives fail, crash and are restarted by systemd until its start limit;   *)
(* the operator may stop the unit at any moment.  Before the promotion the *)
(* rotation preflight has judged the posture the manager will judge at its *)
(* start, on a host the unit's pre-start has not been at yet.              *)
(***************************************************************************)
EXTENDS Naturals

CONSTANT MaxFaults   \* bound on lives that fail and on failed writes of the marker

ASSUME RestartAssumption == MaxFaults \in Nat

VARIABLES
  host,        \* the egress knobs, the number of workers, br_netfilter and its sysctl
  unit,        \* the pool-manager's unit
  golden,      \* what the unit's present life booted from
  marker,      \* READY_FILE: when it was written, as restart_pool compares it
  asked,       \* a restart job of restart_pool is under way
  wanted,      \* FALSE once the operator has stopped the unit
  pc, state,   \* the step of the promoting run, what is-failed answered
  result,
  warmed,      \* history: a life that booted from the new golden reported its pool warm
  refused,     \* history: the manager refused its posture
  faults

vars == <<host, unit, golden, marker, asked, wanted, pc, state, result, warmed, refused, faults>>

Up       == {"checking", "warming", "ready"}
Active   == Up \cup {"pre", "resting"}      \* is-active: active or activating
Settled  == {"inactive", "failed"}

-----------------------------------------------------------------------------
(* The posture *)

\* exit: AUTHENTICODE_EXIT and what its policy says of worker-to-worker traffic.
Hosts == [exit : {"unset", "none", "open", "closed"}, workers : 1..2,
          sysctl : {"absent", "off", "on"}, loadable : BOOLEAN]

\* Mutant: the module is taken for loadable.
JudgeLoading(h, sysctl) ==
  \/ h.exit = "none"
  \/ h.exit # "unset" /\ h.workers < 2
  \/ h.exit = "closed" /\ (sysctl = "live" => h.sysctl = "on")

\* _refuse_open_egress: an unset exit; siblings within reach; frames no rule sees.  The
\* preflight asks what the restart will find, the manager what is there.
Judge(h, sysctl) ==
  \/ h.exit = "none"
  \/ h.exit # "unset" /\ h.workers < 2
  \/ /\ h.exit = "closed"
     /\ IF sysctl = "live" THEN h.sysctl = "on" ELSE h.sysctl # "absent" \/ h.loadable

\* modprobe br_netfilter; sysctl -w: neither failure fails the start.
Prepared(h) == IF h.sysctl = "absent" /\ ~h.loadable THEN h ELSE [h EXCEPT !.sysctl = "on"]

-----------------------------------------------------------------------------
(* The unit and the manager's lives *)

Runner == <<pc, state, result>>
Ghosts == <<warmed, refused>>

Pays == faults < MaxFaults /\ faults' = faults + 1

\* A start: a life of its own, from the golden there is now.
Starts == unit' = "pre" /\ golden' = IF pc \in {"start", "publish"} THEN "old" ELSE "new"

\* Mutant: the marker of a previous life is left.
PreStartLeaving ==
  /\ unit = "pre"
  /\ host' = Prepared(host)
  /\ unit' = "checking" /\ asked' = FALSE
  /\ UNCHANGED <<golden, marker, wanted, Runner, Ghosts, faults>>

\* ExecStartPre: the marker of a previous life goes, the bridge is prepared.
PreStart ==
  /\ unit = "pre"
  /\ marker' = "none"
  /\ host' = Prepared(host)
  /\ unit' = "checking" /\ asked' = FALSE
  /\ UNCHANGED <<golden, wanted, Runner, Ghosts, faults>>

\* The manager judges its posture, then removes a previous life's marker.
Check ==
  /\ unit = "checking"
  /\ IF Judge(host, "live")
     THEN unit' = "warming" /\ marker' = "none" /\ UNCHANGED refused
     ELSE unit' \in {"resting", "failed"} /\ refused' = TRUE /\ UNCHANGED marker
  /\ UNCHANGED <<host, golden, asked, wanted, Runner, warmed, faults>>

\* The pool is warm; a marker that cannot be written is a warning.
Warm ==
  /\ unit = "warming"
  /\ unit' = "ready"
  /\ \/ marker' = "now" /\ UNCHANGED faults
     \/ Pays /\ UNCHANGED marker
  /\ warmed' = (warmed \/ golden = "new")
  /\ UNCHANGED <<host, golden, asked, wanted, Runner, refused>>

\* The restart job, which outlives the wait for it, has failed.
JobFailed ==
  /\ asked' = FALSE
  /\ IF pc = "issued" THEN pc' = "done" /\ result' = "raised" /\ UNCHANGED state ELSE UNCHANGED Runner

\* A life ends: an error with the marker removed, a crash or an OOM kill without.  A failed
\* pre-start fails the job.
Dies ==
  /\ unit \in Up \cup {"pre"} /\ Pays
  /\ unit' = "resting"
  /\ marker' \in {marker, "none"}
  /\ IF asked THEN JobFailed ELSE UNCHANGED <<asked, Runner>>
  /\ UNCHANGED <<host, golden, wanted, Ghosts>>

\* Restart=on-failure: RestartSec later another life, or the start limit.
AutoRestart ==
  /\ unit = "resting"
  /\ \/ Starts
     \/ unit' = "failed" /\ UNCHANGED golden
  /\ UNCHANGED <<host, marker, asked, wanted, Runner, Ghosts, faults>>

\* systemctl stop; it cancels the restart job of a unit that is still stopping.  (What systemd
\* makes of a stop during the pre-start is not this code's.)
OperatorStops ==
  /\ wanted /\ unit \in Up \cup {"resting", "stopping", "stopWarming"}
  /\ wanted' = FALSE
  /\ unit' = IF unit = "resting" THEN "inactive"
             ELSE IF unit \in {"warming", "stopWarming"} THEN "stopWarming" ELSE "stopping"
  /\ IF asked THEN JobFailed ELSE UNCHANGED <<asked, Runner>>
  /\ UNCHANGED <<host, golden, marker, Ghosts, faults>>

\* Mutant: a warm-up ended by the stop is a failed warm-up.
StopExitFails == IF unit = "stopWarming" THEN "failed" ELSE "inactive"

\* run() ends with 0 on a stop, during the warm-up too.
StopExit == "inactive"

\* The manager removes its marker and exits; a restart job then starts the next life.
Stopped ==
  /\ unit \in {"stopWarming", "stopping"}
  /\ marker' = "none"
  /\ IF asked THEN Starts ELSE unit' = StopExit /\ UNCHANGED golden
  /\ UNCHANGED <<host, asked, wanted, Runner, Ghosts, faults>>

-----------------------------------------------------------------------------
(* The promoting run *)

Unit == <<host, unit, golden, marker, asked, wanted>>

\* rotation_preflight's verdict on the posture; a refusal promotes nothing.
Preflight ==
  /\ pc = "start"
  /\ IF Judge(host, "loadable") THEN pc' = "publish" /\ UNCHANGED result
                                ELSE pc' = "done" /\ result' = "refused"
  /\ UNCHANGED <<Unit, state, Ghosts, faults>>

\* The promotion, then restart_pool: `started` is now, and a marker less than two seconds
\* older will pass for this start's.
Published ==
  /\ pc = "publish"
  /\ pc' = "restart"
  /\ marker' \in IF marker = "now" THEN {"past", "now"} ELSE {marker}
  /\ state' = IF unit = "failed" THEN "failed" ELSE "other"
  /\ UNCHANGED <<host, unit, golden, asked, wanted, result, Ghosts, faults>>

\* reset-failed and restart, or try-restart, which leaves a unit that is down as it is.
Restart ==
  /\ pc = "restart"
  /\ pc' = "issued"
  /\ \/ state # "failed" /\ unit \notin Active /\ UNCHANGED <<unit, golden, asked>>
     \/ /\ unit = "resting" \/ (state = "failed" /\ unit \in Settled)
        /\ Starts /\ asked' = TRUE
     \/ /\ unit \in Up \cup {"pre"}
        /\ unit' = IF unit = "warming" THEN "stopWarming" ELSE "stopping"
        /\ asked' = TRUE /\ UNCHANGED golden
  /\ UNCHANGED <<host, marker, wanted, state, result, Ghosts, faults>>

Ends(r) == pc' = "done" /\ result' = r

\* The job hits the start limit, or outlasts the wait for it.
JobFails ==
  /\ pc = "issued" /\ asked
  /\ Ends("raised") /\ UNCHANGED state
  /\ \/ unit = "pre" /\ unit' = "failed" /\ asked' = FALSE
     \/ UNCHANGED <<unit, asked>>
  /\ UNCHANGED <<host, golden, marker, wanted, Ghosts, faults>>

\* is-active, once the job is done.
IsActive ==
  /\ pc = "issued" /\ ~asked
  /\ IF unit \in Active THEN pc' = "waiting" /\ UNCHANGED result
                        ELSE Ends(IF state = "failed" THEN "raised" ELSE "false")
  /\ UNCHANGED <<Unit, state, Ghosts, faults>>

\* The marker of this start.
Sees ==
  /\ pc = "waiting" /\ marker = "now"
  /\ Ends("true")
  /\ UNCHANGED <<Unit, state, Ghosts, faults>>

\* The unit has failed or stopped, or the settle time runs out; an auto-restart is a warning.
GivesUp ==
  /\ pc = "waiting"
  /\ Ends("raised")
  /\ UNCHANGED <<Unit, state, Ghosts, faults>>

\* The next week's run: the golden in service is the old one again.
Again ==
  /\ pc = "done" /\ ~asked
  /\ pc' = "start" /\ state' = "other" /\ result' = "none"
  /\ golden' = "old" /\ warmed' = FALSE /\ refused' = FALSE
  /\ UNCHANGED <<host, unit, marker, asked, wanted, faults>>

-----------------------------------------------------------------------------
(* The specification *)

\* The unit is in service or down on a host whose knobs it may not have started with.
Init ==
  /\ host \in Hosts
  /\ unit \in Settled \cup {"ready"} /\ golden = "old"
  /\ marker = IF unit = "ready" THEN "now" ELSE "none"
  /\ asked = FALSE /\ wanted = (unit # "inactive")
  /\ pc = "start" /\ state = "other" /\ result = "none"
  /\ warmed = FALSE /\ refused = FALSE
  /\ faults = 0

Manager == PreStart \/ Check \/ Warm \/ Dies \/ AutoRestart \/ OperatorStops \/ Stopped
Rotator == Preflight \/ Published \/ Restart \/ JobFails \/ IsActive \/ Sees \/ GivesUp \/ Again

Next == Manager \/ Rotator

Spec == Init /\ [][Next]_vars

-----------------------------------------------------------------------------
(* Properties *)

TypeOK ==
  /\ host \in Hosts
  /\ unit \in Active \cup Settled \cup {"stopWarming", "stopping"}
  /\ golden \in {"old", "new"} /\ marker \in {"none", "past", "now"}
  /\ asked \in BOOLEAN /\ wanted \in BOOLEAN
  /\ pc \in {"start", "publish", "restart", "issued", "waiting", "done"}
  /\ state \in {"other", "failed"}
  /\ result \in {"none", "refused", "true", "false", "raised"}
  /\ warmed \in BOOLEAN /\ refused \in BOOLEAN
  /\ faults \in 0..MaxFaults

\* The golden is said to be in service only when a life that booted from it reported its pool
\* warm: no previous life's marker is taken for this start's (the marker's clears and the
\* comparison with `started`).
TrueIsWarm == result = "true" => warmed

\* What the preflight lets through, the start does not refuse: no promotion brings the pool
\* down over its knobs, whatever the module and the sysctl were before the unit's pre-start.
PostureAgrees == result # "refused" /\ pc # "start" => ~refused

\* A manager its operator stopped stays stopped (the exit code of a stopped warm-up,
\* try-restart).
StoppedStays == [][~wanted /\ unit \in Settled => unit' = unit]_vars
=============================================================================
