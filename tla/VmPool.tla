------------------------------- MODULE VmPool -------------------------------
(***************************************************************************)
(* The pool of Windows guests of one process: the module-level singleton   *)
(* that get_pool boots on first use and shutdown_pool destroys, and the    *)
(* adapter that claims a guest for a sample, talks to its agent, files the *)
(* evidence of a failure and gives the guest back.                         *)
(*                                                                         *)
(* The warm pool behind it is the blastbox library's: it boots guests,     *)
(* leases, reverts, evicts and destroys them.                              *)
(***************************************************************************)
EXTENDS Naturals, FiniteSets

CONSTANTS
  Threads,     \* threads that validate
  Workers,     \* guests of one pool
  MaxPools,    \* bound on pools booted
  MaxFaults,   \* bound on environment failures
  Free,        \* nobody holds _POOL_LOCK
  NoVm

ASSUME VmPoolAssumption ==
  /\ MaxPools \in Nat /\ MaxFaults \in Nat
  /\ Free \notin Threads
  /\ NoVm \notin (1..MaxPools) \X Workers

VARIABLES
  POOL,        \* _POOL, 0 for None
  plock,       \* holder of _POOL_LOCK
  made,        \* pools created so far
  stopped,     \* pools whose stop() has run
  booting,     \* guests that boot or revert
  warm,        \* guests that can be claimed
  leased,      \* guests claimed and not given back
  left,        \* guests a stop could not destroy
  dead,        \* guests that cannot be reached
  blamed,      \* guests whose last evidence was a worker fault
  pc,          \* thread: where get_pool and validate are
  want,        \* thread: what it called for, "warmup" or "verdict"
  ref,         \* thread: the pool it holds
  lease,       \* thread: the guest it claimed
  out,         \* thread: how its last call ended
  proc,        \* the process: serving, stopping, its shutdown, gone
  faults       \* environment failures so far

poolVars == <<POOL, plock, made, stopped>>
vmVars   == <<booting, warm, leased, left, dead, blamed>>
thrVars  == <<pc, want, ref, lease, out>>
poolAll  == <<poolVars, vmVars, thrVars, proc, faults>>

-----------------------------------------------------------------------------
(* The library's pool *)

Of(p)   == {p} \X Workers
Domains == booting \cup warm \cup leased

Fault == faults < MaxFaults /\ faults' = faults + 1

\* The spawn loop defines and boots a guest ...
Spawn(v) ==
  /\ proc # "gone"
  /\ v[1] \in 1..made \ stopped /\ v \notin Domains
  /\ booting' = booting \cup {v}
  /\ UNCHANGED <<poolVars, warm, leased, left, dead, blamed, thrVars, proc, faults>>

\* ... which is warm after its boot or revert and its smoke test.
Warms(v) ==
  /\ v \in booting \ dead
  /\ booting' = booting \ {v} /\ warm' = warm \cup {v}
  /\ UNCHANGED <<poolVars, leased, left, dead, blamed, thrVars, proc, faults>>

\* A guest that reboots, or loses its address or its agent.
GuestDies(v) ==
  /\ v \in (warm \cup leased) \ dead
  /\ Fault
  /\ dead' = dead \cup {v}
  /\ UNCHANGED <<poolVars, booting, warm, leased, left, blamed, thrVars, proc>>

\* stop(): guests it cannot destroy run on.
Stop(p) ==
  /\ stopped' = stopped \cup {p}
  /\ \E rest \in SUBSET (Domains \cap Of(p)) :
       /\ left' = left \cup rest
       /\ IF rest = {} THEN UNCHANGED faults ELSE Fault
  /\ booting' = booting \ Of(p) /\ warm' = warm \ Of(p) /\ leased' = leased \ Of(p)
  /\ dead' = dead \ Of(p) /\ blamed' = blamed \ Of(p)

\* A guest given back as it is.
ReleaseClean(v) ==
  /\ leased' = leased \ {v}
  /\ warm' = IF v \in leased THEN warm \cup {v} ELSE warm
  /\ blamed' = blamed \ {v}
  /\ UNCHANGED <<booting, dead>>

\* A dirty one is reverted, which may bring it back; the second worker fault in a row evicts it,
\* evidence of a job clears it and "unknown" leaves it as it is.
ReleaseDirty(v, fault) ==
  LET evicted == fault = "worker" /\ v \in blamed IN
  /\ leased' = leased \ {v}
  /\ booting' = IF v \in leased /\ ~evicted THEN booting \cup {v} ELSE booting
  /\ blamed' = IF fault = "worker" /\ v \in leased /\ ~evicted THEN blamed \cup {v}
               ELSE IF fault = "unknown" THEN blamed ELSE blamed \ {v}
  /\ dead' \in IF evicted THEN {dead \ {v}} ELSE {dead, dead \ {v}}
  /\ UNCHANGED warm

-----------------------------------------------------------------------------
(* Whose evidence a failure is *)

Answered == {"status", "oversize", "notJson"}                 \* the agent's HTTP answer
Dropped  == {"sendTimeout", "sendReset", "readTimeout", "disconnect"}  \* accepted, then nothing
Missed   == {"refused", "connectTimeout"}                     \* what an unreachable guest does

\* Mutant: a failure after the connection is filed as the worker's.
FaultOfDropped(kind) == IF kind \in Answered THEN "job" ELSE "worker"

\* fault_of.  A sample the host cannot read any more is an OSError.
FaultOf(kind) ==
  IF kind \in Answered THEN "job"
  ELSE IF kind \in {"refused", "unreadable"} THEN "worker"
  ELSE "unknown"

-----------------------------------------------------------------------------
(* get_pool *)

Ends(t, how) ==
  /\ pc' = [pc EXCEPT ![t] = "idle"]
  /\ out' = [out EXCEPT ![t] = how]

\* A call of warmup() or of validate().
Begin(t, w) ==
  /\ pc[t] = "idle"
  /\ pc' = [pc EXCEPT ![t] = "get"]
  /\ want' = [want EXCEPT ![t] = w]
  /\ out' = [out EXCEPT ![t] = "none"]
  /\ UNCHANGED <<ref, lease>>

\* The check outside the lock.
Get(t) ==
  /\ pc[t] = "get"
  /\ pc' = [pc EXCEPT ![t] = IF POOL = 0 THEN "lock" ELSE "return"]
  /\ UNCHANGED <<poolVars, vmVars, want, ref, lease, out, proc, faults>>

\* The constructor refuses a bad knob (or the bound on pools is reached).
Refused == IF made < MaxPools THEN Fault ELSE UNCHANGED faults

\* Mutant: the second check is missing.
BootUnchecked(t) ==
  /\ pc[t] = "lock" /\ plock = Free
  /\ made < MaxPools
  /\ plock' = t
  /\ made' = made + 1
  /\ ref' = [ref EXCEPT ![t] = made + 1]
  /\ pc' = [pc EXCEPT ![t] = "poll"]
  /\ UNCHANGED <<POOL, stopped, vmVars, want, lease, out, proc, faults>>

\* The check under the lock; the pool is created and its spawn loop started.
Boot(t) ==
  /\ pc[t] = "lock" /\ plock = Free
  /\ \/ /\ POOL # 0
        /\ pc' = [pc EXCEPT ![t] = "return"]
        /\ UNCHANGED <<plock, made, ref, out, faults>>
     \/ /\ POOL = 0
        /\ Refused
        /\ Ends(t, "error")
        /\ UNCHANGED <<plock, made, ref>>
     \/ /\ POOL = 0 /\ made < MaxPools
        /\ plock' = t
        /\ made' = made + 1
        /\ ref' = [ref EXCEPT ![t] = made + 1]
        /\ pc' = [pc EXCEPT ![t] = "poll"]
        /\ UNCHANGED <<out, faults>>
  /\ UNCHANGED <<POOL, stopped, vmVars, want, lease, proc>>

\* Mutant: a failed warm-up leaves its guests to somebody else.
PollLeaves(t) ==
  /\ pc[t] = "poll" /\ warm \cap Of(ref[t]) = {}
  /\ plock' = Free
  /\ Ends(t, "error")
  /\ UNCHANGED <<POOL, made, stopped, vmVars, want, ref, lease, proc, faults>>

\* Mutant: a failed warm-up does not release the lock.
PollKeepsLock(t) ==
  /\ pc[t] = "poll" /\ warm \cap Of(ref[t]) = {}
  /\ Stop(ref[t])
  /\ Ends(t, "error")
  /\ UNCHANGED <<POOL, plock, made, want, ref, lease, proc>>

\* start() waits for one warm guest, then the pool is published; at the deadline, or when a
\* stop ends the warm-up, it reaps what it started and raises.
Poll(t) ==
  /\ pc[t] = "poll"
  /\ plock' = Free
  /\ \/ /\ warm \cap Of(ref[t]) # {}
        /\ POOL' = ref[t]
        /\ pc' = [pc EXCEPT ![t] = "return"]
        /\ UNCHANGED <<stopped, vmVars, out, faults>>
     \/ /\ warm \cap Of(ref[t]) = {}
        /\ Stop(ref[t])
        /\ Ends(t, "error")
        /\ UNCHANGED POOL
  /\ UNCHANGED <<made, want, ref, lease, proc>>

\* return _POOL reads the global again: a shutdown may have cleared it.
Return(t) ==
  /\ pc[t] = "return"
  /\ \/ want[t] = "warmup" /\ Ends(t, "none") /\ UNCHANGED ref
     \/ want[t] = "verdict" /\ POOL = 0 /\ Ends(t, "error") /\ UNCHANGED ref
     \/ /\ want[t] = "verdict" /\ POOL # 0
        /\ ref' = [ref EXCEPT ![t] = POOL]
        /\ pc' = [pc EXCEPT ![t] = "claim"]
        /\ UNCHANGED out
  /\ UNCHANGED <<poolVars, vmVars, want, lease, proc, faults>>

-----------------------------------------------------------------------------
(* WarmVmPool.validate *)

\* A sample the host cannot open ends the call before a guest is claimed; else a warm guest of the
\* pool is, or none within the timeout.
Claim(t) ==
  /\ pc[t] = "claim"
  /\ \/ \E v \in warm \cap Of(ref[t]) :
          /\ warm' = warm \ {v} /\ leased' = leased \cup {v}
          /\ lease' = [lease EXCEPT ![t] = v]
          /\ pc' = [pc EXCEPT ![t] = "agent"]
          /\ UNCHANGED <<out, faults>>
     \/ /\ \/ Ends(t, "unreadable") /\ Fault
           \/ warm \cap Of(ref[t]) = {} /\ Ends(t, "error") /\ UNCHANGED faults
        /\ UNCHANGED <<warm, leased, lease>>
  /\ UNCHANGED <<poolVars, booting, left, dead, blamed, want, ref, proc>>

\* Mutant: a failed validation keeps its guest.
AgentFailsKeeping(t) ==
  /\ pc[t] = "agent"
  /\ Ends(t, "error")
  /\ lease' = [lease EXCEPT ![t] = NoVm]
  /\ UNCHANGED <<poolVars, vmVars, want, ref, proc, faults>>

\* The agent's verdict; or a failure, filed as evidence.
Verdict(t) ==
  /\ pc[t] = "agent" /\ lease[t] \notin dead /\ lease[t] \in leased
  /\ ReleaseClean(lease[t])
  /\ Ends(t, "verdict")
  /\ lease' = [lease EXCEPT ![t] = NoVm]
  /\ UNCHANGED <<poolVars, left, want, ref, proc, faults>>

AgentFails(t) ==
  /\ pc[t] = "agent"
  /\ \E kind \in (IF lease[t] \in leased \ dead THEN Answered ELSE Missed) \cup Dropped \cup {"unreadable"} :
       /\ ReleaseDirty(lease[t], FaultOf(kind))
       /\ IF kind = "unreadable" THEN Fault ELSE UNCHANGED faults
       /\ Ends(t, IF kind = "unreadable" THEN kind ELSE "error")
  /\ lease' = [lease EXCEPT ![t] = NoVm]
  /\ UNCHANGED <<poolVars, left, want, ref, proc>>

ThreadStep(t) ==
  Get(t) \/ Boot(t) \/ Poll(t) \/ Return(t) \/ Claim(t) \/ Verdict(t) \/ AgentFails(t)

-----------------------------------------------------------------------------
(* shutdown_pool *)

\* The published pool is stopped ...
ShutStop ==
  /\ proc = "reaping"
  /\ \/ POOL = 0 /\ proc' = "down" /\ UNCHANGED <<stopped, vmVars, faults>>
     \/ POOL # 0 /\ proc' = "clearing" /\ Stop(POOL)
  /\ UNCHANGED <<POOL, plock, made, thrVars>>

\* ... and forgotten, whatever its stop did.
ShutClear ==
  /\ proc = "clearing"
  /\ POOL' = 0 /\ proc' = "down"
  /\ UNCHANGED <<plock, made, stopped, vmVars, thrVars, faults>>

Library ==
  \E v \in (1..made) \X Workers : Spawn(v) \/ Warms(v) \/ GuestDies(v)

-----------------------------------------------------------------------------
(* A process that joins its threads before its shutdown: the pool-manager, the one-shot runner *)

\* The stop request; nothing is begun after it ...
StopAsked ==
  /\ proc = "serving" /\ proc' = "stopping"
  /\ UNCHANGED <<poolVars, vmVars, thrVars, faults>>

\* Mutant: the shutdown does not wait for the threads.
JoinedNot ==
  /\ proc = "stopping"
  /\ proc' = "reaping"
  /\ UNCHANGED <<poolVars, vmVars, thrVars, faults>>

\* ... and the shutdown comes when every thread has ended.
Joined ==
  /\ proc = "stopping" /\ \A t \in Threads : pc[t] = "idle"
  /\ proc' = "reaping"
  /\ UNCHANGED <<poolVars, vmVars, thrVars, faults>>

Exit ==
  /\ proc = "down" /\ proc' = "gone"
  /\ UNCHANGED <<poolVars, vmVars, thrVars, faults>>

Call(t, w) ==
  /\ proc = "serving"
  /\ Begin(t, w)
  /\ UNCHANGED <<poolVars, vmVars, proc, faults>>

PoolInit ==
  /\ POOL = 0 /\ plock = Free /\ made = 0 /\ stopped = {}
  /\ booting = {} /\ warm = {} /\ leased = {} /\ left = {} /\ dead = {} /\ blamed = {}
  /\ pc = [t \in Threads |-> "idle"] /\ want = [t \in Threads |-> "warmup"]
  /\ ref = [t \in Threads |-> 0] /\ lease = [t \in Threads |-> NoVm]
  /\ out = [t \in Threads |-> "none"]
  /\ proc = "serving" /\ faults = 0

PoolNext ==
  \/ Library
  \/ \E t \in Threads : ThreadStep(t) \/ \E w \in {"warmup", "verdict"} : Call(t, w)
  \/ StopAsked \/ Joined \/ ShutStop \/ ShutClear \/ Exit

\* Threads run on; a blocked acquire gets the lock if it is freed again and again.
PoolFairness == \A t \in Threads : WF_poolAll(ThreadStep(t)) /\ SF_poolAll(Boot(t))

PoolSpec == PoolInit /\ [][PoolNext]_poolAll /\ PoolFairness

-----------------------------------------------------------------------------
(* Properties *)

Pools == 1..MaxPools
VMs   == Pools \X Workers

PoolTypeOK ==
  /\ POOL \in 0..made /\ made \in 0..MaxPools /\ stopped \subseteq 1..made
  /\ plock \in Threads \cup {Free}
  /\ booting \subseteq VMs /\ warm \subseteq VMs /\ leased \subseteq VMs
  /\ left \subseteq VMs /\ dead \subseteq VMs /\ blamed \subseteq VMs
  /\ pc \in [Threads -> {"idle", "get", "lock", "poll", "return", "claim", "agent"}]
  /\ want \in [Threads -> {"warmup", "verdict"}]
  /\ ref \in [Threads -> 0..MaxPools] /\ lease \in [Threads -> VMs \cup {NoVm}]
  /\ out \in [Threads -> {"none", "verdict", "error", "unreadable"}]
  /\ proc \in {"serving", "stopping", "reaping", "clearing", "down", "gone"}
  /\ faults \in 0..MaxFaults

\* Concurrent first uses boot one pool: never are there two that have not been stopped.
OnePool == \A p, q \in 1..made \ stopped : p = q

\* Every guest can still be destroyed by somebody: its pool is the published one, or is being
\* started by the holder of the lock, who reaps it if it does not get warm.
Reapable ==
  \A p \in 1..made \ stopped :
    POOL = p \/ \E t \in Threads : plock = t /\ pc[t] = "poll" /\ ref[t] = p

\* A guest is leased to exactly one thread, which is talking to its agent, and is given back on
\* every way out; no guest is in two places.
LeasesHeld ==
  /\ \A v \in leased : Cardinality({t \in Threads : pc[t] = "agent" /\ lease[t] = v}) = 1
  /\ leased \cap warm = {} /\ leased \cap booting = {} /\ warm \cap booting = {}

\* Once the process is gone so are its guests, but those whose destruction failed.
NothingLeftBehind == proc = "gone" => Domains = {}

\* Whatever a sample does to a guest that can be reached is no evidence against the guest: it is
\* neither blamed nor evicted for it (a sample the host cannot read is).
GuestNotBlamed ==
  [][\A t \in Threads :
       pc[t] = "agent" /\ pc'[t] = "idle" /\ lease[t] \in leased \ dead /\ out'[t] # "unreadable"
         => lease[t] \in Domains' /\ (lease[t] \in blamed' => lease[t] \in blamed)]_poolAll

\* Every call ends: a boot that fails releases the lock others wait for.
EventuallyAnswered == \A t \in Threads : pc[t] # "idle" ~> pc[t] = "idle"

\* "A missing file, a directory or an unreadable one is the caller's problem, never evidence about
\* a worker."
UnreadableNotBlamed ==
  [][\A t \in Threads :
       pc[t] = "agent" /\ pc'[t] = "idle" /\ lease[t] \in leased \ dead
         => lease[t] \in Domains' /\ (lease[t] \in blamed' => lease[t] \in blamed)]_poolAll

=============================================================================
