---------------------------- MODULE VmPoolProofs ----------------------------
(***************************************************************************)
(* One pool, no lost guest, no guest in two hands, no guest blamed for a   *)
(* sample, nothing left behind: for any threads, guests and failures.      *)
(***************************************************************************)
EXTENDS VmPool, FiniteSetTheorems, TLAPS

\* Whoever starts a pool holds the lock; the pool it starts is the newest and the only one
\* that may not have been stopped, unless the newest is published.
LockInv ==
  /\ \A t \in Threads : pc[t] = "poll" <=> plock = t
  /\ \A t \in Threads : pc[t] = "poll" => ref[t] = made
  /\ plock # Free => POOL = 0 /\ made \in (1..MaxPools) \ stopped
  /\ POOL # 0 => POOL = made
  /\ \A p \in 1..made : p # made => p \in stopped
  /\ plock = Free /\ POOL = 0 => 1..made \subseteq stopped
  /\ proc = "clearing" => POOL \in stopped

\* Guests are those of a pool that was not stopped, in one place each; a thread at the agent has
\* a guest of its own, which is leased to it unless its pool was stopped under it.
LeaseInv ==
  /\ \A v \in Domains : v[1] \in (1..made) \ stopped
  /\ leased \cap warm = {} /\ leased \cap booting = {} /\ warm \cap booting = {}
  /\ \A v \in leased : \E t \in Threads : pc[t] = "agent" /\ lease[t] = v
  /\ \A t \in Threads : pc[t] = "agent" => lease[t] \in VMs /\ (lease[t] \in leased \/ lease[t][1] \in stopped)
  /\ \A t, u \in Threads : pc[t] = "agent" /\ pc[u] = "agent" /\ lease[t] = lease[u] => t = u

\* A process that joins its threads has none when it reaps, and has no pool when it is down.
EndInv ==
  /\ proc \notin {"serving", "stopping"} => \A t \in Threads : pc[t] = "idle"
  /\ proc \in {"down", "gone"} => POOL = 0

PoolInv == PoolTypeOK /\ LockInv /\ LeaseInv

-----------------------------------------------------------------------------
(* The parts of the invariant as the actions disturb them *)

LEMMA OfVm == ASSUME NEW v \in VMs, NEW p PROVE v \in Of(p) <=> v[1] = p
  BY DEF VMs, Of

LEMMA InitInv == PoolInit => PoolInv /\ EndInv
<1> SUFFICES ASSUME PoolInit PROVE PoolInv /\ EndInv
  OBVIOUS
<1> USE VmPoolAssumption DEF VmPoolAssumption, PoolInit
<1>1. PoolTypeOK
  BY DEF PoolTypeOK, VMs
<1>2. LockInv
  BY DEF LockInv
<1>3. LeaseInv
  BY DEF LeaseInv, Domains
<1>4. EndInv
  BY DEF EndInv
<1> QED
  BY <1>1, <1>2, <1>3, <1>4 DEF PoolInv

\* Steps that leave the pools, the lock and who polls alone.
LEMMA LockFrame ==
  ASSUME LockInv, UNCHANGED <<POOL, plock, made, stopped>>, proc' # "clearing" \/ proc' = proc,
         \A t \in Threads : (pc'[t] = "poll" <=> pc[t] = "poll") /\ (pc[t] = "poll" => ref'[t] = ref[t])
  PROVE  LockInv'
  BY DEF LockInv

\* Steps that leave the guests and who talks to them alone.
LEMMA LeaseFrame ==
  ASSUME LeaseInv, UNCHANGED <<booting, warm, leased, lease, stopped>>,
         made \in Nat, made' \in {made, made + 1},
         \A t \in Threads : pc'[t] = "agent" <=> pc[t] = "agent"
  PROVE  LeaseInv'
  BY DEF LeaseInv, Domains
-----------------------------------------------------------------------------
(* The steps *)

LEMMA SpawnKeeps == ASSUME NEW v \in (1..made) \X Workers, PoolInv, Spawn(v) PROVE PoolInv'
<1> USE VmPoolAssumption DEF VmPoolAssumption, PoolInv, Spawn, Domains, poolVars, vmVars, thrVars
<1>1. PoolTypeOK'
  BY SMTT(20) DEF PoolTypeOK, VMs, Pools
<1>2. LockInv'
  BY LockFrame, SMTT(20) DEF PoolTypeOK
<1>3. LeaseInv'
  BY SMTT(30) DEF PoolTypeOK, LeaseInv, Domains, VMs, Pools
<1> QED
  BY <1>1, <1>2, <1>3

LEMMA WarmsKeeps == ASSUME NEW v \in (1..made) \X Workers, PoolInv, Warms(v) PROVE PoolInv'
<1> USE VmPoolAssumption DEF VmPoolAssumption, PoolInv, Warms, poolVars, vmVars, thrVars
<1>1. PoolTypeOK'
  BY SMTT(20) DEF PoolTypeOK, VMs, Pools
<1>2. LockInv'
  BY LockFrame, SMTT(20) DEF PoolTypeOK
<1>3. LeaseInv'
  BY SMTT(30) DEF PoolTypeOK, LeaseInv, Domains, VMs, Pools
<1> QED
  BY <1>1, <1>2, <1>3

LEMMA GuestDiesKeeps == ASSUME NEW v \in (1..made) \X Workers, PoolInv, GuestDies(v) PROVE PoolInv'
<1> USE VmPoolAssumption DEF VmPoolAssumption, PoolInv, GuestDies, Fault, poolVars, vmVars, thrVars
<1>1. PoolTypeOK'
  BY SMTT(20) DEF PoolTypeOK, VMs, Pools
<1>2. LockInv'
  BY LockFrame, SMTT(20) DEF PoolTypeOK
<1>3. LeaseInv'
  BY LeaseFrame, SMTT(20) DEF PoolTypeOK
<1> QED
  BY <1>1, <1>2, <1>3

LEMMA GetKeeps == ASSUME NEW t \in Threads, PoolInv, Get(t) PROVE PoolInv'
<1> USE VmPoolAssumption DEF VmPoolAssumption, PoolInv, Get, poolVars, vmVars, thrVars
<1>1. PoolTypeOK'
  BY SMTT(20) DEF PoolTypeOK, VMs, Pools
<1>2. LockInv'
  BY LockFrame, SMTT(20) DEF PoolTypeOK
<1>3. LeaseInv'
  BY LeaseFrame, SMTT(20) DEF PoolTypeOK
<1> QED
  BY <1>1, <1>2, <1>3

LEMMA BootKeeps == ASSUME NEW t \in Threads, PoolInv, Boot(t) PROVE PoolInv'
<1> USE VmPoolAssumption DEF VmPoolAssumption, PoolInv, Boot, Refused, Fault, Ends, poolVars, vmVars, thrVars
<1>1. PoolTypeOK'
  BY SMTT(20) DEF PoolTypeOK, VMs, Pools
<1>2. LockInv'
  BY SMTT(20) DEF PoolTypeOK, LockInv
<1>3. LeaseInv'
  BY LeaseFrame, SMTT(20) DEF PoolTypeOK
<1> QED
  BY <1>1, <1>2, <1>3

\* What a stop leaves has its type.
StopTypes ==
  /\ stopped' \subseteq 1..made /\ booting' \subseteq VMs /\ warm' \subseteq VMs /\ leased' \subseteq VMs
  /\ left' \subseteq VMs /\ dead' \subseteq VMs /\ blamed' \subseteq VMs /\ faults' \in 0..MaxFaults

LEMMA StopKeepsTypes == ASSUME PoolTypeOK, NEW p \in 1..made, Stop(p) PROVE StopTypes
<1> USE DEF PoolTypeOK, Stop
<1>1. left' \subseteq VMs
  BY SMT DEF Domains
<1>2. faults' \in 0..MaxFaults
  BY VmPoolAssumption, SMT DEF VmPoolAssumption, Fault
<1> QED
  BY <1>1, <1>2, SMT DEF StopTypes

LEMMA PollKeeps == ASSUME NEW t \in Threads, PoolInv, Poll(t) PROVE PoolInv'
<1> USE VmPoolAssumption DEF VmPoolAssumption, PoolInv, Poll, Ends, poolVars, vmVars, thrVars
<1>1. PoolTypeOK'
  <2>1. ref[t] \in 1..made
    BY SMT DEF PoolTypeOK, LockInv
  <2>2. made' = made /\ POOL' \in {POOL, ref[t]}
    BY SMT DEF PoolTypeOK
  <2>3. Stop(ref[t]) \/ UNCHANGED <<stopped, vmVars, faults>>
    BY Zenon
  <2>4. StopTypes
    <3>1. PoolTypeOK
      OBVIOUS
    <3>2. CASE Stop(ref[t])
      BY <2>1, <3>1, <3>2, StopKeepsTypes, Zenon
    <3>3. CASE UNCHANGED <<stopped, vmVars, faults>>
      BY <2>2, <3>3, SMT DEF PoolTypeOK, StopTypes
    <3> QED
      BY <2>3, <3>2, <3>3
  <2> QED
    BY <2>1, <2>2, <2>4, SMTT(20) DEF PoolTypeOK, StopTypes, VMs, Pools
<1>2. LockInv'
  BY SMTT(20) DEF Stop, PoolTypeOK, LockInv
<1>3. LeaseInv'
  BY SMTT(30) DEF Stop, Fault, Of, PoolTypeOK, LeaseInv, Domains, VMs, Pools
<1> QED
  BY <1>1, <1>2, <1>3

LEMMA ReturnKeeps == ASSUME NEW t \in Threads, PoolInv, Return(t) PROVE PoolInv'
<1> USE VmPoolAssumption DEF VmPoolAssumption, PoolInv, Return, Ends, poolVars, vmVars, thrVars
<1>1. PoolTypeOK'
  BY SMTT(20) DEF PoolTypeOK, VMs, Pools
<1>2. LockInv'
  BY LockFrame, SMTT(20) DEF PoolTypeOK
<1>3. LeaseInv'
  BY LeaseFrame, SMTT(20) DEF PoolTypeOK
<1> QED
  BY <1>1, <1>2, <1>3

LEMMA ClaimKeeps == ASSUME NEW t \in Threads, PoolInv, Claim(t) PROVE PoolInv'
<1> USE VmPoolAssumption DEF VmPoolAssumption, PoolInv, Claim, Ends, Fault, Of, poolVars, vmVars, thrVars
<1>1. PoolTypeOK'
  BY SMTT(20) DEF PoolTypeOK, VMs, Pools
<1>2. LockInv'
  BY LockFrame, SMTT(20) DEF PoolTypeOK
<1>3. LeaseInv'
  BY SMTT(30) DEF PoolTypeOK, LeaseInv, Domains, VMs, Pools
<1> QED
  BY <1>1, <1>2, <1>3

LEMMA VerdictKeeps == ASSUME NEW t \in Threads, PoolInv, Verdict(t) PROVE PoolInv'
<1> USE VmPoolAssumption DEF VmPoolAssumption, PoolInv, Verdict, ReleaseClean, Ends, poolVars, vmVars, thrVars
<1>1. PoolTypeOK'
  BY SMTT(20) DEF PoolTypeOK, VMs, Pools
<1>2. LockInv'
  BY LockFrame, SMTT(20) DEF PoolTypeOK
<1>3. LeaseInv'
  BY SMTT(30) DEF PoolTypeOK, LeaseInv, Domains, VMs, Pools
<1> QED
  BY <1>1, <1>2, <1>3

LEMMA AgentFailsKeeps == ASSUME NEW t \in Threads, PoolInv, AgentFails(t) PROVE PoolInv'
<1> USE VmPoolAssumption DEF VmPoolAssumption, PoolInv, AgentFails, ReleaseDirty, Ends, Fault, poolVars, vmVars, thrVars
<1>1. PoolTypeOK'
  BY SMTT(20) DEF PoolTypeOK, VMs, Pools
<1>2. LockInv'
  BY LockFrame, SMTT(20) DEF PoolTypeOK
<1>3. LeaseInv'
  BY SMTT(30) DEF PoolTypeOK, LeaseInv, Domains, VMs, Pools
<1> QED
  BY <1>1, <1>2, <1>3

LEMMA ShutStopKeeps == ASSUME PoolInv, ShutStop PROVE PoolInv'
<1> USE VmPoolAssumption DEF VmPoolAssumption, PoolInv, ShutStop, poolVars, vmVars, thrVars
<1>1. PoolTypeOK'
  <2>1. \/ POOL \in 1..made /\ Stop(POOL)
        \/ UNCHANGED <<stopped, vmVars, faults>>
    BY SMT DEF PoolTypeOK
  <2>2. StopTypes
    <3>1. PoolTypeOK
      OBVIOUS
    <3>2. CASE POOL \in 1..made /\ Stop(POOL)
      BY <3>1, <3>2, StopKeepsTypes, Zenon
    <3>3. CASE UNCHANGED <<stopped, vmVars, faults>>
      BY <3>3, SMT DEF PoolTypeOK, StopTypes
    <3> QED
      BY <2>1, <3>2, <3>3
  <2> QED
    BY <2>2, SMTT(20) DEF PoolTypeOK, StopTypes
<1>2. LockInv'
  BY SMTT(20) DEF Stop, PoolTypeOK, LockInv
<1>3. LeaseInv'
  BY SMTT(30) DEF Stop, Fault, Of, PoolTypeOK, LeaseInv, Domains, VMs, Pools
<1> QED
  BY <1>1, <1>2, <1>3

LEMMA ShutClearKeeps == ASSUME PoolInv, ShutClear PROVE PoolInv'
<1> USE VmPoolAssumption DEF VmPoolAssumption, PoolInv, ShutClear, poolVars, vmVars, thrVars
<1>1. PoolTypeOK'
  BY SMTT(20) DEF PoolTypeOK, VMs, Pools
<1>2. LockInv'
  BY SMTT(20) DEF PoolTypeOK, LockInv
<1>3. LeaseInv'
  BY LeaseFrame, SMTT(20) DEF PoolTypeOK
<1> QED
  BY <1>1, <1>2, <1>3

LEMMA BeginKeeps == ASSUME NEW t \in Threads, NEW w \in {"warmup", "verdict"}, PoolInv, Begin(t, w), UNCHANGED <<poolVars, vmVars, proc, faults>> PROVE PoolInv'
<1> USE VmPoolAssumption DEF VmPoolAssumption, PoolInv, Begin, poolVars, vmVars, thrVars
<1>1. PoolTypeOK'
  BY SMTT(20) DEF PoolTypeOK, VMs, Pools
<1>2. LockInv'
  BY LockFrame, SMTT(20) DEF PoolTypeOK
<1>3. LeaseInv'
  BY LeaseFrame, SMTT(20) DEF PoolTypeOK
<1> QED
  BY <1>1, <1>2, <1>3

-----------------------------------------------------------------------------
(* A process that joins its threads *)

\* Steps that move the process only, or count a failure.
LEMMA ProcKeeps == ASSUME PoolInv, UNCHANGED <<poolVars, vmVars, thrVars>>, faults' \in 0..MaxFaults,
                          proc' # "clearing" \/ proc' = proc,
                          proc' \in {"serving", "stopping", "reaping", "clearing", "down", "gone"}
                   PROVE  PoolInv'
<1> USE DEF PoolInv, poolVars, vmVars, thrVars
<1>1. PoolTypeOK'
  BY SMTT(20) DEF PoolTypeOK, VMs, Pools
<1>2. LockInv'
  BY LockFrame, SMTT(20) DEF PoolTypeOK
<1>3. LeaseInv'
  BY LeaseFrame, SMTT(20) DEF PoolTypeOK
<1> QED
  BY <1>1, <1>2, <1>3

LEMMA PoolStep == PoolInv /\ [PoolNext]_poolAll => PoolInv'
<1> SUFFICES ASSUME PoolInv, [PoolNext]_poolAll PROVE PoolInv'
  OBVIOUS
<1>1. CASE Library
  BY <1>1, SpawnKeeps, WarmsKeeps, GuestDiesKeeps DEF Library
<1>2. ASSUME NEW t \in Threads, ThreadStep(t) PROVE PoolInv'
  BY <1>2, GetKeeps, BootKeeps, PollKeeps, ReturnKeeps, ClaimKeeps, VerdictKeeps, AgentFailsKeeps DEF ThreadStep
<1>3. ASSUME NEW t \in Threads, NEW w \in {"warmup", "verdict"}, Call(t, w) PROVE PoolInv'
  BY <1>3, BeginKeeps DEF Call
<1>4. CASE StopAsked \/ Joined \/ Exit
  BY <1>4, ProcKeeps DEF StopAsked, Joined, Exit, PoolInv, PoolTypeOK
<1>5. CASE ShutStop
  BY <1>5, ShutStopKeeps
<1>6. CASE ShutClear
  BY <1>6, ShutClearKeeps
<1>7. CASE UNCHANGED poolAll
  <2>1. UNCHANGED <<poolVars, vmVars, thrVars>> /\ proc' = proc /\ faults' = faults
    BY <1>7, Zenon DEF poolAll
  <2>2. proc \in {"serving", "stopping", "reaping", "clearing", "down", "gone"} /\ faults \in 0..MaxFaults
    BY Zenon DEF PoolInv, PoolTypeOK
  <2> QED
    BY <2>1, <2>2, ProcKeeps, Zenon
<1> QED
  BY <1>1, <1>2, <1>3, <1>4, <1>5, <1>6, <1>7 DEF PoolNext

\* No thread works when the process reaps, and none begins; the pool is cleared before it is down.
LEMMA EndStep == PoolInv /\ EndInv /\ [PoolNext]_poolAll => EndInv'
<1> SUFFICES ASSUME PoolTypeOK, EndInv, [PoolNext]_poolAll PROVE EndInv'
  BY DEF PoolInv
<1> USE DEF EndInv, poolVars, vmVars, thrVars
<1>1. CASE Library
  BY <1>1, SMTT(20) DEF Library, Spawn, Warms, GuestDies
<1>2. ASSUME NEW t \in Threads, ThreadStep(t) PROVE EndInv'
  <2>1. pc[t] # "idle" /\ proc' = proc
    BY <1>2, SMTT(20) DEF ThreadStep, Get, Boot, Poll, Return, Claim, Verdict, AgentFails
  <2>2. proc \in {"serving", "stopping"}
    BY <2>1, SMT DEF PoolTypeOK
  <2> QED
    BY <2>1, <2>2, SMT
<1>3. ASSUME NEW t \in Threads, NEW w \in {"warmup", "verdict"}, Call(t, w) PROVE EndInv'
  BY <1>3, SMTT(20) DEF Call
<1>4. CASE StopAsked \/ Joined \/ Exit
  BY <1>4, SMTT(20) DEF StopAsked, Joined, Exit
<1>5. CASE ShutStop \/ ShutClear
  BY <1>5, SMTT(20) DEF ShutStop, ShutClear
<1>6. CASE UNCHANGED poolAll
  BY <1>6, SMTT(20) DEF poolAll
<1> QED
  BY <1>1, <1>2, <1>3, <1>4, <1>5, <1>6 DEF PoolNext

\* The inductive invariant holds for any threads, guests, pools and failures.
THEOREM PoolInvariance == PoolSpec => [](PoolInv /\ EndInv)
<1>1. PoolInit => PoolInv /\ EndInv
  BY InitInv
<1>2. (PoolInv /\ EndInv) /\ [PoolNext]_poolAll => (PoolInv /\ EndInv)'
  BY PoolStep, EndStep
<1> QED
  BY <1>1, <1>2, PTL DEF PoolSpec

-----------------------------------------------------------------------------
(* The results *)

\* Every variable keeps its type.
THEOREM PoolTypes == PoolSpec => []PoolTypeOK
<1>1. PoolInv => PoolTypeOK
  BY DEF PoolInv
<1> QED
  BY <1>1, PoolInvariance, PTL

LEMMA OneNewest == PoolInv => OnePool
  BY SMT DEF PoolInv, LockInv, OnePool

LEMMA ReapableByOwner == PoolInv => Reapable
<1> SUFFICES ASSUME PoolInv, NEW p \in 1..made \ stopped, POOL # p
             PROVE  \E t \in Threads : plock = t /\ pc[t] = "poll" /\ ref[t] = p
  BY DEF Reapable
<1>1. p = made /\ plock # Free
  BY SMT DEF PoolInv, LockInv
<1>2. plock \in Threads
  BY <1>1 DEF PoolInv, PoolTypeOK
<1> QED
  BY <1>1, <1>2 DEF PoolInv, LockInv

LEMMA OneHolder == PoolInv => LeasesHeld
<1> SUFFICES ASSUME LeaseInv, NEW v \in leased
             PROVE  Cardinality({t \in Threads : pc[t] = "agent" /\ lease[t] = v}) = 1
  BY DEF PoolInv, LeaseInv, LeasesHeld
<1>1. PICK t \in Threads : pc[t] = "agent" /\ lease[t] = v
  BY DEF LeaseInv
<1>2. {u \in Threads : pc[u] = "agent" /\ lease[u] = v} = {t}
  BY <1>1 DEF LeaseInv
<1> QED
  BY <1>2, FS_Singleton

\* Concurrent first uses boot one pool.
THEOREM PoolIsOne == PoolSpec => []OnePool
<1>1. PoolInv => OnePool
  BY OneNewest
<1> QED
  BY <1>1, PoolInvariance, PTL

\* Every guest that runs can still be destroyed by somebody.
THEOREM PoolIsReapable == PoolSpec => []Reapable
<1>1. PoolInv => Reapable
  BY ReapableByOwner
<1> QED
  BY <1>1, PoolInvariance, PTL

\* Every guest that was claimed is in the hands of one thread.
THEOREM LeaseIsHeld == PoolSpec => []LeasesHeld
<1>1. PoolInv => LeasesHeld
  BY OneHolder
<1> QED
  BY <1>1, PoolInvariance, PTL

\* A process that joins its threads before its shutdown leaves no guest behind.
THEOREM PoolIsReaped == PoolSpec => []NothingLeftBehind
<1>1. PoolInv /\ EndInv => NothingLeftBehind
  <2> SUFFICES ASSUME PoolInv, EndInv, proc = "gone" PROVE Domains = {}
    BY DEF NothingLeftBehind
  <2>1. POOL = 0 /\ \A t \in Threads : pc[t] = "idle"
    BY SMT DEF EndInv
  <2>2. plock = Free
    BY <2>1, SMT DEF PoolInv, PoolTypeOK, LockInv
  <2>3. 1..made \subseteq stopped
    BY <2>1, <2>2 DEF PoolInv, LockInv
  <2> QED
    BY <2>3 DEF PoolInv, LeaseInv
<1> QED
  BY <1>1, PoolInvariance, PTL

\* Only its own thread's answer or failure gives a guest back.
LEMMA GivesBack ==
  ASSUME PoolInv, [PoolNext]_poolAll, NEW t \in Threads, pc[t] = "agent", pc'[t] = "idle"
  PROVE  Verdict(t) \/ AgentFails(t)
<1> USE DEF PoolInv, PoolTypeOK, poolVars, vmVars, thrVars
<1>1. CASE Library
  BY <1>1, SMTT(20) DEF Library, Spawn, Warms, GuestDies
<1>2. ASSUME NEW u \in Threads, ThreadStep(u) PROVE Verdict(t) \/ AgentFails(t)
  <2>1. CASE u = t
    BY <1>2, <2>1, SMTT(20) DEF ThreadStep, Get, Boot, Poll, Return, Claim
  <2>2. CASE u # t
    BY <1>2, <2>2, SMTT(20) DEF ThreadStep, Get, Boot, Poll, Return, Claim, Verdict, AgentFails, Ends
  <2> QED
    BY <2>1, <2>2
<1>3. ASSUME NEW u \in Threads, NEW w \in {"warmup", "verdict"}, Call(u, w) PROVE FALSE
  BY <1>3, SMTT(20) DEF Call, Begin
<1>4. CASE StopAsked \/ Joined \/ Exit \/ ShutStop \/ ShutClear
  BY <1>4, SMTT(20) DEF StopAsked, Joined, Exit, ShutStop, ShutClear
<1>5. CASE UNCHANGED poolAll
  BY <1>5, SMTT(20) DEF poolAll
<1> QED
  BY <1>1, <1>2, <1>3, <1>4, <1>5 DEF PoolNext

\* What the agent answers, and what is lost after it accepted, is no evidence against its guest.
LEMMA SampleEvidence ==
  ASSUME NEW kind \in Answered \cup Dropped PROVE FaultOf(kind) \in {"job", "unknown"}
  BY DEF Answered, Dropped, FaultOf

\* No guest that can be reached is blamed or evicted for what a sample does.
THEOREM SampleBlamesNoGuest == PoolSpec => GuestNotBlamed
<1> DEFINE Gives(t) == pc[t] = "agent" /\ pc'[t] = "idle" /\ lease[t] \in leased \ dead /\ out'[t] # "unreadable"
           Keeps(t) == lease[t] \in Domains' /\ (lease[t] \in blamed' => lease[t] \in blamed)
<1>1. PoolInv /\ [PoolNext]_poolAll => \A t \in Threads : Gives(t) => Keeps(t)
  <2> SUFFICES ASSUME PoolInv, [PoolNext]_poolAll, NEW t \in Threads, Gives(t) PROVE Keeps(t)
    OBVIOUS
  <2>1. CASE Verdict(t)
    BY <2>1 DEF Verdict, ReleaseClean, Domains
  <2>2. CASE AgentFails(t)
    <3>1. PICK kind \in Answered \cup Dropped \cup {"unreadable"} :
            /\ ReleaseDirty(lease[t], FaultOf(kind))
            /\ Ends(t, IF kind = "unreadable" THEN kind ELSE "error")
      BY <2>2 DEF AgentFails
    <3>2. kind # "unreadable"
      BY <3>1 DEF Ends, PoolInv, PoolTypeOK
    <3>3. FaultOf(kind) \in {"job", "unknown"}
      BY <3>2, SampleEvidence
    <3> QED
      BY <3>1, <3>3 DEF ReleaseDirty, Domains
  <2> QED
    BY <2>1, <2>2, GivesBack
<1> QED
  BY <1>1, PoolInvariance, PTL DEF PoolSpec, GuestNotBlamed
=============================================================================
