------------------------- MODULE PoolRestartProofs -------------------------
(***************************************************************************)
(* That restart_pool says of a golden that it is in service only when it   *)
(* is, that the preflight's posture is the manager's, and that a stopped   *)
(* unit stays down: for any number of failures.                            *)
(***************************************************************************)
EXTENDS PoolRestart, TLAPS

\* A restart job is waiting for a stop or has begun a life from the new golden.
AskedInv ==
  asked => /\ pc \in {"issued", "done"}
           /\ unit \in {"stopping", "stopWarming", "pre"}
           /\ unit = "pre" => golden = "new"

\* After the restart job every life boots from the new golden, and a marker is such a life's.
LifeInv ==
  pc \in {"issued", "waiting"} /\ ~asked =>
    /\ unit \in Up \cup {"pre"} => golden = "new"
    /\ marker = "now" /\ (pc = "waiting" \/ unit \in Active) => warmed

\* The manager judges a host its pre-start has prepared.
HostInv == unit = "checking" => host.sysctl = "on" \/ (host.sysctl = "absent" /\ ~host.loadable)

\* What it refuses the preflight refuses, and what the preflight let through stays let through.
PostureInv ==
  /\ refused => ~Judge(host, "loadable")
  /\ pc # "start" /\ result # "refused" => Judge(host, "loadable")
  /\ result = "refused" => pc = "done"

\* A unit its operator stopped is on its way down, and no restart job will bring it back.
StopInv ==
  /\ ~wanted => ~asked /\ unit \in {"stopping", "stopWarming", "inactive"}
  /\ pc = "restart" /\ state = "failed" => unit = "failed"

IInv == TypeOK /\ AskedInv /\ LifeInv /\ HostInv /\ PostureInv /\ StopInv /\ TrueIsWarm

-----------------------------------------------------------------------------
(* The steps *)

LEMMA InitInv == Init => IInv
<1> SUFFICES ASSUME Init PROVE IInv
  OBVIOUS
<1> USE DEF Init
<1>1. TypeOK
  <2>1. faults \in 0..MaxFaults
    BY RestartAssumption, SMT DEF RestartAssumption
  <2>2. /\ asked \in BOOLEAN /\ wanted \in BOOLEAN /\ warmed \in BOOLEAN /\ refused \in BOOLEAN
    BY Zenon
  <2>3. /\ host \in Hosts /\ unit \in Active \cup Settled \cup {"stopWarming", "stopping"}
        /\ golden \in {"old", "new"} /\ marker \in {"none", "past", "now"}
        /\ pc \in {"start", "publish", "restart", "issued", "waiting", "done"}
        /\ state \in {"other", "failed"} /\ result \in {"none", "refused", "true", "false", "raised"}
    BY DEF Active, Settled, Up
  <2> QED
    BY <2>1, <2>2, <2>3 DEF TypeOK
<1>2. AskedInv /\ LifeInv
  BY DEF AskedInv, LifeInv
<1>3. HostInv
  BY DEF HostInv, Settled
<1>4. PostureInv
  BY DEF PostureInv
<1>5. StopInv
  BY DEF StopInv
<1>6. TrueIsWarm
  BY DEF TrueIsWarm
<1> QED
  BY <1>1, <1>2, <1>3, <1>4, <1>5, <1>6 DEF IInv

LEMMA PreStartKeeps == IInv /\ PreStart => IInv'
<1> SUFFICES ASSUME IInv, PreStart PROVE IInv'
  OBVIOUS
<1> USE DEF IInv, PreStart, Prepared, Runner, Ghosts
<1>1. TypeOK'
  <2>1. /\ asked' \in BOOLEAN /\ wanted' \in BOOLEAN
        /\ warmed' \in BOOLEAN /\ refused' \in BOOLEAN
    BY Zenon DEF TypeOK
  <2>2. /\ host' \in Hosts /\ unit' \in Active \cup Settled \cup {"stopWarming", "stopping"}
        /\ golden' \in {"old", "new"} /\ marker' \in {"none", "past", "now"}
    BY SMTT(20) DEF TypeOK, Hosts, Up, Active, Settled
  <2>3. /\ pc' \in {"start", "publish", "restart", "issued", "waiting", "done"}
        /\ state' \in {"other", "failed"} /\ result' \in {"none", "refused", "true", "false", "raised"}
        /\ faults' \in 0..MaxFaults
    BY RestartAssumption, SMTT(20) DEF RestartAssumption, TypeOK
  <2> QED
    BY <2>1, <2>2, <2>3 DEF TypeOK
<1>2. AskedInv'
  BY SMTT(20) DEF TypeOK, AskedInv, Up, Active, Settled
<1>3. LifeInv'
  BY SMTT(20) DEF TypeOK, AskedInv, LifeInv, Up, Active, Settled
<1>4. HostInv'
  BY SMTT(20) DEF TypeOK, Hosts, HostInv, Up, Active, Settled
<1>5. PostureInv'
  <2>1. Judge(host', "loadable") = Judge(host, "loadable")
    BY SMTT(30) DEF TypeOK, Hosts, Judge
  <2> QED
    BY <2>1, Zenon DEF PostureInv
<1>6. StopInv'
  BY SMTT(20) DEF TypeOK, StopInv, Up, Active, Settled
<1>7. TrueIsWarm'
  BY SMTT(20) DEF TypeOK, LifeInv, AskedInv, TrueIsWarm
<1> QED
  BY <1>1, <1>2, <1>3, <1>4, <1>5, <1>6, <1>7

LEMMA CheckKeeps == IInv /\ Check => IInv'
<1> SUFFICES ASSUME IInv, Check PROVE IInv'
  OBVIOUS
<1> USE DEF IInv, Check, Up, Active, Settled, Judge, Runner, Ghosts
<1>1. TypeOK'
  <2>1. /\ asked' \in BOOLEAN /\ wanted' \in BOOLEAN
        /\ warmed' \in BOOLEAN /\ refused' \in BOOLEAN
    BY Zenon DEF TypeOK
  <2>2. /\ host' \in Hosts /\ unit' \in Active \cup Settled \cup {"stopWarming", "stopping"}
        /\ golden' \in {"old", "new"} /\ marker' \in {"none", "past", "now"}
    BY SMTT(20) DEF TypeOK, Hosts, Up, Active, Settled
  <2>3. /\ pc' \in {"start", "publish", "restart", "issued", "waiting", "done"}
        /\ state' \in {"other", "failed"} /\ result' \in {"none", "refused", "true", "false", "raised"}
        /\ faults' \in 0..MaxFaults
    BY RestartAssumption, SMTT(20) DEF RestartAssumption, TypeOK
  <2> QED
    BY <2>1, <2>2, <2>3 DEF TypeOK
<1>2. AskedInv'
  BY SMTT(20) DEF TypeOK, AskedInv, Up, Active, Settled
<1>3. LifeInv'
  BY SMTT(20) DEF TypeOK, AskedInv, LifeInv, Up, Active, Settled
<1>4. HostInv'
  BY SMTT(20) DEF TypeOK, Hosts, HostInv, Up, Active, Settled
<1>5. PostureInv'
  BY SMTT(20) DEF TypeOK, Hosts, HostInv, PostureInv, Up, Active
<1>6. StopInv'
  BY SMTT(20) DEF TypeOK, StopInv, Up, Active, Settled
<1>7. TrueIsWarm'
  BY SMTT(20) DEF TypeOK, LifeInv, AskedInv, TrueIsWarm
<1> QED
  BY <1>1, <1>2, <1>3, <1>4, <1>5, <1>6, <1>7

LEMMA WarmKeeps == IInv /\ Warm => IInv'
<1> SUFFICES ASSUME IInv, Warm PROVE IInv'
  OBVIOUS
<1> USE DEF IInv, Warm, Pays, Runner, Ghosts
<1>1. TypeOK'
  BY RestartAssumption, SMTT(20) DEF RestartAssumption, TypeOK, Hosts, Up, Active, Settled
<1>2. AskedInv'
  BY SMTT(20) DEF TypeOK, AskedInv, Up, Active, Settled
<1>3. LifeInv'
  BY Zenon DEF TypeOK, LifeInv, AskedInv, Up, Active
<1>4. HostInv'
  BY SMTT(20) DEF TypeOK, Hosts, HostInv, Up, Active, Settled
<1>5. PostureInv'
  BY SMTT(20) DEF TypeOK, Hosts, HostInv, PostureInv, Up, Active
<1>6. StopInv'
  BY SMTT(20) DEF TypeOK, StopInv, Up, Active, Settled
<1>7. TrueIsWarm'
  BY Zenon DEF TrueIsWarm
<1> QED
  BY <1>1, <1>2, <1>3, <1>4, <1>5, <1>6, <1>7

LEMMA DiesKeeps == IInv /\ Dies => IInv'
<1> SUFFICES ASSUME IInv, Dies PROVE IInv'
  OBVIOUS
<1> USE DEF IInv, Dies, Pays, JobFailed, Runner, Ghosts
<1>1. TypeOK'
  <2>1. /\ asked' \in BOOLEAN /\ wanted' \in BOOLEAN
        /\ warmed' \in BOOLEAN /\ refused' \in BOOLEAN
    BY Zenon DEF TypeOK
  <2>2. /\ host' \in Hosts /\ unit' \in Active \cup Settled \cup {"stopWarming", "stopping"}
        /\ golden' \in {"old", "new"} /\ marker' \in {"none", "past", "now"}
    BY SMTT(20) DEF TypeOK, Hosts, Up, Active, Settled
  <2>3. /\ pc' \in {"start", "publish", "restart", "issued", "waiting", "done"}
        /\ state' \in {"other", "failed"} /\ result' \in {"none", "refused", "true", "false", "raised"}
        /\ faults' \in 0..MaxFaults
    BY RestartAssumption, SMTT(20) DEF RestartAssumption, TypeOK
  <2> QED
    BY <2>1, <2>2, <2>3 DEF TypeOK
<1>2. AskedInv'
  BY Zenon DEF AskedInv
<1>3. LifeInv'
  BY SMTT(20) DEF TypeOK, AskedInv, LifeInv, Up, Active, Settled
<1>4. HostInv'
  BY SMTT(20) DEF TypeOK, Hosts, HostInv, Up, Active, Settled
<1>5. PostureInv'
  BY Zenon DEF TypeOK, PostureInv
<1>6. StopInv'
  BY SMTT(20) DEF TypeOK, StopInv, Up, Active, Settled
<1>7. TrueIsWarm'
  BY SMTT(20) DEF TypeOK, LifeInv, AskedInv, TrueIsWarm
<1> QED
  BY <1>1, <1>2, <1>3, <1>4, <1>5, <1>6, <1>7

LEMMA AutoRestartKeeps == IInv /\ AutoRestart => IInv'
<1> SUFFICES ASSUME IInv, AutoRestart PROVE IInv'
  OBVIOUS
<1> USE DEF IInv, AutoRestart, Starts, Runner, Ghosts
<1>1. TypeOK'
  BY RestartAssumption, SMTT(20) DEF RestartAssumption, TypeOK, Hosts, Up, Active, Settled
<1>2. AskedInv'
  BY SMTT(20) DEF TypeOK, AskedInv, Up, Active, Settled
<1>3. LifeInv'
  BY SMTT(20) DEF TypeOK, AskedInv, LifeInv, Up, Active, Settled
<1>4. HostInv'
  BY SMTT(20) DEF TypeOK, Hosts, HostInv, Up, Active, Settled
<1>5. PostureInv'
  BY SMTT(20) DEF TypeOK, Hosts, HostInv, PostureInv, Up, Active
<1>6. StopInv'
  BY SMTT(20) DEF TypeOK, StopInv, Up, Active, Settled
<1>7. TrueIsWarm'
  BY SMTT(20) DEF TypeOK, LifeInv, AskedInv, TrueIsWarm
<1> QED
  BY <1>1, <1>2, <1>3, <1>4, <1>5, <1>6, <1>7

LEMMA OperatorStopsKeeps == IInv /\ OperatorStops => IInv'
<1> SUFFICES ASSUME IInv, OperatorStops PROVE IInv'
  OBVIOUS
<1> USE DEF IInv, OperatorStops, JobFailed, Runner, Ghosts
<1>1. TypeOK'
  <2>1. /\ asked' \in BOOLEAN /\ wanted' \in BOOLEAN
        /\ warmed' \in BOOLEAN /\ refused' \in BOOLEAN
    BY Zenon DEF TypeOK
  <2>2. /\ host' \in Hosts /\ unit' \in Active \cup Settled \cup {"stopWarming", "stopping"}
        /\ golden' \in {"old", "new"} /\ marker' \in {"none", "past", "now"}
    BY SMTT(20) DEF TypeOK, Hosts, Up, Active, Settled
  <2>3. /\ pc' \in {"start", "publish", "restart", "issued", "waiting", "done"}
        /\ state' \in {"other", "failed"} /\ result' \in {"none", "refused", "true", "false", "raised"}
        /\ faults' \in 0..MaxFaults
    BY RestartAssumption, SMTT(20) DEF RestartAssumption, TypeOK
  <2> QED
    BY <2>1, <2>2, <2>3 DEF TypeOK
<1>2. AskedInv'
  BY Zenon DEF AskedInv
<1>3. LifeInv'
  BY SMTT(20) DEF TypeOK, AskedInv, LifeInv, Up, Active, Settled
<1>4. HostInv'
  BY SMTT(20) DEF TypeOK, Hosts, HostInv, Up, Active, Settled
<1>5. PostureInv'
  BY Zenon DEF TypeOK, PostureInv
<1>6. StopInv'
  BY SMTT(20) DEF TypeOK, StopInv, Up, Active, Settled
<1>7. TrueIsWarm'
  BY SMTT(20) DEF TypeOK, LifeInv, AskedInv, TrueIsWarm
<1> QED
  BY <1>1, <1>2, <1>3, <1>4, <1>5, <1>6, <1>7

LEMMA StoppedKeeps == IInv /\ Stopped => IInv'
<1> SUFFICES ASSUME IInv, Stopped PROVE IInv'
  OBVIOUS
<1> USE DEF IInv, Stopped, Starts, StopExit, Runner, Ghosts
<1>1. TypeOK'
  BY RestartAssumption, SMTT(20) DEF RestartAssumption, TypeOK, Hosts, Up, Active, Settled
<1>2. AskedInv'
  BY SMTT(20) DEF TypeOK, AskedInv, Up, Active, Settled
<1>3. LifeInv'
  BY SMTT(20) DEF TypeOK, AskedInv, LifeInv, Up, Active, Settled
<1>4. HostInv'
  BY SMTT(20) DEF TypeOK, Hosts, HostInv, Up, Active, Settled
<1>5. PostureInv'
  BY SMTT(20) DEF TypeOK, Hosts, HostInv, PostureInv, Up, Active
<1>6. StopInv'
  BY SMTT(20) DEF TypeOK, StopInv, Up, Active, Settled
<1>7. TrueIsWarm'
  BY SMTT(20) DEF TypeOK, LifeInv, AskedInv, TrueIsWarm
<1> QED
  BY <1>1, <1>2, <1>3, <1>4, <1>5, <1>6, <1>7

LEMMA PreflightKeeps == IInv /\ Preflight => IInv'
<1> SUFFICES ASSUME IInv, Preflight PROVE IInv'
  OBVIOUS
<1> USE DEF IInv, Preflight, Unit, Ghosts, Runner
<1>1. TypeOK'
  BY RestartAssumption, SMTT(20) DEF RestartAssumption, TypeOK, Hosts, Up, Active, Settled
<1>2. AskedInv'
  BY SMTT(20) DEF TypeOK, AskedInv, Up, Active, Settled
<1>3. LifeInv'
  BY SMTT(20) DEF TypeOK, AskedInv, LifeInv, Up, Active, Settled
<1>4. HostInv'
  BY SMTT(20) DEF TypeOK, Hosts, HostInv, Up, Active, Settled
<1>5. PostureInv'
  BY SMTT(20) DEF TypeOK, Hosts, HostInv, PostureInv, Up, Active
<1>6. StopInv'
  BY SMTT(20) DEF TypeOK, StopInv, Up, Active, Settled
<1>7. TrueIsWarm'
  BY SMTT(20) DEF TypeOK, LifeInv, AskedInv, TrueIsWarm
<1> QED
  BY <1>1, <1>2, <1>3, <1>4, <1>5, <1>6, <1>7

LEMMA PublishedKeeps == IInv /\ Published => IInv'
<1> SUFFICES ASSUME IInv, Published PROVE IInv'
  OBVIOUS
<1> USE DEF IInv, Published, Ghosts, Runner
<1>1. TypeOK'
  BY RestartAssumption, SMTT(20) DEF RestartAssumption, TypeOK, Hosts, Up, Active, Settled
<1>2. AskedInv'
  BY SMTT(20) DEF TypeOK, AskedInv, Up, Active, Settled
<1>3. LifeInv'
  BY SMTT(20) DEF TypeOK, AskedInv, LifeInv, Up, Active, Settled
<1>4. HostInv'
  BY SMTT(20) DEF TypeOK, Hosts, HostInv, Up, Active, Settled
<1>5. PostureInv'
  BY SMTT(20) DEF TypeOK, Hosts, HostInv, PostureInv, Up, Active
<1>6. StopInv'
  BY SMTT(20) DEF TypeOK, StopInv, Up, Active, Settled
<1>7. TrueIsWarm'
  BY SMTT(20) DEF TypeOK, LifeInv, AskedInv, TrueIsWarm
<1> QED
  BY <1>1, <1>2, <1>3, <1>4, <1>5, <1>6, <1>7

LEMMA RestartKeeps == IInv /\ Restart => IInv'
<1> SUFFICES ASSUME IInv, Restart PROVE IInv'
  OBVIOUS
<1> USE DEF IInv, Restart, Starts, Ghosts, Runner
<1>1. TypeOK'
  <2>1. /\ asked' \in BOOLEAN /\ wanted' \in BOOLEAN
        /\ warmed' \in BOOLEAN /\ refused' \in BOOLEAN
    BY Zenon DEF TypeOK
  <2>2. /\ host' \in Hosts /\ unit' \in Active \cup Settled \cup {"stopWarming", "stopping"}
        /\ golden' \in {"old", "new"} /\ marker' \in {"none", "past", "now"}
    BY SMTT(20) DEF TypeOK, Hosts, Up, Active, Settled
  <2>3. /\ pc' \in {"start", "publish", "restart", "issued", "waiting", "done"}
        /\ state' \in {"other", "failed"} /\ result' \in {"none", "refused", "true", "false", "raised"}
        /\ faults' \in 0..MaxFaults
    BY RestartAssumption, SMTT(20) DEF RestartAssumption, TypeOK
  <2> QED
    BY <2>1, <2>2, <2>3 DEF TypeOK
<1>2. AskedInv'
  <2>1. asked' => \/ asked \/ pc' = "issued"
    BY Zenon
  <2> QED
    BY <2>1, Zenon DEF AskedInv, Up
<1>3. LifeInv'
  BY SMTT(20) DEF TypeOK, AskedInv, LifeInv, Up, Active, Settled
<1>4. HostInv'
  BY SMTT(20) DEF TypeOK, Hosts, HostInv, Up, Active, Settled
<1>5. PostureInv'
  BY SMTT(20) DEF TypeOK, Hosts, HostInv, PostureInv, Up, Active
<1>6. StopInv'
  BY SMTT(20) DEF TypeOK, StopInv, Up, Active, Settled
<1>7. TrueIsWarm'
  BY SMTT(20) DEF TypeOK, LifeInv, AskedInv, TrueIsWarm
<1> QED
  BY <1>1, <1>2, <1>3, <1>4, <1>5, <1>6, <1>7

LEMMA JobFailsKeeps == IInv /\ JobFails => IInv'
<1> SUFFICES ASSUME IInv, JobFails PROVE IInv'
  OBVIOUS
<1> USE DEF IInv, JobFails, Ends, Ghosts, Runner
<1>1. TypeOK'
  <2>1. /\ asked' \in BOOLEAN /\ wanted' \in BOOLEAN
        /\ warmed' \in BOOLEAN /\ refused' \in BOOLEAN
    BY Zenon DEF TypeOK
  <2>2. /\ host' \in Hosts /\ unit' \in Active \cup Settled \cup {"stopWarming", "stopping"}
        /\ golden' \in {"old", "new"} /\ marker' \in {"none", "past", "now"}
    <3>1. unit' \in {unit, "failed"}
      BY Zenon
    <3> QED
      BY <3>1, Zenon DEF TypeOK, Settled
  <2>3. /\ pc' \in {"start", "publish", "restart", "issued", "waiting", "done"}
        /\ state' \in {"other", "failed"} /\ result' \in {"none", "refused", "true", "false", "raised"}
        /\ faults' \in 0..MaxFaults
    BY RestartAssumption, SMTT(20) DEF RestartAssumption, TypeOK
  <2> QED
    BY <2>1, <2>2, <2>3 DEF TypeOK
<1>2. AskedInv'
  BY SMTT(20) DEF TypeOK, AskedInv, Up, Active, Settled
<1>3. LifeInv'
  BY SMTT(20) DEF TypeOK, AskedInv, LifeInv, Up, Active, Settled
<1>4. HostInv'
  BY SMTT(20) DEF TypeOK, Hosts, HostInv, Up, Active, Settled
<1>5. PostureInv'
  BY Zenon DEF TypeOK, PostureInv
<1>6. StopInv'
  BY SMTT(20) DEF TypeOK, StopInv, Up, Active, Settled
<1>7. TrueIsWarm'
  BY SMTT(20) DEF TypeOK, LifeInv, AskedInv, TrueIsWarm
<1> QED
  BY <1>1, <1>2, <1>3, <1>4, <1>5, <1>6, <1>7

LEMMA IsActiveKeeps == IInv /\ IsActive => IInv'
<1> SUFFICES ASSUME IInv, IsActive PROVE IInv'
  OBVIOUS
<1> USE DEF IInv, IsActive, Ends, Unit, Ghosts, Runner
<1>1. TypeOK'
  BY RestartAssumption, SMTT(20) DEF RestartAssumption, TypeOK, Hosts, Up, Active, Settled
<1>2. AskedInv'
  BY SMTT(20) DEF TypeOK, AskedInv, Up, Active, Settled
<1>3. LifeInv'
  BY SMTT(20) DEF TypeOK, AskedInv, LifeInv, Up, Active, Settled
<1>4. HostInv'
  BY SMTT(20) DEF TypeOK, Hosts, HostInv, Up, Active, Settled
<1>5. PostureInv'
  BY Zenon DEF TypeOK, PostureInv
<1>6. StopInv'
  BY SMTT(20) DEF TypeOK, StopInv, Up, Active, Settled
<1>7. TrueIsWarm'
  BY SMTT(20) DEF TypeOK, LifeInv, AskedInv, TrueIsWarm
<1> QED
  BY <1>1, <1>2, <1>3, <1>4, <1>5, <1>6, <1>7

LEMMA SeesKeeps == IInv /\ Sees => IInv'
<1> SUFFICES ASSUME IInv, Sees PROVE IInv'
  OBVIOUS
<1> USE DEF IInv, Sees, Ends, Unit, Ghosts, Runner
<1>1. TypeOK'
  BY RestartAssumption, SMTT(20) DEF RestartAssumption, TypeOK, Hosts, Up, Active, Settled
<1>2. AskedInv'
  BY SMTT(20) DEF TypeOK, AskedInv, Up, Active, Settled
<1>3. LifeInv'
  BY SMTT(20) DEF TypeOK, AskedInv, LifeInv, Up, Active, Settled
<1>4. HostInv'
  BY SMTT(20) DEF TypeOK, Hosts, HostInv, Up, Active, Settled
<1>5. PostureInv'
  BY Zenon DEF TypeOK, PostureInv
<1>6. StopInv'
  BY SMTT(20) DEF TypeOK, StopInv, Up, Active, Settled
<1>7. TrueIsWarm'
  BY SMTT(20) DEF TypeOK, LifeInv, AskedInv, TrueIsWarm
<1> QED
  BY <1>1, <1>2, <1>3, <1>4, <1>5, <1>6, <1>7

LEMMA GivesUpKeeps == IInv /\ GivesUp => IInv'
<1> SUFFICES ASSUME IInv, GivesUp PROVE IInv'
  OBVIOUS
<1> USE DEF IInv, GivesUp, Ends, Unit, Ghosts, Runner
<1>1. TypeOK'
  BY RestartAssumption, SMTT(20) DEF RestartAssumption, TypeOK, Hosts, Up, Active, Settled
<1>2. AskedInv'
  BY SMTT(20) DEF TypeOK, AskedInv, Up, Active, Settled
<1>3. LifeInv'
  BY SMTT(20) DEF TypeOK, AskedInv, LifeInv, Up, Active, Settled
<1>4. HostInv'
  BY SMTT(20) DEF TypeOK, Hosts, HostInv, Up, Active, Settled
<1>5. PostureInv'
  BY Zenon DEF TypeOK, PostureInv
<1>6. StopInv'
  BY SMTT(20) DEF TypeOK, StopInv, Up, Active, Settled
<1>7. TrueIsWarm'
  BY SMTT(20) DEF TypeOK, LifeInv, AskedInv, TrueIsWarm
<1> QED
  BY <1>1, <1>2, <1>3, <1>4, <1>5, <1>6, <1>7

LEMMA AgainKeeps == IInv /\ Again => IInv'
<1> SUFFICES ASSUME IInv, Again PROVE IInv'
  OBVIOUS
<1> USE DEF IInv, Again, Runner, Ghosts
<1>1. TypeOK'
  <2>1. /\ asked' \in BOOLEAN /\ wanted' \in BOOLEAN
        /\ warmed' \in BOOLEAN /\ refused' \in BOOLEAN
    BY Zenon DEF TypeOK
  <2>2. /\ host' \in Hosts /\ unit' \in Active \cup Settled \cup {"stopWarming", "stopping"}
        /\ golden' \in {"old", "new"} /\ marker' \in {"none", "past", "now"}
    BY SMTT(20) DEF TypeOK, Hosts, Up, Active, Settled
  <2>3. /\ pc' \in {"start", "publish", "restart", "issued", "waiting", "done"}
        /\ state' \in {"other", "failed"} /\ result' \in {"none", "refused", "true", "false", "raised"}
        /\ faults' \in 0..MaxFaults
    BY RestartAssumption, SMTT(20) DEF RestartAssumption, TypeOK
  <2> QED
    BY <2>1, <2>2, <2>3 DEF TypeOK
<1>2. AskedInv'
  BY SMTT(20) DEF TypeOK, AskedInv, Up, Active, Settled
<1>3. LifeInv'
  BY SMTT(20) DEF TypeOK, AskedInv, LifeInv, Up, Active, Settled
<1>4. HostInv'
  BY SMTT(20) DEF TypeOK, Hosts, HostInv, Up, Active, Settled
<1>5. PostureInv'
  BY SMTT(20) DEF TypeOK, Hosts, HostInv, PostureInv, Up, Active
<1>6. StopInv'
  BY SMTT(20) DEF TypeOK, StopInv, Up, Active, Settled
<1>7. TrueIsWarm'
  BY SMTT(20) DEF TypeOK, LifeInv, AskedInv, TrueIsWarm
<1> QED
  BY <1>1, <1>2, <1>3, <1>4, <1>5, <1>6, <1>7

-----------------------------------------------------------------------------
(* The results *)

LEMMA StepInv == IInv /\ [Next]_vars => IInv'
<1> SUFFICES ASSUME IInv, [Next]_vars PROVE IInv'
  OBVIOUS
<1>1. CASE Manager
  BY <1>1, PreStartKeeps, CheckKeeps, WarmKeeps, DiesKeeps, AutoRestartKeeps, OperatorStopsKeeps, StoppedKeeps, Zenon
     DEF Manager
<1>2. CASE Rotator
  BY <1>2, PreflightKeeps, PublishedKeeps, RestartKeeps, JobFailsKeeps, IsActiveKeeps, SeesKeeps, GivesUpKeeps,
     AgainKeeps, Zenon DEF Rotator
<1>3. CASE UNCHANGED vars
  <2>1. /\ host' = host /\ unit' = unit /\ golden' = golden /\ marker' = marker /\ asked' = asked
        /\ wanted' = wanted /\ pc' = pc /\ state' = state /\ result' = result /\ warmed' = warmed
        /\ refused' = refused /\ faults' = faults
    BY <1>3, Zenon DEF vars
  <2>2. TypeOK'
    <3>1. asked' \in BOOLEAN /\ wanted' \in BOOLEAN /\ warmed' \in BOOLEAN /\ refused' \in BOOLEAN
      BY <2>1, Zenon DEF IInv, TypeOK
    <3>2. /\ host' \in Hosts /\ unit' \in Active \cup Settled \cup {"stopWarming", "stopping"}
          /\ golden' \in {"old", "new"} /\ marker' \in {"none", "past", "now"} /\ faults' \in 0..MaxFaults
      BY <2>1, SMT DEF IInv, TypeOK
    <3>3. /\ pc' \in {"start", "publish", "restart", "issued", "waiting", "done"}
          /\ state' \in {"other", "failed"} /\ result' \in {"none", "refused", "true", "false", "raised"}
      BY <2>1, SMT DEF IInv, TypeOK
    <3> QED
      BY <3>1, <3>2, <3>3 DEF TypeOK
  <2>3. HostInv'
    BY <2>1, Zenon DEF IInv, HostInv
  <2>4. AskedInv' /\ LifeInv'
    BY <2>1, Zenon DEF IInv, AskedInv, LifeInv
  <2>5. PostureInv'
    BY <2>1, Zenon DEF IInv, PostureInv
  <2>6. StopInv' /\ TrueIsWarm'
    BY <2>1, Zenon DEF IInv, StopInv, TrueIsWarm
  <2> QED
    BY <2>2, <2>3, <2>4, <2>5, <2>6 DEF IInv
<1> QED
  BY <1>1, <1>2, <1>3 DEF Next

\* The inductive invariant holds in every reachable state, for any number of failures.
THEOREM RestartInvariance == Spec => []IInv
<1>1. Init => IInv
  BY InitInv
<1>2. IInv /\ [Next]_vars => IInv'
  BY StepInv
<1> QED
  BY <1>1, <1>2, PTL DEF Spec

\* Every variable keeps its type.
THEOREM RestartTypes == Spec => []TypeOK
<1>1. IInv => TypeOK
  BY DEF IInv
<1> QED
  BY <1>1, RestartInvariance, PTL

\* restart_pool says "in service" of no golden that is not: the marker it saw was written by
\* a life that booted from the promoted one.
THEOREM ServiceIsTrue == Spec => []TrueIsWarm
<1>1. IInv => TrueIsWarm
  BY DEF IInv
<1> QED
  BY <1>1, RestartInvariance, PTL

\* The manager never refuses a posture the rotation preflight let through.
THEOREM PosturesAgree == Spec => []PostureAgrees
<1>1. IInv => PostureAgrees
  BY Zenon DEF IInv, PostureInv, PostureAgrees
<1> QED
  BY <1>1, RestartInvariance, PTL

LEMMA StoppedStep ==
  IInv /\ [Next]_vars => (~wanted /\ unit \in Settled => unit' = unit)
<1> SUFFICES ASSUME IInv, [Next]_vars, ~wanted, unit \in Settled PROVE unit' = unit
  OBVIOUS
<1>1. unit = "inactive" /\ ~asked /\ ~(pc = "restart" /\ state = "failed")
  BY Zenon DEF IInv, StopInv, Settled
<1>2. CASE Manager
  BY <1>1, <1>2 DEF Manager, PreStart, Check, Warm, Dies, AutoRestart, OperatorStops, Stopped, Up
<1>3. CASE Restart
  BY <1>1, <1>3, Zenon DEF Restart, Up
<1>4. CASE JobFails
  BY <1>1, <1>4, Zenon DEF JobFails
<1>5. CASE Preflight \/ Published \/ IsActive \/ Sees \/ GivesUp \/ Again
  BY <1>5, Zenon DEF Preflight, Published, IsActive, Sees, GivesUp, Again, Unit
<1>6. CASE UNCHANGED vars
  BY <1>6, Zenon DEF vars
<1> QED
  BY <1>2, <1>3, <1>4, <1>5, <1>6 DEF Next, Rotator

\* No restart job and no auto-restart brings back a manager its operator stopped.
THEOREM StoppedStaysDown == Spec => StoppedStays
<1>1. IInv /\ [Next]_vars => [~wanted /\ unit \in Settled => unit' = unit]_vars
  BY StoppedStep
<1> QED
  BY <1>1, RestartInvariance, PTL DEF Spec, StoppedStays
=============================================================================
