-------------------------- MODULE JobPipelineProofs --------------------------
(***************************************************************************)
(* Proofs about JobPipeline, for every set of jobs, managers and claim     *)
(* threads, for one manager or several, and for any number of faults.      *)
(***************************************************************************)
EXTENDS JobPipeline, TLAPS

USE ConstantsAssumption

\* A step counts at most one environment failure, within the bound.
LEMMA FaultBound ==
  ASSUME FaultsOK, Fault \/ UNCHANGED faults
  PROVE  FaultsOK'
BY DEF Fault, FaultsOK, ConstantsAssumption

\* Every step counts at most one failure.
LEMMA FaultStep == [Next]_vars => Fault \/ UNCHANGED faults
<1> SUFFICES ASSUME Next PROVE Fault \/ UNCHANGED faults
  BY DEF vars
<1>1. ASSUME NEW j \in Jobs, SpoolChanges(j) \/ AgeDir(j) \/ AgeFinish(j) \/ Spool(j) \/ RequestStep(j)
      PROVE  Fault \/ UNCHANGED faults
  BY <1>1 DEF SpoolChanges, AgeDir, AgeFinish, Spool, RequestStep, SpoolEnds, Create, Ask, StoreCall
<1>2. CASE IngressKilled
  BY <1>2 DEF IngressKilled
<1>3. ASSUME NEW m \in Managers, \/ Start(m) \/ Refuse(m) \/ ManagerStep(m) \/ Sigterm(m) \/ Killed(m)
                                 \/ SweepGet(m) \/ SweepRemove(m)
      PROVE  Fault \/ UNCHANGED faults
  BY <1>3 DEF Start, Refuse, ManagerStep, Sigterm, Killed, SweepGet, SweepRemove, ListOrphans, RecoverRow,
              RecoverUnlink, RecoverEnd, Warm, WarmEnds, Exit, StoreCall
<1>4. ASSUME NEW m \in Managers, NEW j \in Jobs, SweepStat(m, j) \/ SweepScratch(m, j)
      PROVE  Fault \/ UNCHANGED faults
  BY <1>4 DEF SweepStat, SweepScratch
<1>5. ASSUME NEW t \in Threads, Claim(t) \/ ProcessStep(t) PROVE Fault \/ UNCHANGED faults
  BY <1>5 DEF Claim, ProcessStep, ReadInput, Validate, Record, Publish, RecordFailure, Close, StoreCall
<1>. QED
  BY <1>1, <1>2, <1>3, <1>4, <1>5 DEF Next

\* Actions that leave what the claim threads are at alone.
LEMMA ThreadsUntouched ==
  ASSUME \/ \E j \in Jobs : SpoolChanges(j) \/ AgeDir(j) \/ AgeFinish(j) \/ Spool(j) \/ RequestStep(j)
         \/ IngressKilled
         \/ \E m \in Managers : Start(m) \/ Refuse(m) \/ ManagerStep(m) \/ Sigterm(m) \/ SweepGet(m) \/ SweepRemove(m)
         \/ \E m \in Managers, j \in Jobs : SweepStat(m, j) \/ SweepScratch(m, j)
  PROVE  UNCHANGED procVars
BY DEF SpoolChanges, AgeDir, AgeFinish, Spool, RequestStep, SpoolEnds, Create, Ask, IngressKilled,
       Start, Refuse, ManagerStep, Sigterm, SweepGet, SweepRemove, ListOrphans, RecoverRow,
       RecoverUnlink, RecoverEnd, Warm, WarmEnds, Exit, SweepStat, SweepScratch, procVars

\* A thread at work has a job in hand.
LEMMA InHandStep ==
  ASSUME pc \in [Threads -> {"idle", "read", "validate", "record", "publish", "fail", "close"}],
         cur \in [Threads -> Jobs \cup {NoJob}],
         InHandOK, [Next]_vars
  PROVE  InHandOK'
<1> USE DEF InHandOK, Working
<1>1. CASE UNCHANGED <<pc, cur>>
  BY <1>1
<1>2. ASSUME NEW m \in Managers, Killed(m) PROVE InHandOK'
  BY <1>2 DEF Killed
<1>3. ASSUME NEW t \in Threads, Claim(t) PROVE InHandOK'
  BY <1>3 DEF Claim
<1>4. ASSUME NEW t \in Threads, ProcessStep(t) PROVE InHandOK'
  BY <1>4 DEF ProcessStep, ReadInput, Validate, Record, Publish, RecordFailure, Close
<1>5. CASE UNCHANGED vars
  BY <1>1, <1>5 DEF vars, procVars
<1>. QED
  BY <1>1, <1>2, <1>3, <1>4, <1>5, ThreadsUntouched DEF Next, procVars

\* Type correctness of one step.
LEMMA TypeStep == TypeOK /\ [Next]_vars => TypeOK'
<1> SUFFICES ASSUME TypeOK, [Next]_vars PROVE TypeOK'
  OBVIOUS
<1>0. FaultsOK'
  BY FaultStep, FaultBound DEF TypeOK
<1>00. InHandOK'
  BY InHandStep DEF TypeOK
<1> USE <1>0, <1>00 DEF TypeOK, Judged, Aborted, Terminal, Live, InFlight, Sweeping,
            storeVars, fsVars, runVars, sweepVars, procVars
<1>1. ASSUME NEW j \in Jobs, SpoolChanges(j) \/ AgeDir(j) \/ AgeFinish(j) PROVE TypeOK'
  BY <1>1 DEF SpoolChanges, AgeDir, AgeFinish
<1>2. ASSUME NEW j \in Jobs, Spool(j) PROVE TypeOK'
  BY <1>2 DEF Spool
<1>3. ASSUME NEW j \in Jobs, SpoolEnds(j) PROVE TypeOK'
  <2>1. (req \in [Jobs -> {"none", "accepted", "committed", "refused"} \cup InFlight])'
    BY <1>3 DEF SpoolEnds, RemoveSpool
  <2>2. (dir \in [Jobs -> {"none", "young", "old"}])'
    BY <1>3 DEF SpoolEnds, RemoveSpool
  <2>3. (spool \in [Jobs -> {"absent", "partial", "ok", "changed"}])'
    BY <1>3 DEF SpoolEnds, RemoveSpool
  <2>4. UNCHANGED <<row, claim, recent, out, scratch, mgr, stop, todo, drop, swpc, swjob, 
                      pc, cur, res, opened, recorded, seen>>
    BY <1>3 DEF SpoolEnds, RemoveSpool
  <2>. QED
    BY <2>1, <2>2, <2>3, <2>4
<1>4. ASSUME NEW j \in Jobs, Create(j) PROVE TypeOK'
  <2>1. (req \in [Jobs -> {"none", "accepted", "committed", "refused"} \cup InFlight])'
    BY <1>4 DEF Create
  <2>2. (row \in [Jobs -> {"none"} \cup Live \cup Terminal])'
    BY <1>4 DEF Create
  <2>3. UNCHANGED <<claim, recent, dir, spool, out, scratch, mgr, stop, todo, drop, swpc, 
                      swjob, pc, cur, res, opened, recorded, seen>>
    BY <1>4 DEF Create
  <2>. QED
    BY <2>1, <2>2, <2>3
<1>5. ASSUME NEW j \in Jobs, Ask(j) PROVE TypeOK'
  <2>1. (req \in [Jobs -> {"none", "accepted", "committed", "refused"} \cup InFlight])'
    BY <1>5 DEF Ask, RemoveSpool
  <2>2. (dir \in [Jobs -> {"none", "young", "old"}])'
    BY <1>5 DEF Ask, RemoveSpool
  <2>3. (spool \in [Jobs -> {"absent", "partial", "ok", "changed"}])'
    BY <1>5 DEF Ask, RemoveSpool
  <2>4. UNCHANGED <<row, claim, recent, out, scratch, mgr, stop, todo, drop, swpc, swjob, 
                      pc, cur, res, opened, recorded, seen>>
    BY <1>5 DEF Ask, RemoveSpool
  <2>. QED
    BY <2>1, <2>2, <2>3, <2>4
<1>6. CASE IngressKilled
  BY <1>6 DEF IngressKilled
<1>7. ASSUME NEW m \in Managers, Start(m) \/ Refuse(m) \/ Sigterm(m) PROVE TypeOK'
  <2>1. (mgr \in [Managers -> {"down", "checking", "recovering"} \cup Sweeping])'
    BY <1>7 DEF Start, Refuse, Sigterm
  <2>2. (stop \subseteq Managers)'
    BY <1>7 DEF Start, Refuse, Sigterm
  <2>3. UNCHANGED <<req, row, claim, recent, dir, spool, out, scratch, todo, drop, swpc, 
                      swjob, pc, cur, res, opened, recorded, seen>>
    BY <1>7 DEF Start, Refuse, Sigterm
  <2>. QED
    BY <2>1, <2>2, <2>3
<1>8. ASSUME NEW m \in Managers, ListOrphans(m) PROVE TypeOK'
  BY <1>8 DEF ListOrphans
<1>9. ASSUME NEW m \in Managers, NEW j \in Jobs, RecoverRow(m, j) PROVE TypeOK'
  <2>1. (row \in [Jobs -> {"none"} \cup Live \cup Terminal])'
    BY <1>9 DEF RecoverRow, CasWrite
  <2>2. (recent \subseteq Jobs)'
    BY <1>9 DEF RecoverRow, CasWrite
  <2>3. (todo \in [Managers -> SUBSET Jobs])'
    BY <1>9 DEF RecoverRow, CasWrite
  <2>4. (drop \in [Managers -> Jobs \cup {NoJob}])'
    BY <1>9 DEF RecoverRow, CasWrite
  <2>5. UNCHANGED <<req, claim, dir, spool, out, scratch, mgr, stop, swpc, swjob, pc, cur, 
                      res, opened, recorded, seen>>
    BY <1>9 DEF RecoverRow, CasWrite
  <2>. QED
    BY <2>1, <2>2, <2>3, <2>4, <2>5
<1>10. ASSUME NEW m \in Managers, RecoverUnlink(m) PROVE TypeOK'
  <2>1. (spool \in [Jobs -> {"absent", "partial", "ok", "changed"}])'
    BY <1>10 DEF RecoverUnlink
  <2>2. (drop \in [Managers -> Jobs \cup {NoJob}])'
    BY <1>10 DEF RecoverUnlink
  <2>3. UNCHANGED <<req, row, claim, recent, dir, out, scratch, mgr, stop, todo, swpc, 
                      swjob, pc, cur, res, opened, recorded, seen>>
    BY <1>10 DEF RecoverUnlink
  <2>. QED
    BY <2>1, <2>2, <2>3
<1>11. ASSUME NEW m \in Managers, RecoverEnd(m) \/ Warm(m) PROVE TypeOK'
  BY <1>11 DEF RecoverEnd, Warm
<1>12. ASSUME NEW m \in Managers, WarmEnds(m) \/ Exit(m) PROVE TypeOK'
  <2>1. (mgr \in [Managers -> {"down", "checking", "recovering"} \cup Sweeping])'
    BY <1>12 DEF WarmEnds, Exit, Gone
  <2>2. (todo \in [Managers -> SUBSET Jobs])'
    BY <1>12 DEF WarmEnds, Exit, Gone
  <2>3. (drop \in [Managers -> Jobs \cup {NoJob}])'
    BY <1>12 DEF WarmEnds, Exit, Gone
  <2>4. (swpc \in [Managers -> {"idle", "get", "remove"}])'
    BY <1>12 DEF WarmEnds, Exit, Gone
  <2>5. (swjob \in [Managers -> Jobs \cup {NoJob}])'
    BY <1>12 DEF WarmEnds, Exit, Gone
  <2>6. UNCHANGED <<req, row, claim, recent, dir, spool, out, scratch, stop, pc, cur, res, 
                      opened, recorded, seen>>
    BY <1>12 DEF WarmEnds, Exit, Gone
  <2>. QED
    BY <2>1, <2>2, <2>3, <2>4, <2>5, <2>6
<1>13. ASSUME NEW m \in Managers, Killed(m) PROVE TypeOK'
  <2>1. (mgr \in [Managers -> {"down", "checking", "recovering"} \cup Sweeping])'
    BY <1>13 DEF Killed, Gone
  <2>2. (todo \in [Managers -> SUBSET Jobs])'
    BY <1>13 DEF Killed, Gone
  <2>3. (drop \in [Managers -> Jobs \cup {NoJob}])'
    BY <1>13 DEF Killed, Gone
  <2>4. (swpc \in [Managers -> {"idle", "get", "remove"}])'
    BY <1>13 DEF Killed, Gone
  <2>5. (swjob \in [Managers -> Jobs \cup {NoJob}])'
    BY <1>13 DEF Killed, Gone
  <2>6. (pc \in [Threads -> {"idle", "read", "validate", "record", "publish", "fail", "close"}])'
    BY <1>13 DEF Killed, Gone
  <2>7. (cur \in [Threads -> Jobs \cup {NoJob}])'
    BY <1>13 DEF Killed, Gone
  <2>8. UNCHANGED <<req, row, claim, recent, dir, spool, out, scratch, stop, res, opened, 
                      recorded, seen>>
    BY <1>13 DEF Killed, Gone
  <2>. QED
    BY <2>1, <2>2, <2>3, <2>4, <2>5, <2>6, <2>7, <2>8
<1>14. ASSUME NEW t \in Threads, Claim(t) PROVE TypeOK'
  <2>1. (row \in [Jobs -> {"none"} \cup Live \cup Terminal])'
    BY <1>14 DEF Claim
  <2>2. (claim \in [Jobs -> Threads \cup {NoThread}])'
    BY <1>14 DEF Claim
  <2>3. (pc \in [Threads -> {"idle", "read", "validate", "record", "publish", "fail", "close"}])'
    BY <1>14 DEF Claim
  <2>4. (cur \in [Threads -> Jobs \cup {NoJob}])'
    BY <1>14 DEF Claim
  <2>5. (opened \subseteq Threads)'
    BY <1>14 DEF Claim
  <2>6. (recorded \subseteq Threads)'
    BY <1>14 DEF Claim
  <2>7. UNCHANGED <<req, recent, dir, spool, out, scratch, mgr, stop, todo, drop, swpc, 
                      swjob, res, seen>>
    BY <1>14 DEF Claim
  <2>. QED
    BY <2>1, <2>2, <2>3, <2>4, <2>5, <2>6, <2>7
<1>15. ASSUME NEW t \in Threads, ReadInput(t) PROVE TypeOK'
  <2>a. cur[t] \in Jobs
    BY <1>15 DEF ReadInput, InHandOK, Working
  <2>1. (pc \in [Threads -> {"idle", "read", "validate", "record", "publish", "fail", "close"}])'
    BY <1>15 DEF ReadInput
  <2>2. (res \in [Threads -> Terminal])'
    BY <1>15 DEF ReadInput
  <2>3. (opened \subseteq Threads)'
    BY <1>15 DEF ReadInput
  <2>4. (scratch \subseteq Jobs)'
    BY <2>a, <1>15 DEF ReadInput
  <2>5. (seen \subseteq Jobs)'
    BY <2>a, <1>15 DEF ReadInput
  <2>6. UNCHANGED <<req, row, claim, recent, dir, spool, out, mgr, stop, todo, drop, swpc, 
                      swjob, cur, recorded>>
    BY <1>15 DEF ReadInput
  <2>. QED
    BY <2>1, <2>2, <2>3, <2>4, <2>5, <2>6
<1>16. ASSUME NEW t \in Threads, Validate(t) PROVE TypeOK'
  <2>1. (pc \in [Threads -> {"idle", "read", "validate", "record", "publish", "fail", "close"}])'
    BY <1>16 DEF Validate
  <2>2. (res \in [Threads -> Terminal])'
    BY <1>16 DEF Validate
  <2>3. UNCHANGED <<req, row, claim, recent, dir, spool, out, scratch, mgr, stop, todo, 
                      drop, swpc, swjob, cur, opened, recorded, seen>>
    BY <1>16 DEF Validate
  <2>. QED
    BY <2>1, <2>2, <2>3
<1>17. ASSUME NEW t \in Threads, Record(t) PROVE TypeOK'
  <2>a. cur[t] \in Jobs
    BY <1>17 DEF Record, InHandOK, Working
  <2>1. (row \in [Jobs -> {"none"} \cup Live \cup Terminal])'
    BY <1>17 DEF Record, CasWrite
  <2>2. (recent \subseteq Jobs)'
    BY <2>a, <1>17 DEF Record, CasWrite
  <2>3. (recorded \subseteq Threads)'
    BY <1>17 DEF Record, CasWrite
  <2>4. (pc \in [Threads -> {"idle", "read", "validate", "record", "publish", "fail", "close"}])'
    BY <1>17 DEF Record, CasWrite
  <2>5. (res \in [Threads -> Terminal])'
    BY <1>17 DEF Record, CasWrite
  <2>6. UNCHANGED <<req, claim, dir, spool, out, scratch, mgr, stop, todo, drop, swpc, 
                      swjob, cur, opened, seen>>
    BY <1>17 DEF Record, CasWrite
  <2>. QED
    BY <2>1, <2>2, <2>3, <2>4, <2>5, <2>6
<1>18. ASSUME NEW t \in Threads, Publish(t) PROVE TypeOK'
  <2>1. (pc \in [Threads -> {"idle", "read", "validate", "record", "publish", "fail", "close"}])'
    BY <1>18 DEF Publish
  <2>2. (out \in [Jobs -> {"none", "partial", "full"}])'
    BY <1>18 DEF Publish
  <2>3. (dir \in [Jobs -> {"none", "young", "old"}])'
    BY <1>18 DEF Publish
  <2>4. UNCHANGED <<req, row, claim, recent, spool, scratch, mgr, stop, todo, drop, swpc, 
                      swjob, cur, res, opened, recorded, seen>>
    BY <1>18 DEF Publish
  <2>. QED
    BY <2>1, <2>2, <2>3, <2>4
<1>19. ASSUME NEW t \in Threads, RecordFailure(t) PROVE TypeOK'
  <2>a. cur[t] \in Jobs
    BY <1>19 DEF RecordFailure, InHandOK, Working
  <2>1. (row \in [Jobs -> {"none"} \cup Live \cup Terminal])'
    BY <1>19 DEF RecordFailure, CasWrite
  <2>2. (recent \subseteq Jobs)'
    BY <2>a, <1>19 DEF RecordFailure, CasWrite
  <2>3. (recorded \subseteq Threads)'
    BY <1>19 DEF RecordFailure, CasWrite
  <2>4. (pc \in [Threads -> {"idle", "read", "validate", "record", "publish", "fail", "close"}])'
    BY <1>19 DEF RecordFailure, CasWrite
  <2>5. UNCHANGED <<req, claim, dir, spool, out, scratch, mgr, stop, todo, drop, swpc, 
                      swjob, cur, res, opened, seen>>
    BY <1>19 DEF RecordFailure, CasWrite
  <2>. QED
    BY <2>1, <2>2, <2>3, <2>4, <2>5
<1>20. ASSUME NEW t \in Threads, Close(t) PROVE TypeOK'
  <2>1. (spool \in [Jobs -> {"absent", "partial", "ok", "changed"}])'
    BY <1>20 DEF Close
  <2>2. (scratch \subseteq Jobs)'
    BY <1>20 DEF Close
  <2>3. (pc \in [Threads -> {"idle", "read", "validate", "record", "publish", "fail", "close"}])'
    BY <1>20 DEF Close
  <2>4. (cur \in [Threads -> Jobs \cup {NoJob}])'
    BY <1>20 DEF Close
  <2>5. UNCHANGED <<req, row, claim, recent, dir, out, mgr, stop, todo, drop, swpc, swjob, 
                      res, opened, recorded, seen>>
    BY <1>20 DEF Close
  <2>. QED
    BY <2>1, <2>2, <2>3, <2>4, <2>5
<1>21. ASSUME NEW m \in Managers, NEW j \in Jobs, SweepStat(m, j) \/ SweepScratch(m, j) PROVE TypeOK'
  BY <1>21 DEF SweepStat, SweepScratch
<1>22. ASSUME NEW m \in Managers, SweepGet(m) PROVE TypeOK'
  BY <1>22 DEF SweepGet
<1>24. ASSUME NEW m \in Managers, SweepRemove(m) PROVE TypeOK'
  <2>1. (spool \in [Jobs -> {"absent", "partial", "ok", "changed"}])'
    BY <1>24 DEF SweepRemove
  <2>2. (out \in [Jobs -> {"none", "partial", "full"}])'
    BY <1>24 DEF SweepRemove
  <2>3. (dir \in [Jobs -> {"none", "young", "old"}])'
    BY <1>24 DEF SweepRemove
  <2>4. (swpc \in [Managers -> {"idle", "get", "remove"}])'
    BY <1>24 DEF SweepRemove
  <2>5. (swjob \in [Managers -> Jobs \cup {NoJob}])'
    BY <1>24 DEF SweepRemove
  <2>6. UNCHANGED <<req, row, claim, recent, scratch, mgr, stop, todo, drop, pc, cur, res, 
                      opened, recorded, seen>>
    BY <1>24 DEF SweepRemove
  <2>. QED
    BY <2>1, <2>2, <2>3, <2>4, <2>5, <2>6
<1>23. CASE UNCHANGED vars
  BY <1>23 DEF vars
<1>. QED
  BY <1>1, <1>2, <1>3, <1>4, <1>5, <1>6, <1>7, <1>8, <1>9, <1>10, <1>11, <1>12, <1>13, <1>14, <1>15,
     <1>16, <1>17, <1>18, <1>19, <1>20, <1>21, <1>22, <1>23, <1>24
  DEF Next, RequestStep, ManagerStep, ProcessStep

-----------------------------------------------------------------------------
(* The inductive invariant, part by part *)

\* A request makes its row once, after its spool is complete; only settled requests age.
LEMMA RequestStepInv ==
  ASSUME TypeOK, RequestInv, ThreadInv, RecoverInv, SweepInv, [Next]_vars
  PROVE  RequestInv'
<1> USE DEF TypeOK, InFlight, Live, Terminal, Judged, Aborted, Working, Settled, RequestInv,
           ThreadInv, RecoverInv, SweepInv, InHandOK
<1>1. ASSUME NEW j \in Jobs, SpoolChanges(j) PROVE RequestInv'
  BY <1>1 DEF SpoolChanges, storeVars, fsVars, runVars, sweepVars, procVars
<1>2. ASSUME NEW j \in Jobs, AgeDir(j) PROVE RequestInv'
  BY <1>2 DEF AgeDir, storeVars, fsVars, runVars, sweepVars, procVars
<1>3. ASSUME NEW j \in Jobs, Spool(j) PROVE RequestInv'
  BY <1>3 DEF Spool, storeVars, fsVars, runVars, sweepVars, procVars
<1>4. ASSUME NEW j \in Jobs, SpoolEnds(j) PROVE RequestInv'
  <2>1. CASE RemoveSpool(j) /\ req' = [req EXCEPT ![j] = "refused"]
    BY <1>4, <2>1 DEF SpoolEnds, RemoveSpool, storeVars
  <2>2. CASE spool' = [spool EXCEPT ![j] = "ok"] /\ req' = [req EXCEPT ![j] = "creating"] /\ UNCHANGED dir
    BY <1>4, <2>2 DEF SpoolEnds, storeVars
  <2>. QED
    BY <1>4, <2>1, <2>2 DEF SpoolEnds
<1>5. ASSUME NEW j \in Jobs, Create(j) PROVE RequestInv'
  BY <1>5 DEF Create, storeVars, fsVars, runVars, sweepVars, procVars
<1>6. ASSUME NEW j \in Jobs, Ask(j) PROVE RequestInv'
  BY <1>6 DEF Ask, RemoveSpool, storeVars, fsVars, runVars, sweepVars, procVars
<1>7. CASE IngressKilled
  BY <1>7 DEF IngressKilled, storeVars, fsVars, runVars, sweepVars, procVars
<1>8. ASSUME NEW m \in Managers, NEW j \in Jobs, RecoverRow(m, j) PROVE RequestInv'
  BY <1>8 DEF RecoverRow, CasWrite, storeVars, fsVars, runVars, sweepVars, procVars
<1>9. ASSUME NEW m \in Managers, RecoverUnlink(m) PROVE RequestInv'
  BY <1>9 DEF RecoverUnlink, storeVars, fsVars, runVars, sweepVars, procVars
<1>10. ASSUME NEW m \in Managers, SweepRemove(m) PROVE RequestInv'
  BY <1>10 DEF SweepRemove, storeVars, fsVars, runVars, sweepVars, procVars
<1>11. ASSUME NEW t \in Threads, Claim(t) PROVE RequestInv'
  BY <1>11 DEF Claim, storeVars, fsVars, runVars, sweepVars, procVars
<1>12. ASSUME NEW t \in Threads, Record(t) PROVE RequestInv'
  BY <1>12 DEF Record, CasWrite, Fenced, storeVars, fsVars, runVars, sweepVars, procVars
<1>13. ASSUME NEW t \in Threads, RecordFailure(t) PROVE RequestInv'
  BY <1>13 DEF RecordFailure, CasWrite, Fenced, storeVars, fsVars, runVars, sweepVars, procVars
<1>14. ASSUME NEW t \in Threads, Publish(t) PROVE RequestInv'
  BY <1>14 DEF Publish, storeVars, fsVars, runVars, sweepVars, procVars
<1>15. ASSUME NEW t \in Threads, Close(t) PROVE RequestInv'
  BY <1>15 DEF Close, Consumed, storeVars, fsVars, runVars, sweepVars, procVars
<1>16. CASE UNCHANGED <<req, row, spool, dir>>
  BY <1>16
<1> HIDE DEF TypeOK, InFlight, Live, Terminal, Judged, Aborted, Working, Settled, RequestInv,
            ThreadInv, RecoverInv, SweepInv, InHandOK
<1>17. ASSUME NEW j \in Jobs, AgeFinish(j) PROVE RequestInv'
  BY <1>17, <1>16 DEF AgeFinish, storeVars, fsVars, runVars, sweepVars, procVars
<1>18. ASSUME NEW m \in Managers, \/ Start(m) \/ Refuse(m) \/ ListOrphans(m) \/ RecoverEnd(m)
                                  \/ Warm(m) \/ WarmEnds(m) \/ Exit(m) \/ Sigterm(m) \/ Killed(m)
                                  \/ SweepGet(m)
      PROVE RequestInv'
  BY <1>18, <1>16 DEF Start, Refuse, ListOrphans, RecoverEnd, Warm, WarmEnds, Exit, Sigterm, Killed,
         SweepGet, storeVars, fsVars, runVars, sweepVars, procVars, Gone
<1>19. ASSUME NEW m \in Managers, NEW j \in Jobs, SweepStat(m, j) \/ SweepScratch(m, j) PROVE RequestInv'
  BY <1>19, <1>16 DEF SweepStat, SweepScratch, storeVars, fsVars, runVars, sweepVars, procVars
<1>20. ASSUME NEW t \in Threads, ReadInput(t) \/ Validate(t) PROVE RequestInv'
  BY <1>20, <1>16 DEF ReadInput, Validate, storeVars, fsVars, runVars, sweepVars, procVars
<1>21. CASE UNCHANGED vars
  BY <1>21, <1>16 DEF vars, storeVars, fsVars, runVars, sweepVars, procVars
<1>. QED
  BY <1>1, <1>2, <1>3, <1>4, <1>5, <1>6, <1>7, <1>8, <1>9, <1>10, <1>11, <1>12, <1>13, <1>14,
     <1>15, <1>16, <1>17, <1>18, <1>19, <1>20, <1>21
  DEF Next, RequestStep, ManagerStep, ProcessStep

\* A thread at work holds its row's claim, and what it recorded is what the row says.
LEMMA ThreadStepInv ==
  ASSUME TypeOK, RequestInv, ThreadInv, RecoverInv, [Next]_vars
  PROVE  ThreadInv'
<1> USE DEF TypeOK, InFlight, Live, Terminal, Judged, Aborted, Working, Settled, RequestInv,
           ThreadInv, InHandOK
<1>1. ASSUME NEW j \in Jobs, Create(j) PROVE ThreadInv'
  BY <1>1 DEF Create, storeVars, fsVars, runVars, sweepVars, procVars
<1>2. ASSUME NEW m \in Managers, Start(m) PROVE ThreadInv'
  BY <1>2 DEF Start, storeVars, fsVars, runVars, sweepVars, procVars
<1>3. ASSUME NEW m \in Managers, Refuse(m) PROVE ThreadInv'
  BY <1>3 DEF Refuse, storeVars, fsVars, runVars, sweepVars, procVars
<1>4. ASSUME NEW m \in Managers, ListOrphans(m) PROVE ThreadInv'
  BY <1>4 DEF ListOrphans, storeVars, fsVars, runVars, sweepVars, procVars
<1>5. ASSUME NEW m \in Managers, NEW j \in Jobs, RecoverRow(m, j) PROVE ThreadInv'
  BY <1>5 DEF RecoverRow, CasWrite, storeVars, fsVars, runVars, sweepVars, procVars
<1>6. ASSUME NEW m \in Managers, RecoverEnd(m) PROVE ThreadInv'
  BY <1>6 DEF RecoverEnd, storeVars, fsVars, runVars, sweepVars, procVars
<1>7. ASSUME NEW m \in Managers, Warm(m) PROVE ThreadInv'
  BY <1>7 DEF Warm, storeVars, fsVars, runVars, sweepVars, procVars
<1>8. ASSUME NEW m \in Managers, WarmEnds(m) PROVE ThreadInv'
  BY <1>8 DEF WarmEnds, Gone, storeVars, fsVars, runVars, sweepVars, procVars
<1>9. ASSUME NEW m \in Managers, Exit(m) PROVE ThreadInv'
  BY <1>9 DEF Exit, Gone, storeVars, fsVars, runVars, sweepVars, procVars
<1>10. ASSUME NEW m \in Managers, Killed(m) PROVE ThreadInv'
  BY <1>10 DEF Killed, Gone, storeVars, fsVars, runVars, sweepVars, procVars
<1>11. ASSUME NEW t \in Threads, Claim(t) PROVE ThreadInv'
  BY <1>11 DEF Claim, storeVars, fsVars, runVars, sweepVars, procVars
<1>12. ASSUME NEW t \in Threads, ReadInput(t) PROVE ThreadInv'
  BY <1>12 DEF ReadInput, storeVars, fsVars, runVars, sweepVars, procVars
<1>13. ASSUME NEW t \in Threads, Validate(t) PROVE ThreadInv'
  BY <1>13 DEF Validate, storeVars, fsVars, runVars, sweepVars, procVars
<1>14. ASSUME NEW t \in Threads, Record(t) PROVE ThreadInv'
  BY <1>14 DEF Record, CasWrite, Fenced, storeVars, fsVars, runVars, sweepVars, procVars
<1>15. ASSUME NEW t \in Threads, Publish(t) PROVE ThreadInv'
  BY <1>15 DEF Publish, storeVars, fsVars, runVars, sweepVars, procVars
<1>16. ASSUME NEW t \in Threads, RecordFailure(t) PROVE ThreadInv'
  BY <1>16 DEF RecordFailure, CasWrite, Fenced, storeVars, fsVars, runVars, sweepVars, procVars
<1>17. ASSUME NEW t \in Threads, Close(t) PROVE ThreadInv'
  BY <1>17 DEF Close, Consumed, storeVars, fsVars, runVars, sweepVars, procVars
<1>18. CASE UNCHANGED <<claim, row, mgr, pc, res, cur, recorded>>
  BY <1>18
<1> HIDE DEF TypeOK, InFlight, Live, Terminal, Judged, Aborted, Working, Settled, RequestInv,
            ThreadInv, InHandOK
<1>19. ASSUME NEW j \in Jobs, \/ SpoolChanges(j) \/ AgeDir(j) \/ AgeFinish(j) \/ Spool(j)
                              \/ SpoolEnds(j) \/ Ask(j)
      PROVE ThreadInv'
  BY <1>19, <1>18 DEF SpoolChanges, AgeDir, AgeFinish, Spool, SpoolEnds, Ask, storeVars, fsVars, runVars,
         sweepVars, procVars, RemoveSpool
<1>20. ASSUME NEW m \in Managers, RecoverUnlink(m) \/ Sigterm(m) \/ SweepGet(m) \/ SweepRemove(m) PROVE ThreadInv'
  BY <1>20, <1>18 DEF RecoverUnlink, Sigterm, SweepGet, SweepRemove, storeVars, fsVars, runVars, sweepVars,
         procVars
<1>21. ASSUME NEW m \in Managers, NEW j \in Jobs, SweepStat(m, j) \/ SweepScratch(m, j) PROVE ThreadInv'
  BY <1>21, <1>18 DEF SweepStat, SweepScratch, storeVars, fsVars, runVars, sweepVars, procVars
<1>22. CASE IngressKilled
  BY <1>22, <1>18 DEF IngressKilled, storeVars, fsVars, runVars, sweepVars, procVars
<1>23. CASE UNCHANGED vars
  BY <1>23, <1>18 DEF vars, storeVars, fsVars, runVars, sweepVars, procVars
<1>. QED
  BY <1>1, <1>2, <1>3, <1>4, <1>5, <1>6, <1>7, <1>8, <1>9, <1>10, <1>11, <1>12, <1>13, <1>14,
     <1>15, <1>16, <1>17, <1>18, <1>19, <1>20, <1>21, <1>22, <1>23
  DEF Next, RequestStep, ManagerStep, ProcessStep

\* The recovery unlinks only the spool of a row it made terminal.
LEMMA RecoverStepInv ==
  ASSUME TypeOK, RequestInv, ThreadInv, RecoverInv, [Next]_vars
  PROVE  RecoverInv'
<1> USE DEF TypeOK, InFlight, Live, Terminal, Judged, Aborted, Working, Settled, RequestInv,
           ThreadInv, RecoverInv, InHandOK
<1>1. ASSUME NEW j \in Jobs, Create(j) PROVE RecoverInv'
  BY <1>1 DEF Create, storeVars, fsVars, runVars, sweepVars, procVars
<1>2. ASSUME NEW m \in Managers, NEW j \in Jobs, RecoverRow(m, j) PROVE RecoverInv'
  BY <1>2 DEF RecoverRow, CasWrite, storeVars, fsVars, runVars, sweepVars, procVars
<1>3. ASSUME NEW m \in Managers, RecoverUnlink(m) PROVE RecoverInv'
  BY <1>3 DEF RecoverUnlink, storeVars, fsVars, runVars, sweepVars, procVars
<1>4. ASSUME NEW m \in Managers, WarmEnds(m) PROVE RecoverInv'
  BY <1>4 DEF WarmEnds, Gone, storeVars, fsVars, runVars, sweepVars, procVars
<1>5. ASSUME NEW m \in Managers, Exit(m) PROVE RecoverInv'
  BY <1>5 DEF Exit, Gone, storeVars, fsVars, runVars, sweepVars, procVars
<1>6. ASSUME NEW m \in Managers, Killed(m) PROVE RecoverInv'
  BY <1>6 DEF Killed, Gone, storeVars, fsVars, runVars, sweepVars, procVars
<1>7. ASSUME NEW t \in Threads, Claim(t) PROVE RecoverInv'
  BY <1>7 DEF Claim, storeVars, fsVars, runVars, sweepVars, procVars
<1>8. ASSUME NEW t \in Threads, Record(t) PROVE RecoverInv'
  BY <1>8 DEF Record, CasWrite, Fenced, storeVars, fsVars, runVars, sweepVars, procVars
<1>9. ASSUME NEW t \in Threads, RecordFailure(t) PROVE RecoverInv'
  BY <1>9 DEF RecordFailure, CasWrite, Fenced, storeVars, fsVars, runVars, sweepVars, procVars
<1>10. CASE UNCHANGED <<row, drop>>
  BY <1>10
<1> HIDE DEF TypeOK, InFlight, Live, Terminal, Judged, Aborted, Working, Settled, RequestInv,
            ThreadInv, RecoverInv, InHandOK
<1>11. ASSUME NEW j \in Jobs, \/ SpoolChanges(j) \/ AgeDir(j) \/ AgeFinish(j) \/ Spool(j)
                              \/ SpoolEnds(j) \/ Ask(j)
      PROVE RecoverInv'
  BY <1>11, <1>10 DEF SpoolChanges, AgeDir, AgeFinish, Spool, SpoolEnds, Ask, storeVars, fsVars, runVars,
         sweepVars, procVars, RemoveSpool
<1>12. ASSUME NEW m \in Managers, \/ Start(m) \/ Refuse(m) \/ ListOrphans(m) \/ RecoverEnd(m)
                                  \/ Warm(m) \/ Sigterm(m) \/ SweepGet(m) \/ SweepRemove(m)
      PROVE RecoverInv'
  BY <1>12, <1>10 DEF Start, Refuse, ListOrphans, RecoverEnd, Warm, Sigterm, SweepGet, SweepRemove,
         storeVars, fsVars, runVars, sweepVars, procVars
<1>13. ASSUME NEW m \in Managers, NEW j \in Jobs, SweepStat(m, j) \/ SweepScratch(m, j) PROVE RecoverInv'
  BY <1>13, <1>10 DEF SweepStat, SweepScratch, storeVars, fsVars, runVars, sweepVars, procVars
<1>14. ASSUME NEW t \in Threads, ReadInput(t) \/ Validate(t) \/ Publish(t) \/ Close(t) PROVE RecoverInv'
  BY <1>14, <1>10 DEF ReadInput, Validate, Publish, Close, storeVars, fsVars, runVars, sweepVars, procVars
<1>15. CASE IngressKilled
  BY <1>15, <1>10 DEF IngressKilled, storeVars, fsVars, runVars, sweepVars, procVars
<1>16. CASE UNCHANGED vars
  BY <1>16, <1>10 DEF vars, storeVars, fsVars, runVars, sweepVars, procVars
<1>. QED
  BY <1>1, <1>2, <1>3, <1>4, <1>5, <1>6, <1>7, <1>8, <1>9, <1>10, <1>11, <1>12, <1>13, <1>14,
     <1>15, <1>16
  DEF Next, RequestStep, ManagerStep, ProcessStep

\* What the retention thread read of a row before it removes the directory stays true.
LEMMA SweepStepInv ==
  ASSUME TypeOK, RequestInv, ThreadInv, SweepInv, [Next]_vars
  PROVE  SweepInv'
<1> USE DEF TypeOK, InFlight, Live, Terminal, Judged, Aborted, Working, Settled, RequestInv,
           ThreadInv, SweepInv, InHandOK
<1>1. ASSUME NEW j \in Jobs, AgeFinish(j) PROVE SweepInv'
  BY <1>1 DEF AgeFinish, storeVars, fsVars, runVars, sweepVars, procVars
<1>2. ASSUME NEW j \in Jobs, Spool(j) PROVE SweepInv'
  BY <1>2 DEF Spool, storeVars, fsVars, runVars, sweepVars, procVars
<1>3. ASSUME NEW j \in Jobs, SpoolEnds(j) PROVE SweepInv'
  BY <1>3 DEF SpoolEnds, RemoveSpool, storeVars, fsVars, runVars, sweepVars, procVars
<1>4. ASSUME NEW j \in Jobs, Create(j) PROVE SweepInv'
  BY <1>4 DEF Create, storeVars, fsVars, runVars, sweepVars, procVars
<1>5. ASSUME NEW j \in Jobs, Ask(j) PROVE SweepInv'
  BY <1>5 DEF Ask, RemoveSpool, storeVars, fsVars, runVars, sweepVars, procVars
<1>6. CASE IngressKilled
  BY <1>6 DEF IngressKilled, storeVars, fsVars, runVars, sweepVars, procVars
<1>7. ASSUME NEW m \in Managers, NEW j \in Jobs, RecoverRow(m, j) PROVE SweepInv'
  BY <1>7 DEF RecoverRow, CasWrite, storeVars, fsVars, runVars, sweepVars, procVars
<1>8. ASSUME NEW m \in Managers, WarmEnds(m) PROVE SweepInv'
  BY <1>8 DEF WarmEnds, Gone, storeVars, fsVars, runVars, sweepVars, procVars
<1>9. ASSUME NEW m \in Managers, Exit(m) PROVE SweepInv'
  BY <1>9 DEF Exit, Gone, storeVars, fsVars, runVars, sweepVars, procVars
<1>10. ASSUME NEW m \in Managers, Killed(m) PROVE SweepInv'
  BY <1>10 DEF Killed, Gone, storeVars, fsVars, runVars, sweepVars, procVars
<1>11. ASSUME NEW m \in Managers, NEW j \in Jobs, SweepStat(m, j) PROVE SweepInv'
  BY <1>11 DEF SweepStat, storeVars, fsVars, runVars, sweepVars, procVars
<1>12. ASSUME NEW m \in Managers, SweepGet(m) PROVE SweepInv'
  BY <1>12 DEF SweepGet, Expired, storeVars, fsVars, runVars, sweepVars, procVars
<1>13. ASSUME NEW m \in Managers, SweepRemove(m) PROVE SweepInv'
  BY <1>13 DEF SweepRemove, storeVars, fsVars, runVars, sweepVars, procVars
<1>14. ASSUME NEW t \in Threads, Claim(t) PROVE SweepInv'
  BY <1>14 DEF Claim, storeVars, fsVars, runVars, sweepVars, procVars
<1>15. ASSUME NEW t \in Threads, Record(t) PROVE SweepInv'
  BY <1>15 DEF Record, CasWrite, Fenced, storeVars, fsVars, runVars, sweepVars, procVars
<1>16. ASSUME NEW t \in Threads, RecordFailure(t) PROVE SweepInv'
  BY <1>16 DEF RecordFailure, CasWrite, Fenced, storeVars, fsVars, runVars, sweepVars, procVars
<1>17. CASE UNCHANGED <<req, row, recent, swpc, swjob>>
  BY <1>17
<1> HIDE DEF TypeOK, InFlight, Live, Terminal, Judged, Aborted, Working, Settled, RequestInv,
            ThreadInv, SweepInv, InHandOK
<1>18. ASSUME NEW j \in Jobs, SpoolChanges(j) \/ AgeDir(j) PROVE SweepInv'
  BY <1>18, <1>17 DEF SpoolChanges, AgeDir, storeVars, fsVars, runVars, sweepVars, procVars
<1>19. ASSUME NEW m \in Managers, \/ Start(m) \/ Refuse(m) \/ ListOrphans(m) \/ RecoverUnlink(m)
                                  \/ RecoverEnd(m) \/ Warm(m) \/ Sigterm(m)
      PROVE SweepInv'
  BY <1>19, <1>17 DEF Start, Refuse, ListOrphans, RecoverUnlink, RecoverEnd, Warm, Sigterm, storeVars,
         fsVars, runVars, sweepVars, procVars
<1>20. ASSUME NEW m \in Managers, NEW j \in Jobs, SweepScratch(m, j) PROVE SweepInv'
  BY <1>20, <1>17 DEF SweepScratch, storeVars, fsVars, runVars, sweepVars, procVars
<1>21. ASSUME NEW t \in Threads, ReadInput(t) \/ Validate(t) \/ Publish(t) \/ Close(t) PROVE SweepInv'
  BY <1>21, <1>17 DEF ReadInput, Validate, Publish, Close, storeVars, fsVars, runVars, sweepVars, procVars
<1>22. CASE UNCHANGED vars
  BY <1>22, <1>17 DEF vars, storeVars, fsVars, runVars, sweepVars, procVars
<1>. QED
  BY <1>1, <1>2, <1>3, <1>4, <1>5, <1>6, <1>7, <1>8, <1>9, <1>10, <1>11, <1>12, <1>13, <1>14,
     <1>15, <1>16, <1>17, <1>18, <1>19, <1>20, <1>21, <1>22
  DEF Next, RequestStep, ManagerStep, ProcessStep

\* Only a judged job has an output.
LEMMA OutputStepInv ==
  ASSUME TypeOK, RequestInv, ThreadInv, OutputInv, [Next]_vars
  PROVE  OutputInv'
<1> USE DEF TypeOK, InFlight, Live, Terminal, Judged, Aborted, Working, Settled, RequestInv,
           ThreadInv, OutputInv, InHandOK
<1>1. ASSUME NEW j \in Jobs, Create(j) PROVE OutputInv'
  BY <1>1 DEF Create, storeVars, fsVars, runVars, sweepVars, procVars
<1>2. ASSUME NEW m \in Managers, NEW j \in Jobs, RecoverRow(m, j) PROVE OutputInv'
  BY <1>2 DEF RecoverRow, CasWrite, storeVars, fsVars, runVars, sweepVars, procVars
<1>3. ASSUME NEW m \in Managers, SweepRemove(m) PROVE OutputInv'
  BY <1>3 DEF SweepRemove, storeVars, fsVars, runVars, sweepVars, procVars
<1>4. ASSUME NEW t \in Threads, Claim(t) PROVE OutputInv'
  BY <1>4 DEF Claim, storeVars, fsVars, runVars, sweepVars, procVars
<1>5. ASSUME NEW t \in Threads, Record(t) PROVE OutputInv'
  BY <1>5 DEF Record, CasWrite, Fenced, storeVars, fsVars, runVars, sweepVars, procVars
<1>6. ASSUME NEW t \in Threads, Publish(t) PROVE OutputInv'
  BY <1>6 DEF Publish, storeVars, fsVars, runVars, sweepVars, procVars
<1>7. ASSUME NEW t \in Threads, RecordFailure(t) PROVE OutputInv'
  BY <1>7 DEF RecordFailure, CasWrite, Fenced, storeVars, fsVars, runVars, sweepVars, procVars
<1>8. CASE UNCHANGED <<row, out>>
  BY <1>8
<1> HIDE DEF TypeOK, InFlight, Live, Terminal, Judged, Aborted, Working, Settled, RequestInv,
            ThreadInv, OutputInv, InHandOK
<1>9. ASSUME NEW j \in Jobs, \/ SpoolChanges(j) \/ AgeDir(j) \/ AgeFinish(j) \/ Spool(j)
                             \/ SpoolEnds(j) \/ Ask(j)
      PROVE OutputInv'
  BY <1>9, <1>8 DEF SpoolChanges, AgeDir, AgeFinish, Spool, SpoolEnds, Ask, storeVars, fsVars, runVars,
         sweepVars, procVars, RemoveSpool
<1>10. ASSUME NEW m \in Managers, \/ Start(m) \/ Refuse(m) \/ ListOrphans(m) \/ RecoverUnlink(m)
                                  \/ RecoverEnd(m) \/ Warm(m) \/ WarmEnds(m) \/ Exit(m) \/ Sigterm(m)
                                  \/ Killed(m) \/ SweepGet(m)
      PROVE OutputInv'
  BY <1>10, <1>8 DEF Start, Refuse, ListOrphans, RecoverUnlink, RecoverEnd, Warm, WarmEnds, Exit, Sigterm,
         Killed, SweepGet, storeVars, fsVars, runVars, sweepVars, procVars, Gone
<1>11. ASSUME NEW m \in Managers, NEW j \in Jobs, SweepStat(m, j) \/ SweepScratch(m, j) PROVE OutputInv'
  BY <1>11, <1>8 DEF SweepStat, SweepScratch, storeVars, fsVars, runVars, sweepVars, procVars
<1>12. ASSUME NEW t \in Threads, ReadInput(t) \/ Validate(t) \/ Close(t) PROVE OutputInv'
  BY <1>12, <1>8 DEF ReadInput, Validate, Close, storeVars, fsVars, runVars, sweepVars, procVars
<1>13. CASE IngressKilled
  BY <1>13, <1>8 DEF IngressKilled, storeVars, fsVars, runVars, sweepVars, procVars
<1>14. CASE UNCHANGED vars
  BY <1>14, <1>8 DEF vars, storeVars, fsVars, runVars, sweepVars, procVars
<1>. QED
  BY <1>1, <1>2, <1>3, <1>4, <1>5, <1>6, <1>7, <1>8, <1>9, <1>10, <1>11, <1>12, <1>13, <1>14
  DEF Next, RequestStep, ManagerStep, ProcessStep

\* No step takes the evidence of a mismatch away that is still to be recorded.
LEMMA MismatchStepInv ==
  ASSUME TypeOK, RequestInv, ThreadInv, MismatchInv, RecoverInv, SweepInv, [Next]_vars
  PROVE  MismatchInv'
<1> USE DEF TypeOK, Standing, InFlight, Live, Terminal, Judged, Aborted, Working, Settled, RequestInv,
           ThreadInv, MismatchInv, RecoverInv, SweepInv, InHandOK
<1>1. ASSUME NEW j \in Jobs, SpoolChanges(j) PROVE MismatchInv'
  BY <1>1 DEF SpoolChanges, storeVars, fsVars, runVars, sweepVars, procVars
<1>2. ASSUME NEW j \in Jobs, Spool(j) PROVE MismatchInv'
  BY <1>2 DEF Spool, storeVars, fsVars, runVars, sweepVars, procVars
<1>3. ASSUME NEW j \in Jobs, SpoolEnds(j) PROVE MismatchInv'
  BY <1>3 DEF SpoolEnds, RemoveSpool, storeVars, fsVars, runVars, sweepVars, procVars
<1>4. ASSUME NEW j \in Jobs, Create(j) PROVE MismatchInv'
  BY <1>4 DEF Create, storeVars, fsVars, runVars, sweepVars, procVars
<1>5. ASSUME NEW j \in Jobs, Ask(j) PROVE MismatchInv'
  BY <1>5 DEF Ask, RemoveSpool, storeVars, fsVars, runVars, sweepVars, procVars
<1>6. CASE IngressKilled
  BY <1>6 DEF IngressKilled, storeVars, fsVars, runVars, sweepVars, procVars
<1>7. ASSUME NEW m \in Managers, NEW j \in Jobs, RecoverRow(m, j) PROVE MismatchInv'
  BY <1>7 DEF RecoverRow, CasWrite, storeVars, fsVars, runVars, sweepVars, procVars
<1>8. ASSUME NEW m \in Managers, RecoverUnlink(m) PROVE MismatchInv'
  BY <1>8 DEF RecoverUnlink, storeVars, fsVars, runVars, sweepVars, procVars
<1>9. ASSUME NEW m \in Managers, Killed(m) PROVE MismatchInv'
  BY <1>9 DEF Killed, Gone, storeVars, fsVars, runVars, sweepVars, procVars
<1>10. ASSUME NEW m \in Managers, SweepRemove(m) PROVE MismatchInv'
  BY <1>10 DEF SweepRemove, storeVars, fsVars, runVars, sweepVars, procVars
<1>11. ASSUME NEW t \in Threads, Claim(t) PROVE MismatchInv'
  <2>1. PICK j \in Jobs : row[j] = "queued" /\ row' = [row EXCEPT ![j] = "running"]
    BY <1>11 DEF Claim
  <2>2. SUFFICES ASSUME NEW u \in Threads, pc'[u] = "fail" PROVE MismatchInv!(u)'
    OBVIOUS
  <2>3. pc[u] = "fail" /\ cur'[u] = cur[u] /\ UNCHANGED <<req, spool, res>>
    BY <1>11, <2>2 DEF Claim, fsVars
  <2>. QED
    BY <2>1, <2>2, <2>3
<1>12. ASSUME NEW t \in Threads, ReadInput(t) PROVE MismatchInv'
  BY <1>12 DEF ReadInput, storeVars, fsVars, runVars, sweepVars, procVars
<1>13. ASSUME NEW t \in Threads, Validate(t) PROVE MismatchInv'
  BY <1>13 DEF Validate, storeVars, fsVars, runVars, sweepVars, procVars
<1>14. ASSUME NEW t \in Threads, Record(t) PROVE MismatchInv'
  BY <1>14 DEF Record, CasWrite, Fenced, storeVars, fsVars, runVars, sweepVars, procVars
<1>15. ASSUME NEW t \in Threads, Publish(t) PROVE MismatchInv'
  BY <1>15 DEF Publish, storeVars, fsVars, runVars, sweepVars, procVars
<1>16. ASSUME NEW t \in Threads, RecordFailure(t) PROVE MismatchInv'
  BY <1>16 DEF RecordFailure, CasWrite, Fenced, storeVars, fsVars, runVars, sweepVars, procVars
<1>17. ASSUME NEW t \in Threads, Close(t) PROVE MismatchInv'
  BY <1>17 DEF Close, Consumed, storeVars, fsVars, runVars, sweepVars, procVars
<1>18. CASE UNCHANGED <<req, row, pc, res, cur, spool>>
  BY <1>18
<1> HIDE DEF TypeOK, Standing, InFlight, Live, Terminal, Judged, Aborted, Working, Settled, RequestInv,
            ThreadInv, MismatchInv, RecoverInv, SweepInv, InHandOK
<1>19. ASSUME NEW j \in Jobs, AgeDir(j) \/ AgeFinish(j) PROVE MismatchInv'
  BY <1>19, <1>18 DEF AgeDir, AgeFinish, storeVars, fsVars, runVars, sweepVars, procVars
<1>20. ASSUME NEW m \in Managers, \/ Start(m) \/ Refuse(m) \/ ListOrphans(m) \/ RecoverEnd(m)
                                  \/ Warm(m) \/ WarmEnds(m) \/ Exit(m) \/ Sigterm(m) \/ SweepGet(m)
      PROVE MismatchInv'
  BY <1>20, <1>18 DEF Start, Refuse, ListOrphans, RecoverEnd, Warm, WarmEnds, Exit, Sigterm, SweepGet,
         storeVars, fsVars, runVars, sweepVars, procVars, Gone
<1>21. ASSUME NEW m \in Managers, NEW j \in Jobs, SweepStat(m, j) \/ SweepScratch(m, j) PROVE MismatchInv'
  BY <1>21, <1>18 DEF SweepStat, SweepScratch, storeVars, fsVars, runVars, sweepVars, procVars
<1>22. CASE UNCHANGED vars
  BY <1>22, <1>18 DEF vars, storeVars, fsVars, runVars, sweepVars, procVars
<1>. QED
  BY <1>1, <1>2, <1>3, <1>4, <1>5, <1>6, <1>7, <1>8, <1>9, <1>10, <1>11, <1>12, <1>13, <1>14,
     <1>15, <1>16, <1>17, <1>18, <1>19, <1>20, <1>21, <1>22
  DEF Next, RequestStep, ManagerStep, ProcessStep

\* No step takes the input of an accepted job away whose row is not terminal.
LEMMA AcceptedStepInv ==
  ASSUME TypeOK, RequestInv, ThreadInv, RecoverInv, SweepInv, AcceptedKeepsInput, [Next]_vars
  PROVE  AcceptedKeepsInput'
<1> USE DEF TypeOK, Standing, InFlight, Live, Terminal, Judged, Aborted, Working, Settled, RequestInv,
           ThreadInv, RecoverInv, SweepInv, InHandOK, AcceptedKeepsInput
<1>1. ASSUME NEW j \in Jobs, SpoolChanges(j) PROVE AcceptedKeepsInput'
  BY <1>1 DEF SpoolChanges, storeVars, fsVars, runVars, sweepVars, procVars
<1>2. ASSUME NEW j \in Jobs, AgeDir(j) PROVE AcceptedKeepsInput'
  BY <1>2 DEF AgeDir, storeVars, fsVars, runVars, sweepVars, procVars
<1>3. ASSUME NEW j \in Jobs, Spool(j) PROVE AcceptedKeepsInput'
  BY <1>3 DEF Spool, storeVars, fsVars, runVars, sweepVars, procVars
<1>4. ASSUME NEW j \in Jobs, SpoolEnds(j) PROVE AcceptedKeepsInput'
  BY <1>4 DEF SpoolEnds, RemoveSpool, storeVars, fsVars, runVars, sweepVars, procVars
<1>5. ASSUME NEW j \in Jobs, Create(j) PROVE AcceptedKeepsInput'
  BY <1>5 DEF Create, storeVars, fsVars, runVars, sweepVars, procVars
<1>6. ASSUME NEW j \in Jobs, Ask(j) PROVE AcceptedKeepsInput'
  BY <1>6 DEF Ask, RemoveSpool, storeVars, fsVars, runVars, sweepVars, procVars
<1>7. CASE IngressKilled
  BY <1>7 DEF IngressKilled, storeVars, fsVars, runVars, sweepVars, procVars
<1>8. ASSUME NEW m \in Managers, NEW j \in Jobs, RecoverRow(m, j) PROVE AcceptedKeepsInput'
  BY <1>8 DEF RecoverRow, CasWrite, storeVars, fsVars, runVars, sweepVars, procVars
<1>9. ASSUME NEW m \in Managers, RecoverUnlink(m) PROVE AcceptedKeepsInput'
  BY <1>9 DEF RecoverUnlink, storeVars, fsVars, runVars, sweepVars, procVars
<1>10. ASSUME NEW m \in Managers, SweepRemove(m) PROVE AcceptedKeepsInput'
  BY <1>10 DEF SweepRemove, storeVars, fsVars, runVars, sweepVars, procVars
<1>11. ASSUME NEW t \in Threads, Claim(t) PROVE AcceptedKeepsInput'
  BY <1>11 DEF Claim, storeVars, fsVars, runVars, sweepVars, procVars
<1>12. ASSUME NEW t \in Threads, Record(t) PROVE AcceptedKeepsInput'
  BY <1>12 DEF Record, CasWrite, Fenced, storeVars, fsVars, runVars, sweepVars, procVars
<1>13. ASSUME NEW t \in Threads, RecordFailure(t) PROVE AcceptedKeepsInput'
  BY <1>13 DEF RecordFailure, CasWrite, Fenced, storeVars, fsVars, runVars, sweepVars, procVars
<1>14. ASSUME NEW t \in Threads, Publish(t) PROVE AcceptedKeepsInput'
  BY <1>14 DEF Publish, storeVars, fsVars, runVars, sweepVars, procVars
<1>15. ASSUME NEW t \in Threads, Close(t) PROVE AcceptedKeepsInput'
  BY <1>15 DEF Close, Consumed, storeVars, fsVars, runVars, sweepVars, procVars
<1>16. CASE UNCHANGED <<req, row, spool, dir>>
  BY <1>16
<1> HIDE DEF TypeOK, Standing, InFlight, Live, Terminal, Judged, Aborted, Working, Settled, RequestInv,
            ThreadInv, RecoverInv, SweepInv, InHandOK, AcceptedKeepsInput
<1>17. ASSUME NEW j \in Jobs, AgeFinish(j) PROVE AcceptedKeepsInput'
  BY <1>17, <1>16 DEF AgeFinish, storeVars, fsVars, runVars, sweepVars, procVars
<1>18. ASSUME NEW m \in Managers, \/ Start(m) \/ Refuse(m) \/ ListOrphans(m) \/ RecoverEnd(m)
                                  \/ Warm(m) \/ WarmEnds(m) \/ Exit(m) \/ Sigterm(m) \/ Killed(m)
                                  \/ SweepGet(m)
      PROVE AcceptedKeepsInput'
  BY <1>18, <1>16 DEF Start, Refuse, ListOrphans, RecoverEnd, Warm, WarmEnds, Exit, Sigterm, Killed,
         SweepGet, storeVars, fsVars, runVars, sweepVars, procVars, Gone
<1>19. ASSUME NEW m \in Managers, NEW j \in Jobs, SweepStat(m, j) \/ SweepScratch(m, j) PROVE AcceptedKeepsInput'
  BY <1>19, <1>16 DEF SweepStat, SweepScratch, storeVars, fsVars, runVars, sweepVars, procVars
<1>20. ASSUME NEW t \in Threads, ReadInput(t) \/ Validate(t) PROVE AcceptedKeepsInput'
  BY <1>20, <1>16 DEF ReadInput, Validate, storeVars, fsVars, runVars, sweepVars, procVars
<1>21. CASE UNCHANGED vars
  BY <1>21, <1>16 DEF vars, storeVars, fsVars, runVars, sweepVars, procVars
<1>. QED
  BY <1>1, <1>2, <1>3, <1>4, <1>5, <1>6, <1>7, <1>8, <1>9, <1>10, <1>11, <1>12, <1>13, <1>14,
     <1>15, <1>16, <1>17, <1>18, <1>19, <1>20, <1>21
  DEF Next, RequestStep, ManagerStep, ProcessStep

\* No step takes the evidence away a young row speaks of.
LEMMA EvidenceStepInv ==
  ASSUME TypeOK, RequestInv, ThreadInv, MismatchInv, RecoverInv, SweepInv, EvidenceKept, [Next]_vars
  PROVE  EvidenceKept'
<1> USE DEF TypeOK, Standing, InFlight, Live, Terminal, Judged, Aborted, Working, Settled, RequestInv,
           ThreadInv, MismatchInv, RecoverInv, SweepInv, InHandOK, EvidenceKept
<1>1. ASSUME NEW j \in Jobs, SpoolChanges(j) PROVE EvidenceKept'
  BY <1>1 DEF SpoolChanges, storeVars, fsVars, runVars, sweepVars, procVars
<1>2. ASSUME NEW j \in Jobs, AgeFinish(j) PROVE EvidenceKept'
  BY <1>2 DEF AgeFinish, storeVars, fsVars, runVars, sweepVars, procVars
<1>3. ASSUME NEW j \in Jobs, Spool(j) PROVE EvidenceKept'
  BY <1>3 DEF Spool, storeVars, fsVars, runVars, sweepVars, procVars
<1>4. ASSUME NEW j \in Jobs, SpoolEnds(j) PROVE EvidenceKept'
  BY <1>4 DEF SpoolEnds, RemoveSpool, storeVars, fsVars, runVars, sweepVars, procVars
<1>5. ASSUME NEW j \in Jobs, Create(j) PROVE EvidenceKept'
  BY <1>5 DEF Create, storeVars, fsVars, runVars, sweepVars, procVars
<1>6. ASSUME NEW j \in Jobs, Ask(j) PROVE EvidenceKept'
  BY <1>6 DEF Ask, RemoveSpool, storeVars, fsVars, runVars, sweepVars, procVars
<1>7. CASE IngressKilled
  BY <1>7 DEF IngressKilled, storeVars, fsVars, runVars, sweepVars, procVars
<1>8. ASSUME NEW m \in Managers, NEW j \in Jobs, RecoverRow(m, j) PROVE EvidenceKept'
  BY <1>8 DEF RecoverRow, CasWrite, storeVars, fsVars, runVars, sweepVars, procVars
<1>9. ASSUME NEW m \in Managers, RecoverUnlink(m) PROVE EvidenceKept'
  BY <1>9 DEF RecoverUnlink, storeVars, fsVars, runVars, sweepVars, procVars
<1>10. ASSUME NEW m \in Managers, SweepRemove(m) PROVE EvidenceKept'
  BY <1>10 DEF SweepRemove, storeVars, fsVars, runVars, sweepVars, procVars
<1>11. ASSUME NEW t \in Threads, Claim(t) PROVE EvidenceKept'
  BY <1>11 DEF Claim, storeVars, fsVars, runVars, sweepVars, procVars
<1>12. ASSUME NEW t \in Threads, Record(t) PROVE EvidenceKept'
  BY <1>12 DEF Record, CasWrite, Fenced, storeVars, fsVars, runVars, sweepVars, procVars
<1>13. ASSUME NEW t \in Threads, RecordFailure(t) PROVE EvidenceKept'
  BY <1>13 DEF RecordFailure, CasWrite, Fenced, storeVars, fsVars, runVars, sweepVars, procVars
<1>14. ASSUME NEW t \in Threads, Close(t) PROVE EvidenceKept'
  BY <1>14 DEF Close, Consumed, storeVars, fsVars, runVars, sweepVars, procVars
<1>15. CASE UNCHANGED <<req, row, recent, spool>>
  BY <1>15
<1> HIDE DEF TypeOK, Standing, InFlight, Live, Terminal, Judged, Aborted, Working, Settled, RequestInv,
            ThreadInv, MismatchInv, RecoverInv, SweepInv, InHandOK, EvidenceKept
<1>16. ASSUME NEW j \in Jobs, AgeDir(j) PROVE EvidenceKept'
  BY <1>16, <1>15 DEF AgeDir, storeVars, fsVars, runVars, sweepVars, procVars
<1>17. ASSUME NEW m \in Managers, \/ Start(m) \/ Refuse(m) \/ ListOrphans(m) \/ RecoverEnd(m)
                                  \/ Warm(m) \/ WarmEnds(m) \/ Exit(m) \/ Sigterm(m) \/ Killed(m)
                                  \/ SweepGet(m)
      PROVE EvidenceKept'
  BY <1>17, <1>15 DEF Start, Refuse, ListOrphans, RecoverEnd, Warm, WarmEnds, Exit, Sigterm, Killed,
         SweepGet, storeVars, fsVars, runVars, sweepVars, procVars, Gone
<1>18. ASSUME NEW m \in Managers, NEW j \in Jobs, SweepStat(m, j) \/ SweepScratch(m, j) PROVE EvidenceKept'
  BY <1>18, <1>15 DEF SweepStat, SweepScratch, storeVars, fsVars, runVars, sweepVars, procVars
<1>19. ASSUME NEW t \in Threads, ReadInput(t) \/ Validate(t) \/ Publish(t) PROVE EvidenceKept'
  BY <1>19, <1>15 DEF ReadInput, Validate, Publish, storeVars, fsVars, runVars, sweepVars, procVars
<1>20. CASE UNCHANGED vars
  BY <1>20, <1>15 DEF vars, storeVars, fsVars, runVars, sweepVars, procVars
<1>. QED
  BY <1>1, <1>2, <1>3, <1>4, <1>5, <1>6, <1>7, <1>8, <1>9, <1>10, <1>11, <1>12, <1>13, <1>14,
     <1>15, <1>16, <1>17, <1>18, <1>19, <1>20
  DEF Next, RequestStep, ManagerStep, ProcessStep

\* A second manager does not start beside the unit's one instance.
LEMMA ExclusiveStepInv ==
  ASSUME TypeOK, ExclusiveInv, [Next]_vars
  PROVE  ExclusiveInv'
<1> USE DEF TypeOK, ExclusiveInv
<1>1. ASSUME NEW m \in Managers, Start(m) PROVE ExclusiveInv'
  BY <1>1 DEF Start, storeVars, fsVars, runVars, sweepVars, procVars
<1>2. ASSUME NEW m \in Managers, Refuse(m) PROVE ExclusiveInv'
  BY <1>2 DEF Refuse, storeVars, fsVars, runVars, sweepVars, procVars
<1>3. ASSUME NEW m \in Managers, ListOrphans(m) PROVE ExclusiveInv'
  BY <1>3 DEF ListOrphans, storeVars, fsVars, runVars, sweepVars, procVars
<1>4. ASSUME NEW m \in Managers, RecoverEnd(m) PROVE ExclusiveInv'
  BY <1>4 DEF RecoverEnd, storeVars, fsVars, runVars, sweepVars, procVars
<1>5. ASSUME NEW m \in Managers, Warm(m) PROVE ExclusiveInv'
  BY <1>5 DEF Warm, storeVars, fsVars, runVars, sweepVars, procVars
<1>6. ASSUME NEW m \in Managers, WarmEnds(m) PROVE ExclusiveInv'
  BY <1>6 DEF WarmEnds, Gone, storeVars, fsVars, runVars, sweepVars, procVars
<1>7. ASSUME NEW m \in Managers, Exit(m) PROVE ExclusiveInv'
  BY <1>7 DEF Exit, Gone, storeVars, fsVars, runVars, sweepVars, procVars
<1>8. ASSUME NEW m \in Managers, Killed(m) PROVE ExclusiveInv'
  BY <1>8 DEF Killed, Gone, storeVars, fsVars, runVars, sweepVars, procVars
<1>9. CASE UNCHANGED <<mgr>>
  BY <1>9
<1> HIDE DEF TypeOK, ExclusiveInv
<1>10. ASSUME NEW j \in Jobs, \/ SpoolChanges(j) \/ AgeDir(j) \/ AgeFinish(j) \/ Spool(j)
                              \/ SpoolEnds(j) \/ Create(j) \/ Ask(j)
      PROVE ExclusiveInv'
  BY <1>10, <1>9 DEF SpoolChanges, AgeDir, AgeFinish, Spool, SpoolEnds, Create, Ask, storeVars, fsVars,
         runVars, sweepVars, procVars, RemoveSpool
<1>11. ASSUME NEW m \in Managers, RecoverUnlink(m) \/ Sigterm(m) \/ SweepGet(m) \/ SweepRemove(m) PROVE ExclusiveInv'
  BY <1>11, <1>9 DEF RecoverUnlink, Sigterm, SweepGet, SweepRemove, storeVars, fsVars, runVars, sweepVars,
         procVars
<1>12. ASSUME NEW m \in Managers, NEW j \in Jobs, RecoverRow(m, j) \/ SweepStat(m, j) \/ SweepScratch(m, j) PROVE ExclusiveInv'
  BY <1>12, <1>9 DEF RecoverRow, SweepStat, SweepScratch, storeVars, fsVars, runVars, sweepVars, procVars
<1>13. ASSUME NEW t \in Threads, \/ Claim(t) \/ ReadInput(t) \/ Validate(t) \/ Record(t) \/ Publish(t)
                                 \/ RecordFailure(t) \/ Close(t)
      PROVE ExclusiveInv'
  BY <1>13, <1>9 DEF Claim, ReadInput, Validate, Record, Publish, RecordFailure, Close, storeVars, fsVars,
         runVars, sweepVars, procVars
<1>14. CASE IngressKilled
  BY <1>14, <1>9 DEF IngressKilled, storeVars, fsVars, runVars, sweepVars, procVars
<1>15. CASE UNCHANGED vars
  BY <1>15, <1>9 DEF vars, storeVars, fsVars, runVars, sweepVars, procVars
<1>. QED
  BY <1>1, <1>2, <1>3, <1>4, <1>5, <1>6, <1>7, <1>8, <1>9, <1>10, <1>11, <1>12, <1>13, <1>14,
     <1>15
  DEF Next, RequestStep, ManagerStep, ProcessStep

\* With one manager at a time no step takes the row of a job in hand away from its thread.
LEMMA OrphanStepInv ==
  ASSUME TypeOK, RequestInv, ThreadInv, ExclusiveInv, NoLiveJobOrphaned, [Next]_vars
  PROVE  NoLiveJobOrphaned'
<1> USE DEF TypeOK, InFlight, Live, Terminal, Judged, Aborted, Working, Settled, RequestInv,
           ThreadInv, InHandOK, ExclusiveInv, NoLiveJobOrphaned, Fenced
<1>1. ASSUME NEW j \in Jobs, Create(j) PROVE NoLiveJobOrphaned'
  BY <1>1 DEF Create, storeVars, fsVars, runVars, sweepVars, procVars
<1>2. ASSUME NEW m \in Managers, NEW j \in Jobs, RecoverRow(m, j) PROVE NoLiveJobOrphaned'
  BY <1>2 DEF RecoverRow, CasWrite, storeVars, fsVars, runVars, sweepVars, procVars
<1>3. ASSUME NEW m \in Managers, Killed(m) PROVE NoLiveJobOrphaned'
  BY <1>3 DEF Killed, Gone, storeVars, fsVars, runVars, sweepVars, procVars
<1>4. ASSUME NEW t \in Threads, Claim(t) PROVE NoLiveJobOrphaned'
  BY <1>4 DEF Claim, storeVars, fsVars, runVars, sweepVars, procVars
<1>5. ASSUME NEW t \in Threads, ReadInput(t) PROVE NoLiveJobOrphaned'
  BY <1>5 DEF ReadInput, storeVars, fsVars, runVars, sweepVars, procVars
<1>6. ASSUME NEW t \in Threads, Validate(t) PROVE NoLiveJobOrphaned'
  BY <1>6 DEF Validate, storeVars, fsVars, runVars, sweepVars, procVars
<1>7. ASSUME NEW t \in Threads, Record(t) PROVE NoLiveJobOrphaned'
  BY <1>7 DEF Record, CasWrite, Fenced, storeVars, fsVars, runVars, sweepVars, procVars
<1>8. ASSUME NEW t \in Threads, Publish(t) PROVE NoLiveJobOrphaned'
  BY <1>8 DEF Publish, storeVars, fsVars, runVars, sweepVars, procVars
<1>9. ASSUME NEW t \in Threads, RecordFailure(t) PROVE NoLiveJobOrphaned'
  BY <1>9 DEF RecordFailure, CasWrite, Fenced, storeVars, fsVars, runVars, sweepVars, procVars
<1>10. ASSUME NEW t \in Threads, Close(t) PROVE NoLiveJobOrphaned'
  BY <1>10 DEF Close, Consumed, storeVars, fsVars, runVars, sweepVars, procVars
<1>11. CASE UNCHANGED <<row, claim, pc, cur>>
  BY <1>11
<1> HIDE DEF TypeOK, InFlight, Live, Terminal, Judged, Aborted, Working, Settled, RequestInv,
            ThreadInv, InHandOK, ExclusiveInv, NoLiveJobOrphaned, Fenced
<1>12. ASSUME NEW j \in Jobs, \/ SpoolChanges(j) \/ AgeDir(j) \/ AgeFinish(j) \/ Spool(j)
                              \/ SpoolEnds(j) \/ Ask(j)
      PROVE NoLiveJobOrphaned'
  BY <1>12, <1>11 DEF SpoolChanges, AgeDir, AgeFinish, Spool, SpoolEnds, Ask, storeVars, fsVars, runVars,
         sweepVars, procVars, RemoveSpool
<1>13. ASSUME NEW m \in Managers, \/ Start(m) \/ Refuse(m) \/ ListOrphans(m) \/ RecoverUnlink(m)
                                  \/ RecoverEnd(m) \/ Warm(m) \/ WarmEnds(m) \/ Exit(m) \/ Sigterm(m)
                                  \/ SweepGet(m) \/ SweepRemove(m)
      PROVE NoLiveJobOrphaned'
  BY <1>13, <1>11 DEF Start, Refuse, ListOrphans, RecoverUnlink, RecoverEnd, Warm, WarmEnds, Exit, Sigterm,
         SweepGet, SweepRemove, storeVars, fsVars, runVars, sweepVars, procVars, Gone
<1>14. ASSUME NEW m \in Managers, NEW j \in Jobs, SweepStat(m, j) \/ SweepScratch(m, j) PROVE NoLiveJobOrphaned'
  BY <1>14, <1>11 DEF SweepStat, SweepScratch, storeVars, fsVars, runVars, sweepVars, procVars
<1>15. CASE IngressKilled
  BY <1>15, <1>11 DEF IngressKilled, storeVars, fsVars, runVars, sweepVars, procVars
<1>16. CASE UNCHANGED vars
  BY <1>16, <1>11 DEF vars, storeVars, fsVars, runVars, sweepVars, procVars
<1>. QED
  BY <1>1, <1>2, <1>3, <1>4, <1>5, <1>6, <1>7, <1>8, <1>9, <1>10, <1>11, <1>12, <1>13, <1>14,
     <1>15, <1>16
  DEF Next, RequestStep, ManagerStep, ProcessStep

\* The invariant holds initially.
LEMMA InitInv == Init => IInv
BY DEF Init, IInv, TypeOK, Standing, RequestInv, ThreadInv, MismatchInv, RecoverInv, SweepInv, OutputInv,
       ExclusiveInv, AcceptedKeepsInput, EvidenceKept, NoLiveJobOrphaned, InHandOK, FaultsOK,
       Working, Live, Terminal, Judged, Aborted, InFlight, Settled, Sweeping, Fenced

\* Every step preserves the invariant.
LEMMA StepInv == IInv /\ [Next]_vars => IInv'
<1> SUFFICES ASSUME IInv, [Next]_vars PROVE IInv'
  OBVIOUS
<1> USE DEF IInv
<1>1. TypeOK'
  BY TypeStep
<1>2. RequestInv' /\ ThreadInv' /\ RecoverInv' /\ SweepInv' /\ OutputInv'
  BY RequestStepInv, ThreadStepInv, RecoverStepInv, SweepStepInv, OutputStepInv
<1>3. MismatchInv' /\ AcceptedKeepsInput' /\ EvidenceKept'
  BY MismatchStepInv, AcceptedStepInv, EvidenceStepInv
<1>4. ExclusiveInv' /\ NoLiveJobOrphaned'
  BY ExclusiveStepInv, OrphanStepInv
<1>. QED
  BY <1>1, <1>2, <1>3, <1>4

\* The inductive invariant holds in every reachable state.
THEOREM Invariance == Spec => []IInv
BY InitInv, StepInv, PTL DEF Spec

\* Every variable keeps its type: the rows, files and threads take only the values listed.
THEOREM TypeCorrect == Spec => []TypeOK
<1>1. IInv => TypeOK
  BY DEF IInv
<1>. QED
  BY Invariance, <1>1, PTL

\* Orphan recovery, retention sweep, lost writes and kills together never take the input of
\* an accepted job that has no terminal row: the "a job the database lists must still be able
\* to find its input" of ingress.scan.
THEOREM InputOfAcceptedJobKept == Spec => []AcceptedKeepsInput
<1>1. IInv => AcceptedKeepsInput
  BY DEF IInv
<1>. QED
  BY Invariance, <1>1, PTL

\* The row _process writes for a sha256 mismatch names a spool that is there.
THEOREM EvidenceOfMismatchKept == Spec => []EvidenceKept
<1>1. IInv => EvidenceKept
  BY DEF IInv
<1>. QED
  BY Invariance, <1>1, PTL

\* _recover_orphans fails no job that a claim thread of the one manager is working on.
THEOREM OrphansAreDead == Spec => []NoLiveJobOrphaned
<1>1. IInv => NoLiveJobOrphaned
  BY DEF IInv
<1>. QED
  BY Invariance, <1>1, PTL

\* No step takes a live or newly finished job's directory or output away.
LEMMA SparesStep ==
  ASSUME TypeOK, RequestInv, SweepInv, OutputInv, [Next]_vars
  PROVE  \A i \in Jobs : SparesLive(i)
<1> USE DEF TypeOK, InFlight, Settled, RequestInv, SweepInv, OutputInv, SparesLive
<1>1. ASSUME NEW j \in Jobs, AgeDir(j) PROVE \A i \in Jobs : SparesLive(i)
  BY <1>1 DEF AgeDir, storeVars, fsVars, runVars, sweepVars, procVars
<1>2. ASSUME NEW j \in Jobs, Spool(j) PROVE \A i \in Jobs : SparesLive(i)
  BY <1>2 DEF Spool, storeVars, fsVars, runVars, sweepVars, procVars
<1>3. ASSUME NEW j \in Jobs, SpoolEnds(j) PROVE \A i \in Jobs : SparesLive(i)
  BY <1>3 DEF SpoolEnds, RemoveSpool, storeVars, fsVars, runVars, sweepVars, procVars
<1>4. ASSUME NEW j \in Jobs, Ask(j) PROVE \A i \in Jobs : SparesLive(i)
  BY <1>4 DEF Ask, RemoveSpool, storeVars, fsVars, runVars, sweepVars, procVars
<1>5. ASSUME NEW m \in Managers, SweepRemove(m) PROVE \A i \in Jobs : SparesLive(i)
  BY <1>5 DEF SweepRemove, storeVars, fsVars, runVars, sweepVars, procVars
<1>6. ASSUME NEW t \in Threads, Publish(t) PROVE \A i \in Jobs : SparesLive(i)
  BY <1>6 DEF Publish, storeVars, fsVars, runVars, sweepVars, procVars
<1>7. CASE UNCHANGED <<dir, out>>
  BY <1>7
<1> HIDE DEF TypeOK, InFlight, Settled, RequestInv, SweepInv, OutputInv, SparesLive
<1>8. ASSUME NEW j \in Jobs, SpoolChanges(j) \/ AgeFinish(j) \/ Create(j) PROVE \A i \in Jobs : SparesLive(i)
  BY <1>8, <1>7 DEF SpoolChanges, AgeFinish, Create, storeVars, fsVars, runVars, sweepVars, procVars
<1>9. ASSUME NEW m \in Managers, \/ Start(m) \/ Refuse(m) \/ ListOrphans(m) \/ RecoverUnlink(m)
                                 \/ RecoverEnd(m) \/ Warm(m) \/ WarmEnds(m) \/ Exit(m) \/ Sigterm(m)
                                 \/ Killed(m) \/ SweepGet(m)
      PROVE \A i \in Jobs : SparesLive(i)
  BY <1>9, <1>7 DEF Start, Refuse, ListOrphans, RecoverUnlink, RecoverEnd, Warm, WarmEnds, Exit, Sigterm,
         Killed, SweepGet, storeVars, fsVars, runVars, sweepVars, procVars, Gone
<1>10. ASSUME NEW m \in Managers, NEW j \in Jobs, RecoverRow(m, j) \/ SweepStat(m, j) \/ SweepScratch(m, j) PROVE \A i \in Jobs : SparesLive(i)
  BY <1>10, <1>7 DEF RecoverRow, SweepStat, SweepScratch, storeVars, fsVars, runVars, sweepVars, procVars
<1>11. ASSUME NEW t \in Threads, \/ Claim(t) \/ ReadInput(t) \/ Validate(t) \/ Record(t)
                                 \/ RecordFailure(t) \/ Close(t)
      PROVE \A i \in Jobs : SparesLive(i)
  BY <1>11, <1>7 DEF Claim, ReadInput, Validate, Record, RecordFailure, Close, storeVars, fsVars, runVars,
         sweepVars, procVars
<1>12. CASE IngressKilled
  BY <1>12, <1>7 DEF IngressKilled, storeVars, fsVars, runVars, sweepVars, procVars
<1>13. CASE UNCHANGED vars
  BY <1>13, <1>7 DEF vars, storeVars, fsVars, runVars, sweepVars, procVars
<1>. QED
  BY <1>1, <1>2, <1>3, <1>4, <1>5, <1>6, <1>7, <1>8, <1>9, <1>10, <1>11, <1>12, <1>13
  DEF Next, RequestStep, ManagerStep, ProcessStep

\* _sweep_one's removal of a directory acts on a row it read earlier, and still spares every
\* live and newly finished job.
THEOREM SweepSparesLive == Spec => RetentionSparesLive
<1>1. IInv /\ [Next]_vars => [\A j \in Jobs : SparesLive(j)]_vars
  BY SparesStep DEF IInv
<1>. QED
  BY Invariance, <1>1, PTL DEF Spec, RetentionSparesLive

\* The initial states show initial states of the abstract lifecycle.
LEMMA LifecycleInit == Init => Lifecycle!AbsInit
BY DEF Init, Lifecycle!AbsInit, StatusShown, OutputShown, Judged, Aborted

\* A step the abstract lifecycle allows.
Shows == [Lifecycle!AbsNext]_(Lifecycle!absVars)

\* A row's compare-and-set from RUNNING to a terminal status shows as the job's conclusion.
LEMMA LifecycleConclude ==
  ASSUME TypeOK, NEW j \in Jobs, NEW v \in Terminal, NEW fence \in BOOLEAN, NEW o \in Outcome,
         fence => row[j] = "running", CasWrite(j, v, fence, o), UNCHANGED out
  PROVE  Shows
<1> USE DEF Shows
<1>1. CASE UNCHANGED row
  BY <1>1 DEF StatusShown, OutputShown, Lifecycle!absVars
<1>2. CASE row[j] = "running" /\ row' = [row EXCEPT ![j] = v]
  <2>1. PICK s \in {"judged", "aborted"} : StatusShown' = [StatusShown EXCEPT ![j] = s]
    <3>1. CASE v \in Judged
      <4>1. StatusShown' = [StatusShown EXCEPT ![j] = "judged"]
        BY <1>2, <3>1 DEF StatusShown, TypeOK, Judged, Aborted
      <4>. QED BY <4>1
    <3>2. CASE v \in Aborted
      <4>1. StatusShown' = [StatusShown EXCEPT ![j] = "aborted"]
        BY <1>2, <3>2 DEF StatusShown, TypeOK, Judged, Aborted
      <4>. QED BY <4>1
    <3>. QED
      BY <3>1, <3>2 DEF Terminal
  <2>2. StatusShown[j] = "running"
    BY <1>2 DEF StatusShown, Judged, Aborted
  <2>3. UNCHANGED OutputShown
    BY DEF OutputShown
  <2>4. Lifecycle!Conclude(j)
    BY <2>1, <2>2, <2>3 DEF Lifecycle!Conclude
  <2>. QED
    BY <2>4 DEF Lifecycle!AbsNext
<1>. QED
  BY <1>1, <1>2 DEF CasWrite

\* Every step of the pipeline shows as a step of the abstract lifecycle, or as none.
LEMMA LifecycleStep ==
  ASSUME IInv, [Next]_vars
  PROVE  Shows
<1> USE DEF Shows, Judged, Aborted
<1>0. TypeOK /\ RequestInv /\ ThreadInv /\ OutputInv
  BY DEF IInv
<1>1. ASSUME NEW j \in Jobs, Create(j) PROVE Shows
  <2>1. row[j] = "none" /\ UNCHANGED OutputShown
    BY <1>0, <1>1 DEF Create, RequestInv, OutputShown, fsVars
  <2>2. CASE UNCHANGED row
    BY <2>1, <2>2 DEF StatusShown, Lifecycle!absVars
  <2>3. CASE row' = [row EXCEPT ![j] = "queued"]
    <3>1. StatusShown[j] = "none" /\ StatusShown' = [StatusShown EXCEPT ![j] = "queued"]
      BY <1>0, <2>1, <2>3 DEF StatusShown, TypeOK
    <3>. QED
      BY <2>1, <3>1 DEF Lifecycle!AbsNext, Lifecycle!Enqueue
  <2>. QED
    BY <1>0, <1>1, <2>2, <2>3 DEF Create, TypeOK
<1>2. ASSUME NEW t \in Threads, Claim(t) PROVE Shows
  <2>1. PICK j \in Jobs : row[j] = "queued" /\ row' = [row EXCEPT ![j] = "running"]
    BY <1>2 DEF Claim
  <2>2. StatusShown[j] = "queued" /\ StatusShown' = [StatusShown EXCEPT ![j] = "running"]
    BY <1>0, <2>1 DEF StatusShown, TypeOK
  <2>3. UNCHANGED OutputShown
    BY <1>2 DEF Claim, OutputShown, fsVars
  <2>. QED
    BY <2>2, <2>3 DEF Lifecycle!AbsNext, Lifecycle!Begin
<1>3. ASSUME NEW t \in Threads, Record(t) \/ RecordFailure(t) PROVE Shows
  <2>1. cur[t] \in Jobs /\ res[t] \in Terminal /\ UNCHANGED out
    BY <1>0, <1>3 DEF Record, RecordFailure, TypeOK, InHandOK, Working, fsVars
  <2>2. PICK o \in Outcome : CasWrite(cur[t], res[t], Fenced(t), o)
    BY <1>3 DEF Record, RecordFailure
  <2>3. Fenced(t) \in BOOLEAN /\ (Fenced(t) => row[cur[t]] = "running")
    BY DEF Fenced
  <2>. QED
    BY <1>0, <2>1, <2>2, <2>3, LifecycleConclude
<1>4. ASSUME NEW m \in Managers, NEW j \in Jobs, RecoverRow(m, j) PROVE Shows
  <2>1. UNCHANGED out
    BY <1>4 DEF RecoverRow, fsVars
  <2>2. PICK o \in Outcome : CasWrite(j, "orphan", row[j] = "running", o)
    BY <1>4 DEF RecoverRow
  <2>3. "orphan" \in Terminal
    BY DEF Terminal
  <2>. QED
    BY <1>0, <2>1, <2>2, <2>3, LifecycleConclude
<1>5. ASSUME NEW t \in Threads, Publish(t) PROVE Shows
  <2>1. cur[t] \in Jobs /\ row[cur[t]] \in Judged
    BY <1>0, <1>5 DEF Publish, TypeOK, InHandOK, ThreadInv, Working
  <2>2. StatusShown[cur[t]] = "judged" /\ UNCHANGED StatusShown
    BY <1>5, <2>1 DEF Publish, StatusShown, storeVars
  <2>3. OutputShown' \in {OutputShown, OutputShown \cup {cur[t]}}
    BY <1>0, <1>5, <2>1 DEF Publish, OutputShown, TypeOK
  <2>. QED
    BY <2>1, <2>2, <2>3 DEF Lifecycle!AbsNext, Lifecycle!Reveal, Lifecycle!absVars
<1>6. ASSUME NEW m \in Managers, SweepRemove(m) PROVE Shows
  <2>1. UNCHANGED StatusShown
    BY <1>6 DEF SweepRemove, StatusShown, storeVars
  <2>2. CASE swjob[m] \in OutputShown
    <3>1. swjob[m] \in Jobs /\ StatusShown[swjob[m]] = "judged"
      BY <1>0, <2>2 DEF OutputShown, OutputInv, StatusShown
    <3>2. OutputShown' = OutputShown \ {swjob[m]}
      BY <1>0, <1>6, <3>1 DEF SweepRemove, OutputShown, TypeOK
    <3>. QED
      BY <2>1, <3>1, <3>2 DEF Lifecycle!AbsNext, Lifecycle!Expire
  <2>3. CASE swjob[m] \notin OutputShown
    <3>1. UNCHANGED OutputShown
      BY <1>0, <1>6, <2>3 DEF SweepRemove, OutputShown, TypeOK
    <3>. QED
      BY <2>1, <3>1 DEF Lifecycle!absVars
  <2>. QED
    BY <2>2, <2>3
<1>7. CASE UNCHANGED <<row, out>>
  BY <1>7 DEF StatusShown, OutputShown, Lifecycle!absVars
<1> HIDE DEF Shows
<1>8. ASSUME NEW j \in Jobs, \/ SpoolChanges(j) \/ AgeDir(j) \/ AgeFinish(j) \/ Spool(j)
                             \/ SpoolEnds(j) \/ Ask(j)
      PROVE  UNCHANGED <<row, out>>
  BY <1>8 DEF SpoolChanges, AgeDir, AgeFinish, Spool, SpoolEnds, Ask, RemoveSpool,
         storeVars, fsVars
<1>9. ASSUME NEW m \in Managers, \/ Start(m) \/ Refuse(m) \/ ListOrphans(m) \/ RecoverUnlink(m)
                                 \/ RecoverEnd(m) \/ Warm(m) \/ WarmEnds(m) \/ Exit(m)
                                 \/ Sigterm(m) \/ Killed(m) \/ SweepGet(m)
      PROVE  UNCHANGED <<row, out>>
  BY <1>9 DEF Start, Refuse, ListOrphans, RecoverUnlink, RecoverEnd, Warm, WarmEnds, Exit,
         Sigterm, Killed, SweepGet, Gone, storeVars, fsVars
<1>10. ASSUME NEW m \in Managers, NEW j \in Jobs, SweepStat(m, j) \/ SweepScratch(m, j) PROVE UNCHANGED <<row, out>>
  BY <1>10 DEF SweepStat, SweepScratch, storeVars, fsVars
<1>11. ASSUME NEW t \in Threads, ReadInput(t) \/ Validate(t) \/ Close(t) PROVE UNCHANGED <<row, out>>
  BY <1>11 DEF ReadInput, Validate, Close, storeVars, fsVars
<1>12. IngressKilled \/ UNCHANGED vars => UNCHANGED <<row, out>>
  BY DEF IngressKilled, vars, storeVars, fsVars
<1>. QED
  BY <1>1, <1>2, <1>3, <1>4, <1>5, <1>6, <1>7, <1>8, <1>9, <1>10, <1>11, <1>12
  DEF Next, RequestStep, ManagerStep, ProcessStep

\* Ingress, store, managers and retention together implement the one-verdict lifecycle.
THEOREM PipelineImplementsLifecycle == Spec => ImplementsLifecycle
BY LifecycleInit, LifecycleStep, Invariance, PTL DEF Spec, Shows, Lifecycle!AbsSpec, ImplementsLifecycle

=============================================================================
