---------------------------- MODULE JobLifecycle ----------------------------
(***************************************************************************)
(* What the submission tier promises about one job, without threads,       *)
(* processes, files or failures: a job is queued once, claimed once and    *)
(* concluded once; a sealed output is visible only for a job that was      *)
(* judged, and retention alone takes it away again.  JobPipeline is shown  *)
(* to implement this specification.                                        *)
(***************************************************************************)

CONSTANT Jobs

VARIABLES
  status,     \* the job's status
  visible     \* jobs whose sealed output a reader can see

absVars == <<status, visible>>

\* "judged": a validation's verdict is in the row; "aborted": the row says why
\* there is none (an error, a changed spool, an orphaned claim).
Statuses == {"none", "queued", "running", "judged", "aborted"}

AbsInit ==
  /\ status = [j \in Jobs |-> "none"]
  /\ visible = {}

Enqueue(j) ==
  /\ status[j] = "none"
  /\ status' = [status EXCEPT ![j] = "queued"]
  /\ UNCHANGED visible

Begin(j) ==
  /\ status[j] = "queued"
  /\ status' = [status EXCEPT ![j] = "running"]
  /\ UNCHANGED visible

Conclude(j) ==
  /\ status[j] = "running"
  /\ \E s \in {"judged", "aborted"} : status' = [status EXCEPT ![j] = s]
  /\ UNCHANGED visible

Reveal(j) ==
  /\ status[j] = "judged"
  /\ visible' = visible \cup {j}
  /\ UNCHANGED status

Expire(j) ==
  /\ status[j] = "judged"
  /\ visible' = visible \ {j}
  /\ UNCHANGED status

AbsNext == \E j \in Jobs : Enqueue(j) \/ Begin(j) \/ Conclude(j) \/ Reveal(j) \/ Expire(j)

AbsSpec == AbsInit /\ [][AbsNext]_absVars

=============================================================================
