--------------------------- MODULE MCJobPipeline ---------------------------
(* Instances of JobPipeline for TLC. *)
EXTENDS JobPipeline, TLC

CONSTANTS j1, j2, m1, m2, t1, t2

\* Two managers with one claim thread each.
OwnerEach == (t1 :> m1) @@ (t2 :> m2)

\* One manager with every claim thread.
OwnerOne == [t \in Threads |-> m1]
=============================================================================
