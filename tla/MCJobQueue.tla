----------------------------- MODULE MCJobQueue -----------------------------
(* Instances of JobQueue for TLC. *)
EXTENDS JobQueue, TLC

CONSTANTS j1, j2, w1, w2

Three == (j1 :> 3)
(* The default of enqueue, and a job with a retry. *)
TwoAndThree == (j1 :> 2) @@ (j2 :> 3)

CodeBackoff == <<30, 120, 300>>
(* What tests/workers/test_retry_policy.py patches in. *)
TestBackoff == <<0, 0, 0>>
=============================================================================
