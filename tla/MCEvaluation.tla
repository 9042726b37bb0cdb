---------------------------- MODULE MCEvaluation ----------------------------
(***************************************************************************)
(* Instance of the evaluation job for TLC: recording a run under           *)
(* redelivery, and the scoring pass.  The two share no state, so a         *)
(* behaviour is a behaviour of one of them.                                *)
(***************************************************************************)
EXTENDS EvaluationRecording, EvaluationMetrics, TLC

CONSTANTS j1, j2, e1, e2, e3, c1, c2

VARIABLE part

MCInit ==
    /\ Init /\ ScoringInit
    /\ part \in {"recording", "scoring"}

MCNext ==
    \/ part = "recording" /\ Next /\ UNCHANGED <<metricVars, part>>
    \/ part = "scoring" /\ ScoringNext /\ UNCHANGED <<vars, part>>

MCSpec == MCInit /\ [][MCNext]_<<vars, metricVars, part>>

(* Jobs and executions are interchangeable; the run has no liveness. *)
Symmetry == Permutations(Jobs) \cup Permutations(Executions)
=============================================================================
