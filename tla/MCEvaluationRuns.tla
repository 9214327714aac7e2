-------------------------- MODULE MCEvaluationRuns --------------------------
(***************************************************************************)
(* Instances of EvaluationRuns for TLC.                                    *)
(***************************************************************************)
EXTENDS EvaluationRuns, TLC
=============================================================================
