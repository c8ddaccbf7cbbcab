------------------------- MODULE MCHoldoutEvaluation -------------------------
(* Two calls, two models, two recoveries.                                     *)
EXTENDS HoldoutEvaluation
=============================================================================
