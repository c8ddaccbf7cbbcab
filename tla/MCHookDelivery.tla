--------------------------- MODULE MCHookDelivery ---------------------------
(* A step of the feature plugin with a required hook for each of its events;  *)
(* one process hangs, the other one recovers or reconciles.                   *)
EXTENDS HookDelivery, TLC

ProcessSymmetry == Permutations(Processes)
=============================================================================
