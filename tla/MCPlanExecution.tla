-------------------------- MODULE MCPlanExecution --------------------------
(* Instances of PlanExecution for TLC.                                        *)
EXTENDS PlanExecution, TLC

(* Two steps in a chain.                                                      *)
ChainDeps == (1 :> {}) @@ (2 :> {1})
=============================================================================
