---------------------------- MODULE MCOperations ----------------------------
(* A server's loop and a second scheduler over one store.                     *)
EXTENDS OperationsScheduler, TLC

SchedulerSymmetry == Permutations(Schedulers)
=============================================================================
