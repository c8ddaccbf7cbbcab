----------------------------- MODULE TaskLease ------------------------------
(* What the jobs table promises about one task: its work is done under a      *)
(* lease.  A job takes the lease once, at most one executor works, it works   *)
(* for the job that holds the lease, and the lease of a working executor is   *)
(* given up by that executor alone, unless its process is gone.               *)
CONSTANTS Jobs, NoJob

VARIABLES holder, \* the job that holds the task, or NoJob
          busy,   \* the job an executor works for, or NoJob
          over    \* jobs that have given the lease up

Init == holder = NoJob /\ busy = NoJob /\ over = {}

Acquire(j) ==
    /\ holder = NoJob /\ j \notin over
    /\ holder' = j
    /\ UNCHANGED <<busy, over>>

Work(j) ==
    /\ holder = j /\ busy = NoJob
    /\ busy' = j
    /\ UNCHANGED <<holder, over>>

(* An executor returns, or nobody works and the holder is dismissed.          *)
Release(j) ==
    /\ holder = j /\ busy \in {j, NoJob}
    /\ holder' = NoJob /\ busy' = NoJob
    /\ over' = over \cup {j}

(* The process of the executor dies; the lease is still recorded.             *)
Lose ==
    /\ busy # NoJob
    /\ busy' = NoJob
    /\ UNCHANGED <<holder, over>>

Next == Lose \/ \E j \in Jobs : Acquire(j) \/ Work(j) \/ Release(j)

Spec == Init /\ [][Next]_<<holder, busy, over>>
=============================================================================
