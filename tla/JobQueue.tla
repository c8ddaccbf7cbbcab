------------------------------ MODULE JobQueue ------------------------------
(* The rows one task has in the jobs table (marvis/repositories/tasks.py) and *)
(* the handler or background callback that works for each of them.  Rows of   *)
(* different tasks never meet: the unique index, the registries and every     *)
(* query of this component are keyed by the task.                             *)
CONSTANTS
    Jobs,      \* job ids, each inserted at most once
    NoJob,     \* no job
    Workflows  \* the kinds the jobs of a task may have: one function per task type

Kinds == {"agent", "report", "driver", "join"}

ASSUME JobsAssumption == NoJob \notin Jobs
ASSUME WorkflowsAssumption == Workflows \subseteq [Jobs -> Kinds]

VARIABLES
    kind,      \* jobs.kind
    jobStatus, \* jobs.status, "none" before the row exists
    worker,    \* where the handler or callback of the job is
    up         \* the server process runs

slotVars == <<kind, jobStatus, worker, up>>

JobStatuses == {"none", "queued", "running", "succeeded", "failed", "cancelled"}

(* claimed: the row is running; working: before the first look at a           *)
(* cancellation; stage: inside a notebook stage; body, after: the rest of the *)
(* work; finishing: the row is finished, the callback has still to clean up.  *)
Executing == {"claimed", "working", "body", "stage", "after", "hung"}
Workers == {"none", "inserted", "scheduled", "finishing", "ended"} \cup Executing

Active(j) == jobStatus[j] \in {"queued", "running"}

SlotInit ==
    /\ kind \in Workflows
    /\ jobStatus = [j \in Jobs |-> "none"]
    /\ worker = [j \in Jobs |-> "none"]
    /\ up = TRUE

(* Mutation: the index is not unique. *)
InsertRowAlways(j) ==
    /\ jobStatus[j] = "none"
    /\ jobStatus' = [jobStatus EXCEPT ![j] = "queued"]

(* The insertion start_job makes: the unique index refuses a second active row. *)
InsertRow(j) ==
    /\ jobStatus[j] = "none"
    /\ \A i \in Jobs : ~Active(i)
    /\ jobStatus' = [jobStatus EXCEPT ![j] = "queued"]

(* Mutation: the update names the row and does not look at its status. *)
ClaimableByName(j) == jobStatus[j] # "none"

(* mark_job_running: the update claims a row only while it is queued.         *)
Claimable(j) == jobStatus[j] = "queued"
ClaimRow(j) == jobStatus' = [jobStatus EXCEPT ![j] = "running"]

(* finish_job: a row that is no longer active is left as it is.               *)
FinishRow(j, s) ==
    jobStatus' = [jobStatus EXCEPT ![j] = IF Active(j) THEN s ELSE @]

Go(j, where) == worker' = [worker EXCEPT ![j] = where]

(* Mutation: without include_running the sweep releases nothing at all. *)
StaleNever(j) == FALSE

(* The periodic sweep, which runs without include_running: a queued row whose *)
(* callback has not claimed it in time is failed.                             *)
Stale(j) == jobStatus[j] = "queued"

Sweep(j) ==
    /\ up /\ Stale(j)
    /\ FinishRow(j, "failed")
    /\ UNCHANGED <<kind, worker, up>>

(* The process exits; the rows stay.                                          *)
Exit ==
    /\ up
    /\ up' = FALSE
    /\ worker' = [j \in Jobs |-> IF worker[j] = "none" THEN "none" ELSE "ended"]
    /\ UNCHANGED <<kind, jobStatus>>

(* Startup fails every row of the previous process before requests are served. *)
Boot ==
    /\ ~up
    /\ up' = TRUE
    /\ jobStatus' = [j \in Jobs |-> IF Active(j) THEN "failed" ELSE jobStatus[j]]
    /\ UNCHANGED <<kind, worker>>
=============================================================================
