----------------------------- MODULE RunLeases ------------------------------
(* The periods of the local schedules and the leases under which they are run *)
(* (marvis/operations/repository.py).  Every operator below is one            *)
(* transaction of the store; who calls it is in OperationsScheduler.          *)
EXTENDS Integers, Sequences

CONSTANTS
    Schedules,
    MaxPeriods,    \* bound: periods of a schedule
    MaxRevision,   \* bound: published revisions of a schedule
    MaxAttempts    \* RetryPolicy.max_attempts

ASSUME LeaseBounds ==
    /\ MaxPeriods \in Nat \ {0} /\ MaxRevision \in Nat \ {0} /\ MaxAttempts \in Nat \ {0}

Periods == Schedules \X (1..MaxPeriods)

VARIABLES
    revision, enabled,  \* the latest revision of a schedule and its enabled flag
    ended,              \* (world) how many of its periods have ended
    state,              \* operations_periods.state, unseen without a row
    attempts,           \* operations_periods.attempt_count
    live,               \* lease_expires_at is still to come
    retryable,          \* rows in retry_wait whose next_attempt_at has passed, oldest first
    outcomes            \* operations_outcomes: <<period, attempt of its run>>

scheduleVars == <<revision, enabled, ended>>
leaseVars == <<state, attempts, live, retryable, outcomes>>

States == {"unseen", "running", "retry_wait", "succeeded", "terminal_failed"}

LeaseTypeOK ==
    /\ revision \in [Schedules -> 1..MaxRevision]
    /\ enabled \in [Schedules -> BOOLEAN]
    /\ ended \in [Schedules -> 0..MaxPeriods]
    /\ state \in [Periods -> States]
    /\ attempts \in [Periods -> 0..MaxAttempts]
    /\ live \in [Periods -> BOOLEAN]
    /\ outcomes \subseteq Periods \X (1..MaxAttempts)

LeaseInit ==
    /\ revision = [s \in Schedules |-> 1] /\ enabled = [s \in Schedules |-> TRUE]
    /\ ended = [s \in Schedules |-> 0]
    /\ state = [k \in Periods |-> "unseen"]
    /\ attempts = [k \in Periods |-> 0]
    /\ live = [k \in Periods |-> FALSE]
    /\ retryable = <<>> /\ outcomes = {}

Queued(k) == \E i \in DOMAIN retryable : retryable[i] = k

-----------------------------------------------------------------------------
(* The world, and publish_schedule.                                           *)
PeriodEnds(s) ==
    /\ ended[s] < MaxPeriods
    /\ ended' = [ended EXCEPT ![s] = @ + 1]
    /\ UNCHANGED <<revision, enabled, leaseVars>>

Publish(s) ==
    /\ revision[s] < MaxRevision
    /\ revision' = [revision EXCEPT ![s] = @ + 1]
    /\ \E on \in BOOLEAN : enabled' = [enabled EXCEPT ![s] = on]
    /\ UNCHANGED <<ended, leaseVars>>

(* A lease runs out when it is not renewed in time; renew_run_lease moves the *)
(* end of a lease that is live and never brings one back.                     *)
LeaseRunsOut(k) ==
    /\ state[k] = "running" /\ live[k]
    /\ live' = [live EXCEPT ![k] = FALSE]
    /\ UNCHANGED <<scheduleVars, state, attempts, retryable, outcomes>>

(* next_attempt_at passes: the row is younger than those already due.         *)
BackoffElapses(k) ==
    /\ state[k] = "retry_wait" /\ ~Queued(k)
    /\ retryable' = Append(retryable, k)
    /\ UNCHANGED <<scheduleVars, state, attempts, live, outcomes>>

-----------------------------------------------------------------------------
(* next_unseen_due_period: the oldest ended period after the last one that    *)
(* has a row.                                                                 *)
Unseen(k) ==
    /\ state[k] = "unseen" /\ k[2] <= ended[k[1]]
    /\ \A n \in 1..MaxPeriods : state[<<k[1], n>>] # "unseen" <=> n < k[2]

(* claim_period on behalf of revision r of the schedule.                      *)
Claimable(k, r) ==
    /\ enabled[k[1]]
    /\ \/ state[k] = "unseen" /\ revision[k[1]] = r
       \/ state[k] = "retry_wait" /\ Queued(k) /\ attempts[k] < MaxAttempts

ClaimPeriod(k) ==
    /\ state' = [state EXCEPT ![k] = "running"]
    /\ attempts' = [attempts EXCEPT ![k] = @ + 1]
    /\ live' = [live EXCEPT ![k] = TRUE]
    /\ retryable' = SelectSeq(retryable, LAMBDA q : q # k)
    /\ UNCHANGED <<scheduleVars, outcomes>>

(* Mutation: the lease token is not compared.                                 *)
RunningAtAll(k, attempt) == state[k] = "running" /\ attempt > 0

(* The run of this attempt still has its lease token in the row.              *)
Current(k, attempt) == state[k] = "running" /\ attempts[k] = attempt

CompleteRun(k, attempt) ==
    /\ outcomes' = outcomes \cup {<<k, attempt>>}
    /\ state' = [state EXCEPT ![k] = "succeeded"]
    /\ live' = [live EXCEPT ![k] = FALSE]
    /\ UNCHANGED <<scheduleVars, attempts, retryable>>

(* Mutation: the attempt that failed is not counted.                          *)
FailureUncounted(K) ==
    /\ state' = [k \in Periods |->
                    IF k \notin K THEN state[k]
                    ELSE IF attempts[k] > MaxAttempts THEN "terminal_failed" ELSE "retry_wait"]
    /\ live' = [k \in Periods |-> k \notin K /\ live[k]]
    /\ UNCHANGED <<scheduleVars, attempts, retryable, outcomes>>

(* _record_attempt_failure, of one row or of every expired one.               *)
AttemptFailure(K) ==
    /\ state' = [k \in Periods |->
                    IF k \notin K THEN state[k]
                    ELSE IF attempts[k] >= MaxAttempts THEN "terminal_failed" ELSE "retry_wait"]
    /\ live' = [k \in Periods |-> k \notin K /\ live[k]]
    /\ UNCHANGED <<scheduleVars, attempts, retryable, outcomes>>

(* Mutation: the state of the row is not looked at.                           *)
WithoutLease == {k \in Periods : state[k] # "unseen" /\ ~live[k]}

Expired == {k \in Periods : state[k] = "running" /\ ~live[k]}

(* Mutation: nobody recovers the lease of a dead scheduler.                   *)
RecoverNothing == AttemptFailure({})

RecoverExpiredLeases == AttemptFailure(Expired)
=============================================================================
