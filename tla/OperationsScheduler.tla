------------------------- MODULE OperationsScheduler ------------------------
(* The ticks of the local operations schedulers over one store: the loop of   *)
(* the server, a tick that an administrator requests, and schedulers of other *)
(* processes (marvis/operations/scheduler.py, lifecycle.py).  Outcomes become *)
(* outbox items, one per period.                                              *)
EXTENDS RunLeases, FiniteSets

CONSTANTS
    Schedulers,
    Budget,         \* catch_up_budget of a tick
    CatchUp,        \* catch_up_budget of a schedule
    NotifyBudget,   \* notification_budget of a tick
    MaxSends,
    CrashLimit,     \* bound: schedulers that die
    Nothing         \* no period

ASSUME SchedulerBounds ==
    /\ Budget \in Nat \ {0} /\ CatchUp \in Nat \ {0} /\ NotifyBudget \in Nat
    /\ MaxSends \in Nat \ {0} /\ CrashLimit \in Nat /\ Nothing \notin Periods

VARIABLES
    note, sends, noteDue, noteLive, inbox,
    pc,
    active,         \* revisions of the enabled schedules as the tick read them, 0 for the others
    retry,          \* the retryable periods as the tick read them
    turn,           \* schedules that may still have an unseen period due
    left, tried,    \* budget left, and attempts per schedule
    target, held,   \* period or item under lease, and the attempt that holds it
    crashes

Outbox == INSTANCE NotificationOutbox WITH Items <- Periods

outboxVars == <<note, sends, noteDue, noteLive, inbox>>
listVars == <<active, retry, turn, tried>>
claimVars == <<target, held>>
vars == <<scheduleVars, leaseVars, outboxVars, pc, listVars, left, claimVars, crashes>>

Running == {"execute", "complete", "fail"}
Sending == {"deliver", "sent", "unsent"}
Places == {"idle", "loop", "claim", "enqueue", "expire", "send"} \cup Running \cup Sending

MaxHeld == IF MaxSends > MaxAttempts THEN MaxSends ELSE MaxAttempts
NotActive == [s \in Schedules |-> 0]

TypeOK ==
    /\ LeaseTypeOK /\ Outbox!OutboxTypeOK
    /\ pc \in [Schedulers -> Places]
    /\ active \in [Schedulers -> [Schedules -> 0..MaxRevision]]
    /\ turn \in [Schedulers -> SUBSET Schedules]
    /\ left \in [Schedulers -> Int]
    /\ tried \in [Schedulers -> [Schedules -> Nat]]
    /\ target \in [Schedulers -> Periods \cup {Nothing}]
    /\ held \in [Schedulers -> 0..MaxHeld]
    /\ crashes \in 0..CrashLimit

Init ==
    /\ LeaseInit /\ Outbox!OutboxInit
    /\ pc = [p \in Schedulers |-> "idle"]
    /\ active = [p \in Schedulers |-> NotActive]
    /\ retry = [p \in Schedulers |-> <<>>]
    /\ turn = [p \in Schedulers |-> {}]
    /\ left = [p \in Schedulers |-> 0]
    /\ tried = [p \in Schedulers |-> NotActive]
    /\ target = [p \in Schedulers |-> Nothing]
    /\ held = [p \in Schedulers |-> 0]
    /\ crashes = 0

Goto(p, place) == pc' = [pc EXCEPT ![p] = place]
Hold(p, k, attempt) ==
    /\ target' = [target EXCEPT ![p] = k]
    /\ held' = [held EXCEPT ![p] = attempt]
Drop(p, place) == Goto(p, place) /\ Hold(p, Nothing, 0)
Spend(p) == left' = [left EXCEPT ![p] = @ - 1]
(* What a tick has read is gone when its loops are left.                      *)
Forget(p) ==
    /\ active' = [active EXCEPT ![p] = NotActive]
    /\ retry' = [retry EXCEPT ![p] = <<>>]
    /\ turn' = [turn EXCEPT ![p] = {}]
    /\ tried' = [tried EXCEPT ![p] = NotActive]

Enabled(p) == {s \in Schedules : active[p][s] > 0}
Allowed(p, s) == left[p] > 0 /\ tried[p][s] < CatchUp

-----------------------------------------------------------------------------
(* tick: expired leases are recovered; then the enabled schedules are read,   *)
(* and at most as many retryable periods as the budget.                       *)
BeginTick(p) ==
    /\ pc[p] = "idle"
    /\ RecoverExpiredLeases
    /\ active' = [active EXCEPT ![p] = [s \in Schedules |-> IF enabled[s] THEN revision[s] ELSE 0]]
    /\ retry' = [retry EXCEPT ![p] = SubSeq(retryable, 1,
                    IF Len(retryable) < Budget THEN Len(retryable) ELSE Budget)]
    /\ turn' = [turn EXCEPT ![p] = {s \in Schedules : enabled[s]}]
    /\ left' = [left EXCEPT ![p] = Budget]
    /\ Goto(p, "loop")
    /\ UNCHANGED <<tried, outboxVars, claimVars, crashes>>

(* A period is claimed in one of the loops and its executor is called.        *)
Claimed(p, k) ==
    /\ ClaimPeriod(k)
    /\ Goto(p, "execute") /\ Hold(p, k, attempts[k] + 1)
    /\ Spend(p)
    /\ tried' = [tried EXCEPT ![p][k[1]] = @ + 1]

NextRetry(p, k) ==
    /\ pc[p] = "loop" /\ retry[p] # <<>> /\ left[p] > 0
    /\ k = Head(retry[p])
    /\ retry' = [retry EXCEPT ![p] = Tail(@)]

(* A retry is claimed for the revision in its row, which no unseen period has. *)
Pinned == 0

ClaimRetry(p, k) ==
    /\ NextRetry(p, k)
    /\ k[1] \in Enabled(p) /\ Allowed(p, k[1]) /\ Claimable(k, Pinned)
    /\ Claimed(p, k)
    /\ UNCHANGED <<active, turn, outboxVars, crashes>>

SkipRetry(p, k) ==
    /\ NextRetry(p, k)
    /\ ~(k[1] \in Enabled(p) /\ Allowed(p, k[1]) /\ Claimable(k, Pinned))
    /\ UNCHANGED <<pc, active, turn, tried, left, claimVars>>
    /\ UNCHANGED <<scheduleVars, leaseVars, outboxVars, crashes>>

(* After the retries, the enabled schedules take turns in passes until none   *)
(* has made progress; their order within a pass is left open.                 *)
Turn(p, s) ==
    /\ pc[p] = "loop" /\ retry[p] = <<>> /\ left[p] > 0
    /\ s \in turn[p]

PickUnseen(p, k) ==
    /\ Turn(p, k[1]) /\ Allowed(p, k[1]) /\ Unseen(k)
    /\ Goto(p, "claim") /\ Hold(p, k, 0)
    /\ UNCHANGED <<listVars, left, scheduleVars, leaseVars, outboxVars, crashes>>

SkipSchedule(p, s) ==
    /\ Turn(p, s)
    /\ ~(Allowed(p, s) /\ \E n \in 1..MaxPeriods : Unseen(<<s, n>>))
    /\ turn' = [turn EXCEPT ![p] = @ \ {s}]
    /\ UNCHANGED <<pc, active, retry, tried, left, claimVars>>
    /\ UNCHANGED <<scheduleVars, leaseVars, outboxVars, crashes>>

(* By now somebody else may have claimed the period, published a revision or  *)
(* disabled the schedule.                                                     *)
ClaimUnseen(p, k) ==
    /\ pc[p] = "claim" /\ target[p] = k
    /\ Claimable(k, active[p][k[1]])
    /\ Claimed(p, k)
    /\ turn' = [turn EXCEPT ![p] = Enabled(p)]
    /\ UNCHANGED <<active, retry, outboxVars, crashes>>

ClaimRefused(p, k) ==
    /\ pc[p] = "claim" /\ target[p] = k
    /\ ~Claimable(k, active[p][k[1]])
    /\ Drop(p, "loop")
    /\ turn' = [turn EXCEPT ![p] = @ \ {k[1]}]
    /\ UNCHANGED <<active, retry, tried, left, scheduleVars, leaseVars, outboxVars, crashes>>

-----------------------------------------------------------------------------
(* _execute_claim.  The executor returns an outcome or raises.  The clock is  *)
(* read before the store is locked: a lease that has run out by then is       *)
(* refused by complete_run and by fail_run, and the attempt is dropped.       *)
Execute(p, k) ==
    /\ pc[p] = "execute" /\ target[p] = k
    /\ IF Current(k, held[p]) /\ live[k]
       THEN (\E place \in {"complete", "fail"} : Goto(p, place)) /\ UNCHANGED claimVars
       ELSE Drop(p, "loop")
    /\ UNCHANGED <<listVars, left, scheduleVars, leaseVars, outboxVars, crashes>>

Complete(p, k) ==
    /\ pc[p] = "complete" /\ target[p] = k
    /\ Current(k, held[p])
    /\ CompleteRun(k, held[p])
    /\ Goto(p, "enqueue")
    /\ UNCHANGED <<listVars, left, claimVars, outboxVars, crashes>>

Fail(p, k) ==
    /\ pc[p] = "fail" /\ target[p] = k
    /\ Current(k, held[p])
    /\ AttemptFailure({k})
    /\ Drop(p, "loop")
    /\ UNCHANGED <<listVars, left, outboxVars, crashes>>

(* StaleRunLeaseError, from both.                                             *)
StaleRun(p, k) ==
    /\ pc[p] \in {"complete", "fail"} /\ target[p] = k
    /\ ~Current(k, held[p])
    /\ Drop(p, "loop")
    /\ UNCHANGED <<listVars, left, scheduleVars, leaseVars, outboxVars, crashes>>

(* The outcome is queued, unless that fails.                                  *)
EnqueueOutcome(p, k) ==
    /\ pc[p] = "enqueue" /\ target[p] = k
    /\ Outbox!Enqueue({k}) \/ UNCHANGED outboxVars
    /\ Drop(p, "loop")
    /\ UNCHANGED <<listVars, left, scheduleVars, leaseVars, crashes>>

-----------------------------------------------------------------------------
(* _flush_notifications.                                                      *)
LoopsEnded(p) ==
    /\ pc[p] = "loop"
    /\ left[p] = 0 \/ (retry[p] = <<>> /\ turn[p] = {})
Missing == {k \in Periods : state[k] = "succeeded" /\ note[k] = "none"}

(* Mutation: an outcome is queued by the scheduler that recorded it, or never. *)
FlushWithoutReconciling(p) ==
    /\ LoopsEnded(p)
    /\ Goto(p, "expire") /\ Forget(p)
    /\ left' = [left EXCEPT ![p] = NotifyBudget]
    /\ UNCHANGED <<claimVars, scheduleVars, leaseVars, outboxVars, crashes>>

(* _reconcile_missing_outbox_records.                                         *)
Flush(p) ==
    /\ LoopsEnded(p)
    /\ \E K \in SUBSET Missing :
        /\ K = Missing \/ Cardinality(K) = NotifyBudget
        /\ Cardinality(K) <= NotifyBudget
        /\ Outbox!Enqueue(K)
    /\ Goto(p, "expire") /\ Forget(p)
    /\ left' = [left EXCEPT ![p] = NotifyBudget]
    /\ UNCHANGED <<claimVars, scheduleVars, leaseVars, crashes>>

ExpireSends(p) ==
    /\ pc[p] = "expire"
    /\ Outbox!RecoverExpiredSends
    /\ Goto(p, "send")
    /\ UNCHANGED <<listVars, left, claimVars, scheduleVars, leaseVars, crashes>>

ClaimSend(p, k) ==
    /\ pc[p] = "send" /\ left[p] > 0 /\ Outbox!Sendable(k)
    /\ Outbox!ClaimNotification(k)
    /\ Goto(p, "deliver") /\ Hold(p, k, sends[k] + 1)
    /\ Spend(p)
    /\ UNCHANGED <<listVars, scheduleVars, leaseVars, crashes>>

(* The adapter stores the item or raises; the clock is read afterwards.       *)
Deliver(p, k) ==
    /\ pc[p] = "deliver" /\ target[p] = k
    /\ \E place \in {"sent", "unsent"} :
        /\ IF place = "sent" THEN Outbox!Store(k) ELSE UNCHANGED outboxVars
        /\ IF Outbox!NoteCurrent(k, held[p]) /\ noteLive[k]
           THEN Goto(p, place) /\ UNCHANGED claimVars
           ELSE Drop(p, "send")
    /\ UNCHANGED <<listVars, left, scheduleVars, leaseVars, crashes>>

FinishSend(p, k) ==
    /\ pc[p] \in {"sent", "unsent"} /\ target[p] = k
    /\ Outbox!NoteCurrent(k, held[p])
    /\ IF pc[p] = "sent" THEN Outbox!CompleteNotification(k) ELSE Outbox!SendFailure({k})
    /\ Drop(p, "send")
    /\ UNCHANGED <<listVars, left, scheduleVars, leaseVars, crashes>>

(* StaleNotificationLeaseError.                                               *)
StaleSend(p, k) ==
    /\ pc[p] \in {"sent", "unsent"} /\ target[p] = k
    /\ ~Outbox!NoteCurrent(k, held[p])
    /\ Drop(p, "send")
    /\ UNCHANGED <<listVars, left, scheduleVars, leaseVars, outboxVars, crashes>>

EndTick(p) ==
    /\ pc[p] = "send" /\ (left[p] = 0 \/ \A k \in Periods : ~Outbox!Sendable(k))
    /\ Goto(p, "idle") /\ left' = [left EXCEPT ![p] = 0]
    /\ UNCHANGED <<listVars, claimVars, scheduleVars, leaseVars, outboxVars, crashes>>

-----------------------------------------------------------------------------
(* The thread is gone with its process; a lease it held runs out later.       *)
Crash(p) ==
    /\ pc[p] # "idle" /\ crashes < CrashLimit
    /\ crashes' = crashes + 1
    /\ Drop(p, "idle") /\ Forget(p)
    /\ left' = [left EXCEPT ![p] = 0]
    /\ UNCHANGED <<scheduleVars, leaseVars, outboxVars>>

OutboxMoves ==
    /\ \E k \in Periods : Outbox!SendLeaseRunsOut(k) \/ Outbox!SendBackoffElapses(k)
    /\ UNCHANGED <<scheduleVars, leaseVars, pc, listVars, left, claimVars, crashes>>

LeaseMoves ==
    /\ \/ \E k \in Periods : LeaseRunsOut(k) \/ BackoffElapses(k)
       \/ \E s \in Schedules : PeriodEnds(s) \/ Publish(s)
    /\ UNCHANGED <<outboxVars, pc, listVars, left, claimVars, crashes>>

Tick(p) ==
    \/ BeginTick(p) \/ Flush(p) \/ ExpireSends(p) \/ EndTick(p)
    \/ \E s \in Schedules : SkipSchedule(p, s)
    \/ \E k \in Periods :
        \/ ClaimRetry(p, k) \/ SkipRetry(p, k) \/ PickUnseen(p, k)
        \/ ClaimUnseen(p, k) \/ ClaimRefused(p, k)
        \/ Execute(p, k) \/ Complete(p, k) \/ Fail(p, k) \/ StaleRun(p, k) \/ EnqueueOutcome(p, k)
        \/ ClaimSend(p, k) \/ Deliver(p, k) \/ FinishSend(p, k) \/ StaleSend(p, k)

Next == OutboxMoves \/ LeaseMoves \/ \E p \in Schedulers : Tick(p) \/ Crash(p)

Spec == Init /\ [][Next]_vars

-----------------------------------------------------------------------------
(* FAIRNESS.  The loop of a server ticks again and again, an executor and an  *)
(* adapter return, backoffs elapse, and a lease that nobody is left to renew  *)
(* runs out.  A lease in use may run out or not, and nobody has to publish.   *)
Orphaned(k) == \A p \in Schedulers : ~(pc[p] \in Running /\ target[p] = k /\ held[p] = attempts[k])
SendOrphaned(k) == \A p \in Schedulers : ~(pc[p] \in Sending /\ target[p] = k /\ held[p] = sends[k])
Quiet == UNCHANGED <<pc, listVars, left, claimVars, crashes>>

Fairness ==
    /\ \A p \in Schedulers : WF_vars(Tick(p))
    /\ \A k \in Periods :
        /\ WF_vars(Orphaned(k) /\ LeaseRunsOut(k) /\ UNCHANGED outboxVars /\ Quiet)
        /\ WF_vars(BackoffElapses(k) /\ UNCHANGED outboxVars /\ Quiet)
        /\ WF_vars(SendOrphaned(k) /\ Outbox!SendLeaseRunsOut(k)
                   /\ UNCHANGED <<scheduleVars, leaseVars>> /\ Quiet)
        /\ WF_vars(Outbox!SendBackoffElapses(k) /\ UNCHANGED <<scheduleVars, leaseVars>> /\ Quiet)

FairSpec == Spec /\ Fairness

-----------------------------------------------------------------------------
(* PROPERTIES.                                                                *)

(* The rows of periods and outcomes agree.                                    *)
RowsOK ==
    /\ \A k \in Periods :
        /\ state[k] = "unseen" <=> attempts[k] = 0
        /\ live[k] => state[k] = "running"
        /\ state[k] = "terminal_failed" => attempts[k] = MaxAttempts
        /\ state[k] = "retry_wait" => attempts[k] < MaxAttempts
        /\ state[k] = "succeeded" => <<k, attempts[k]>> \in outcomes
    /\ \A o \in outcomes : state[o[1]] = "succeeded" /\ o[2] = attempts[o[1]]

(* The outbox and the inbox follow the outcomes.                              *)
NotesOK ==
    /\ inbox \subseteq {k \in Periods : note[k] # "none"}
    /\ \A k \in Periods :
        /\ note[k] # "none" => state[k] = "succeeded"
        /\ note[k] = "none" => sends[k] = 0
        /\ noteLive[k] => note[k] = "sending"
        /\ note[k] = "pending" => sends[k] < MaxSends
        /\ note[k] = "sent" => k \in inbox

(* What a scheduler holds: a period or an item, and an attempt that has been  *)
(* claimed and is held by nobody else.                                        *)
HoldsRun(p) == pc[p] \in Running
HoldsSend(p) == pc[p] \in Sending
HeldOK(p) ==
    /\ pc[p] \in {"claim", "enqueue"} \cup Running \cup Sending <=> target[p] # Nothing
    /\ HoldsRun(p) => held[p] \in 1..attempts[target[p]]
    /\ HoldsSend(p) => held[p] \in 1..sends[target[p]]
    /\ HoldsSend(p) => note[target[p]] # "none"
    /\ pc[p] = "enqueue" => state[target[p]] = "succeeded"
    /\ pc[p] = "sent" => target[p] \in inbox
DistinctHolders ==
    \A p, q \in Schedulers :
        /\ (HoldsRun(p) /\ HoldsRun(q)) \/ (HoldsSend(p) /\ HoldsSend(q))
        /\ target[p] = target[q] /\ held[p] = held[q]
        => p = q

(* Schedulers that race for the next period leave none out: a period has a    *)
(* row only when it has ended and all earlier ones of its schedule have one   *)
(* (next_unseen_due_period).                                                  *)
PeriodsInOrder ==
    \A k \in Periods : state[k] # "unseen" =>
        /\ k[2] <= ended[k[1]]
        /\ \A n \in 1..MaxPeriods : n < k[2] => state[<<k[1], n>>] # "unseen"

(* The same of a period that a scheduler has picked and not claimed yet.      *)
PickedOK(p) ==
    pc[p] = "claim" =>
        /\ target[p][2] <= ended[target[p][1]]
        /\ \A n \in 1..MaxPeriods : n < target[p][2] => state[<<target[p][1], n>>] # "unseen"

(* Rows, inbox and schedulers agree at every moment; inductive.               *)
OperationsInv ==
    /\ TypeOK /\ RowsOK /\ NotesOK /\ DistinctHolders /\ PeriodsInOrder
    /\ \A p \in Schedulers : HeldOK(p) /\ PickedOK(p)

(* The outcome of a period is the one of the last attempt that was claimed:   *)
(* an executor that outlived its lease decides nothing, and once there is an  *)
(* outcome nothing more is tried (complete_run, recover_expired_leases).      *)
LatestAttemptDecides ==
    \A o \in outcomes :
        /\ state[o[1]] = "succeeded" /\ o[2] = attempts[o[1]]
        /\ \A other \in outcomes : other[1] = o[1] => other = o

(* A notification is marked sent only when the recipient's inbox has it, even *)
(* when its lease ran out and another scheduler sent it again, and the inbox  *)
(* has committed outcomes only (_flush_notifications).                        *)
SentIsReceived ==
    /\ \A k \in Periods : note[k] = "sent" => k \in inbox
    /\ \A k \in inbox : state[k] = "succeeded"

(* No attempt starts once the schedule is disabled, although the tick read it *)
(* as enabled (claim_period).                                                 *)
DisabledIsQuiet == [][\A k \in Periods : attempts'[k] # attempts[k] => enabled[k[1]]]_vars

(* What monitoring promises, whoever runs it.                                 *)
Promise == INSTANCE MonitoringPromise WITH
    admitted  <- {k \in Periods : state[k] # "unseen"},
    tries     <- attempts,
    verdict   <- [k \in Periods |-> CASE state[k] = "succeeded"       -> "outcome"
                                      [] state[k] = "terminal_failed" -> "given_up"
                                      [] OTHER                        -> "open"],
    announced <- inbox
ImplementsPromise == Promise!Spec

(* A period that has ended while its schedule stays enabled is decided in the *)
(* end, whatever crashes, races and failures come between (tick).             *)
Settled(k) == state[k] \in {"succeeded", "terminal_failed"}
DuePeriodsSettle ==
    \A k \in Periods : (<>[]enabled[k[1]]) => (k[2] <= ended[k[1]] ~> Settled(k))

(* The outcome of a period is delivered or its sends are used up, also when   *)
(* the scheduler died between the outcome and its notification                *)
(* (_reconcile_missing_outbox_records, recover_expired_notification_leases).  *)
OutcomesAnnounced ==
    \A k \in Periods : state[k] = "succeeded" ~> note[k] \in {"sent", "exhausted"}
=============================================================================
