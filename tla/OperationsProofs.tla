-------------------------- MODULE OperationsProofs --------------------------
(* The operations schedulers for every number of schedulers, schedules,       *)
(* periods and attempts: OperationsInv is inductive, and the safety           *)
(* properties of the run and the refinement of MonitoringPromise follow.      *)
EXTENDS OperationsScheduler, TLAPS

ProcessOK(p) == HeldOK(p) /\ PickedOK(p)

(* What a step never takes back.                                              *)
LeaseGrows ==
    /\ \A k \in Periods :
        /\ attempts[k] <= attempts'[k]
        /\ state[k] = "succeeded" => state'[k] = "succeeded"
        /\ state[k] # "unseen" => state'[k] # "unseen"
    /\ \A s \in Schedules : ended[s] <= ended'[s]
OutboxGrows ==
    /\ \A k \in Periods : sends[k] <= sends'[k] /\ (note[k] # "none" => note'[k] # "none")
    /\ inbox \subseteq inbox'

SchedulerTypeOK ==
    /\ pc \in [Schedulers -> Places]
    /\ active \in [Schedulers -> [Schedules -> 0..MaxRevision]]
    /\ turn \in [Schedulers -> SUBSET Schedules]
    /\ left \in [Schedulers -> Int]
    /\ tried \in [Schedulers -> [Schedules -> Nat]]
    /\ target \in [Schedulers -> Periods \cup {Nothing}]
    /\ held \in [Schedulers -> 0..MaxHeld]
    /\ crashes \in 0..CrashLimit

RowsInv == LeaseTypeOK /\ RowsOK /\ PeriodsInOrder
NotesInv == Outbox!OutboxTypeOK /\ NotesOK

LEMMA InvParts ==
    OperationsInv <=> /\ RowsInv /\ NotesInv /\ SchedulerTypeOK /\ DistinctHolders
                      /\ \A p \in Schedulers : ProcessOK(p)
BY DEF OperationsInv, TypeOK, RowsInv, NotesInv, SchedulerTypeOK, ProcessOK

-----------------------------------------------------------------------------
(* The transactions of the store on the rows of periods.                      *)
LEMMA NumbersOfRows ==
    ASSUME LeaseTypeOK
    PROVE  /\ \A k \in Periods : attempts[k] \in Nat /\ k[1] \in Schedules /\ k[2] \in 1..MaxPeriods
                                 /\ k = <<k[1], k[2]>>
           /\ \A s \in Schedules : ended[s] \in Nat
BY LeaseBounds DEF LeaseTypeOK, Periods

LEMMA ClaimPeriodOK ==
    ASSUME RowsInv, NEW k \in Periods, NEW r, Claimable(k, r), ClaimPeriod(k),
           state[k] = "unseen" =>
                /\ k[2] <= ended[k[1]]
                /\ \A n \in 1..MaxPeriods : n < k[2] => state[<<k[1], n>>] # "unseen"
    PROVE  /\ RowsInv' /\ LeaseGrows
           /\ attempts'[k] = attempts[k] + 1 /\ attempts'[k] <= MaxAttempts
           /\ state[k] \notin {"succeeded", "terminal_failed", "running"}
<1>0. /\ \A j \in Periods : attempts[j] \in Nat /\ j[1] \in Schedules /\ j[2] \in 1..MaxPeriods
                             /\ j = <<j[1], j[2]>>
      /\ \A s \in Schedules : ended[s] \in Nat
    BY NumbersOfRows DEF RowsInv
<1> USE <1>0, LeaseBounds DEF ClaimPeriod, Claimable, RowsInv, LeaseTypeOK, RowsOK, scheduleVars
<1>1. attempts[k] < MaxAttempts /\ state[k] \in {"unseen", "retry_wait"}
    <2>1. state[k] = "unseen" => attempts[k] = 0
        OBVIOUS
    <2> QED
        BY <2>1
<1>2. LeaseTypeOK'
    BY <1>1 DEF States
<1>3. RowsOK'
    BY <1>1, <1>2
<1>4. PeriodsInOrder'
    BY <1>1, <1>2 DEF PeriodsInOrder
<1>5. LeaseGrows
    BY <1>1 DEF LeaseGrows
<1> QED
    BY <1>1, <1>2, <1>3, <1>4, <1>5

LEMMA CompleteRunOK ==
    ASSUME RowsInv, NEW k \in Periods, NEW a, Current(k, a), CompleteRun(k, a)
    PROVE  RowsInv' /\ LeaseGrows /\ state'[k] = "succeeded"
<1>0. /\ \A j \in Periods : attempts[j] \in Nat /\ j[1] \in Schedules /\ j[2] \in 1..MaxPeriods
                             /\ j = <<j[1], j[2]>>
      /\ \A s \in Schedules : ended[s] \in Nat
    BY NumbersOfRows DEF RowsInv
<1> USE <1>0, LeaseBounds DEF CompleteRun, Current, RowsInv, LeaseTypeOK, RowsOK, scheduleVars
<1>1. attempts[k] \in 1..MaxAttempts
    <2>1. attempts[k] \in 0..MaxAttempts /\ attempts[k] # 0
        OBVIOUS
    <2> QED
        BY <2>1
<1>2. LeaseTypeOK'
    BY <1>1 DEF States
<1>3. RowsOK'
    BY <1>1, <1>2
<1>4. PeriodsInOrder' /\ LeaseGrows
    BY DEF PeriodsInOrder, LeaseGrows
<1> QED
    BY <1>2, <1>3, <1>4

LEMMA AttemptFailureOK ==
    ASSUME RowsInv, NEW K, AttemptFailure(K),
           \A k \in Periods : k \in K => state[k] = "running"
    PROVE  RowsInv' /\ LeaseGrows
<1>0. /\ \A j \in Periods : attempts[j] \in Nat /\ attempts[j] <= MaxAttempts
      /\ \A s \in Schedules : ended[s] \in Nat
    BY NumbersOfRows, LeaseBounds DEF RowsInv, LeaseTypeOK
<1>1. /\ UNCHANGED <<revision, enabled, ended, attempts, outcomes>>
      /\ LeaseTypeOK'
    BY LeaseBounds DEF AttemptFailure, RowsInv, LeaseTypeOK, States, scheduleVars
<1>2. ASSUME NEW j \in Periods
      PROVE  /\ live'[j] => live[j] /\ state'[j] = state[j]
             /\ \/ state'[j] = state[j]
                \/ /\ state[j] = "running"
                   /\ \/ state'[j] = "terminal_failed" /\ attempts[j] >= MaxAttempts
                      \/ state'[j] = "retry_wait" /\ ~(attempts[j] >= MaxAttempts)
    BY <1>2 DEF AttemptFailure
<1>3. RowsOK'
    <2>1. ASSUME NEW j \in Periods
          PROVE  /\ state'[j] = "unseen" <=> attempts'[j] = 0
                 /\ live'[j] => state'[j] = "running"
                 /\ state'[j] = "terminal_failed" => attempts'[j] = MaxAttempts
                 /\ state'[j] = "retry_wait" => attempts'[j] < MaxAttempts
                 /\ state'[j] = "succeeded" => <<j, attempts'[j]>> \in outcomes'
        BY <1>0, <1>1, <1>2, <2>1, LeaseBounds DEF RowsInv, RowsOK
    <2>2. ASSUME NEW o \in outcomes' PROVE state'[o[1]] = "succeeded" /\ o[2] = attempts'[o[1]]
        <3>1. o[1] \in Periods /\ state[o[1]] = "succeeded" /\ o[2] = attempts[o[1]]
            BY <1>1, <2>2 DEF RowsInv, LeaseTypeOK, RowsOK
        <3> QED
            BY <1>1, <1>2, <3>1
    <2> QED
        BY <2>1, <2>2 DEF RowsOK
<1>4. PeriodsInOrder'
    <2>1. \A j \in Periods : state'[j] # "unseen" <=> state[j] # "unseen"
        BY <1>2
    <2>2. \A j \in Periods, n \in 1..MaxPeriods : <<j[1], n>> \in Periods
        BY DEF Periods
    <2> QED
        BY <1>1, <2>1, <2>2 DEF RowsInv, PeriodsInOrder
<1>5. LeaseGrows
    BY <1>0, <1>1, <1>2 DEF LeaseGrows
<1> QED
    BY <1>1, <1>3, <1>4, <1>5 DEF RowsInv

LEMMA WorldOfRowsOK ==
    ASSUME RowsInv,
           \/ \E k \in Periods : LeaseRunsOut(k) \/ BackoffElapses(k)
           \/ \E s \in Schedules : PeriodEnds(s) \/ Publish(s)
    PROVE  RowsInv' /\ LeaseGrows
<1>0. /\ \A j \in Periods : attempts[j] \in Nat /\ j[1] \in Schedules /\ j[2] \in 1..MaxPeriods
                             /\ j = <<j[1], j[2]>>
      /\ \A s \in Schedules : ended[s] \in Nat
    BY NumbersOfRows DEF RowsInv
<1> USE <1>0, LeaseBounds
    DEF RowsInv, LeaseTypeOK, RowsOK, scheduleVars, leaseVars, PeriodsInOrder, LeaseGrows
<1>1. ASSUME NEW k \in Periods, LeaseRunsOut(k) \/ BackoffElapses(k) PROVE RowsInv' /\ LeaseGrows
    <2>1. /\ UNCHANGED <<revision, enabled, ended, state, attempts, outcomes>>
          /\ live' \in [Periods -> BOOLEAN] /\ \A j \in Periods : live'[j] => live[j]
        <3>1. CASE LeaseRunsOut(k)
            BY <3>1 DEF LeaseRunsOut
        <3>2. CASE BackoffElapses(k)
            BY <3>2 DEF BackoffElapses
        <3> QED
            BY <1>1, <3>1, <3>2
    <2>2. LeaseTypeOK'
        BY <1>1 DEF LeaseRunsOut, BackoffElapses
    <2>3. RowsOK'
        BY <2>1
    <2>4. PeriodsInOrder' /\ LeaseGrows
        BY <2>1
    <2> QED
        BY <2>2, <2>3, <2>4
<1>2. ASSUME NEW s \in Schedules, PeriodEnds(s) PROVE RowsInv' /\ LeaseGrows
    BY <1>2 DEF PeriodEnds
<1>3. ASSUME NEW s \in Schedules, Publish(s) PROVE RowsInv' /\ LeaseGrows
    BY <1>3 DEF Publish
<1> QED
    BY <1>1, <1>2, <1>3

LEMMA RowsKept ==
    ASSUME RowsInv, UNCHANGED <<scheduleVars, leaseVars>>
    PROVE  RowsInv' /\ LeaseGrows
BY NumbersOfRows
DEF RowsInv, LeaseTypeOK, RowsOK, PeriodsInOrder, LeaseGrows, scheduleVars, leaseVars

-----------------------------------------------------------------------------
(* The transactions of the store on the outbox, and the inbox.                *)
LEMMA NumbersOfNotes ==
    ASSUME Outbox!OutboxTypeOK
    PROVE  \A k \in Periods : sends[k] \in Nat /\ sends[k] <= MaxSends
BY SchedulerBounds DEF Outbox!OutboxTypeOK

(* What the rows of periods give the outbox.                                  *)
LEMMA NotesKept ==
    ASSUME NotesInv, UNCHANGED outboxVars, LeaseGrows
    PROVE  NotesInv' /\ OutboxGrows
BY NumbersOfNotes
DEF NotesInv, NotesOK, Outbox!OutboxTypeOK, OutboxGrows, LeaseGrows, outboxVars

LEMMA EnqueueOK ==
    ASSUME NotesInv, NEW K, Outbox!Enqueue(K), UNCHANGED state,
           \A k \in Periods : k \in K => state[k] = "succeeded"
    PROVE  NotesInv' /\ OutboxGrows
<1>0. \A k \in Periods : sends[k] \in Nat /\ sends[k] <= MaxSends
    BY NumbersOfNotes DEF NotesInv
<1>1. Outbox!OutboxTypeOK' /\ UNCHANGED <<sends, noteLive, inbox>>
    BY DEF NotesInv, Outbox!OutboxTypeOK, Outbox!Enqueue
<1>2. ASSUME NEW k \in Periods
      PROVE  note'[k] = note[k]
             \/ (note[k] = "none" /\ note'[k] = "pending" /\ state[k] = "succeeded")
    BY DEF Outbox!Enqueue
<1>3. NotesOK'
    BY <1>0, <1>1, <1>2, SchedulerBounds DEF NotesInv, NotesOK
<1> QED
    BY <1>0, <1>1, <1>2, <1>3 DEF NotesInv, OutboxGrows

LEMMA ClaimNotificationOK ==
    ASSUME NotesInv, NEW k \in Periods, Outbox!Sendable(k), Outbox!ClaimNotification(k),
           UNCHANGED state
    PROVE  /\ NotesInv' /\ OutboxGrows
           /\ sends'[k] = sends[k] + 1 /\ sends'[k] <= MaxSends /\ note'[k] = "sending"
<1>0. \A j \in Periods : sends[j] \in Nat /\ sends[j] <= MaxSends
    BY NumbersOfNotes DEF NotesInv
<1>1. note[k] = "pending" /\ sends[k] < MaxSends
    BY DEF NotesInv, NotesOK, Outbox!Sendable
<1>2. Outbox!OutboxTypeOK'
    BY <1>0, <1>1, SchedulerBounds DEF NotesInv, Outbox!OutboxTypeOK, Outbox!ClaimNotification
<1>3. NotesOK' /\ OutboxGrows
    BY <1>0, <1>1
    DEF NotesInv, NotesOK, OutboxGrows, Outbox!OutboxTypeOK, Outbox!ClaimNotification
<1> QED
    BY <1>0, <1>1, <1>2, <1>3 DEF NotesInv, Outbox!OutboxTypeOK, Outbox!ClaimNotification

LEMMA StoreOK ==
    ASSUME NotesInv, NEW k \in Periods, Outbox!Store(k), note[k] # "none", UNCHANGED state
    PROVE  NotesInv' /\ OutboxGrows /\ k \in inbox'
BY NumbersOfNotes DEF NotesInv, NotesOK, OutboxGrows, Outbox!OutboxTypeOK, Outbox!Store

LEMMA CompleteNotificationOK ==
    ASSUME NotesInv, NEW k \in Periods, Outbox!CompleteNotification(k), k \in inbox,
           UNCHANGED state
    PROVE  NotesInv' /\ OutboxGrows
BY NumbersOfNotes
DEF NotesInv, NotesOK, OutboxGrows, Outbox!OutboxTypeOK, Outbox!CompleteNotification

LEMMA SendFailureOK ==
    ASSUME NotesInv, NEW K, Outbox!SendFailure(K), UNCHANGED state,
           \A k \in Periods : k \in K => note[k] = "sending"
    PROVE  NotesInv' /\ OutboxGrows
<1>0. \A k \in Periods : sends[k] \in Nat /\ sends[k] <= MaxSends
    BY NumbersOfNotes DEF NotesInv
<1>1. Outbox!OutboxTypeOK' /\ UNCHANGED <<sends, inbox>>
    BY DEF NotesInv, Outbox!OutboxTypeOK, Outbox!SendFailure
<1>2. ASSUME NEW k \in Periods
      PROVE  \/ note'[k] = note[k] /\ (noteLive'[k] => noteLive[k])
             \/ /\ note[k] = "sending" /\ ~noteLive'[k]
                /\ \/ note'[k] = "exhausted"
                   \/ note'[k] = "pending" /\ ~(sends[k] >= MaxSends)
    BY DEF Outbox!SendFailure
<1>3. NotesOK'
    BY <1>0, <1>1, <1>2, SchedulerBounds DEF NotesInv, NotesOK
<1> QED
    BY <1>0, <1>1, <1>2, <1>3 DEF NotesInv, OutboxGrows

LEMMA WorldOfNotesOK ==
    ASSUME NotesInv, UNCHANGED state,
           \E k \in Periods : Outbox!SendLeaseRunsOut(k) \/ Outbox!SendBackoffElapses(k)
    PROVE  NotesInv' /\ OutboxGrows
<1>0. \A k \in Periods : sends[k] \in Nat /\ sends[k] <= MaxSends
    BY NumbersOfNotes DEF NotesInv
<1>1. /\ UNCHANGED <<note, sends, inbox>> /\ Outbox!OutboxTypeOK'
      /\ \A k \in Periods : noteLive'[k] => noteLive[k]
    BY DEF NotesInv, Outbox!OutboxTypeOK, Outbox!SendLeaseRunsOut, Outbox!SendBackoffElapses
<1> QED
    BY <1>0, <1>1 DEF NotesInv, NotesOK, OutboxGrows

-----------------------------------------------------------------------------
(* The schedulers.                                                            *)
SameThread(q) == pc'[q] = pc[q] /\ target'[q] = target[q] /\ held'[q] = held[q]
SameHold(p) == target'[p] = target[p] /\ held'[p] = held[p]
Grow == LeaseGrows /\ OutboxGrows

LEMMA Bystander ==
    ASSUME OperationsInv, RowsInv', NotesInv', Grow,
           NEW q \in Schedulers, SameThread(q)
    PROVE  ProcessOK(q)'
<1>1. /\ HeldOK(q) /\ PickedOK(q) /\ target[q] \in Periods \cup {Nothing} /\ held[q] \in Nat
      /\ \A k \in Periods : /\ attempts[k] \in Nat /\ sends[k] \in Nat
                            /\ attempts'[k] \in Nat /\ sends'[k] \in Nat
                            /\ k[1] \in Schedules /\ k[2] \in Nat
                            /\ \A n \in 1..MaxPeriods : <<k[1], n>> \in Periods
      /\ \A s \in Schedules : ended[s] \in Nat /\ ended'[s] \in Nat
    BY InvParts, NumbersOfRows, NumbersOfNotes, LeaseBounds
    DEF ProcessOK, RowsInv, NotesInv, SchedulerTypeOK, LeaseTypeOK, Outbox!OutboxTypeOK, Periods
<1>2. HeldOK(q)'
    BY <1>1
    DEF HeldOK, HoldsRun, HoldsSend, SameThread, Grow, LeaseGrows, OutboxGrows, Running, Sending
<1>3. PickedOK(q)'
    <2> SUFFICES ASSUME pc[q] = "claim" PROVE PickedOK(q)'
        BY DEF PickedOK, SameThread
    <2>1. target[q] \in Periods
        BY <1>1 DEF HeldOK
    <2> QED
        BY <1>1, <2>1 DEF PickedOK, SameThread, Grow, LeaseGrows
<1> QED
    BY <1>2, <1>3 DEF ProcessOK

(* What a scheduler newly holds is held by nobody else.                       *)
FreshHold(p) ==
    /\ HoldsRun(p)' => (HoldsRun(p) /\ SameHold(p)) \/ held'[p] > attempts[target'[p]]
    /\ HoldsSend(p)' => (HoldsSend(p) /\ SameHold(p)) \/ held'[p] > sends[target'[p]]

LEMMA OneScheduler ==
    ASSUME OperationsInv, RowsInv', NotesInv', SchedulerTypeOK', Grow,
           NEW p \in Schedulers, ProcessOK(p)', FreshHold(p),
           \A q \in Schedulers \ {p} : SameThread(q)
    PROVE  OperationsInv'
<1>1. ASSUME NEW q \in Schedulers, q # p PROVE ProcessOK(q)'
    BY <1>1, Bystander
<1>2. ASSUME NEW q \in Schedulers, q # p, target[q] = target'[p], held[q] = held'[p]
      PROVE  ~(HoldsRun(q) /\ HoldsRun(p)') /\ ~(HoldsSend(q) /\ HoldsSend(p)')
    <2>1. DistinctHolders /\ HeldOK(q) /\ \A k \in Periods : attempts[k] \in Nat /\ sends[k] \in Nat
        BY InvParts, NumbersOfRows, NumbersOfNotes DEF ProcessOK, RowsInv, NotesInv
    <2>2. HoldsRun(q) \/ HoldsSend(q) => target[q] \in Periods
        BY <2>1, InvParts DEF HeldOK, HoldsRun, HoldsSend, SchedulerTypeOK
    <2> QED
        BY <1>2, <2>1, <2>2 DEF DistinctHolders, FreshHold, SameHold, HeldOK
<1>3. DistinctHolders'
    BY <1>2 DEF OperationsInv, DistinctHolders, SameThread, HoldsRun, HoldsSend
<1> QED
    BY <1>1, <1>3, InvParts
    DEF OperationsInv, TypeOK, SchedulerTypeOK, RowsInv, NotesInv, ProcessOK

(* The budget and the lists aside, a step changes nothing but where the       *)
(* scheduler is.                                                              *)
LEMMA QuietStep ==
    ASSUME OperationsInv, UNCHANGED <<scheduleVars, leaseVars, outboxVars>>, SchedulerTypeOK',
           NEW p \in Schedulers, ProcessOK(p)',
           HoldsRun(p)' => HoldsRun(p) /\ SameHold(p),
           HoldsSend(p)' => HoldsSend(p) /\ SameHold(p),
           \A q \in Schedulers \ {p} : SameThread(q)
    PROVE  OperationsInv'
<1>1. RowsInv' /\ LeaseGrows
    BY RowsKept, InvParts
<1>2. NotesInv' /\ OutboxGrows
    BY <1>1, NotesKept, InvParts
<1> QED
    BY <1>1, <1>2, OneScheduler DEF Grow, FreshHold

(* Every step of a scheduler, one lemma each.                                 *)
LEMMA SkipRetryOK ==
    ASSUME OperationsInv, NEW p \in Schedulers, NEW k \in Periods, SkipRetry(p, k)
    PROVE  OperationsInv'
<1>0. /\ SchedulerTypeOK /\ RowsInv /\ NotesInv /\ ProcessOK(p) /\ Nothing \notin Periods
      /\ Running \subseteq Places /\ Sending \subseteq Places /\ 0 \in 0..MaxHeld
      /\ MaxHeld \in Nat /\ MaxAttempts <= MaxHeld /\ MaxSends <= MaxHeld
      /\ \A j \in Periods : j[1] \in Schedules /\ attempts[j] \in Nat /\ sends[j] \in Nat
    BY InvParts, NumbersOfRows, NumbersOfNotes, SchedulerBounds, LeaseBounds
    DEF Places, MaxHeld, RowsInv, NotesInv
<1>1. UNCHANGED <<scheduleVars, leaseVars, outboxVars>>
    BY DEF SkipRetry, NextRetry
<1>2. SchedulerTypeOK'
    <2>1. pc' \in [Schedulers -> Places] /\ crashes' \in 0..CrashLimit
        BY <1>0, SchedulerBounds
        DEF SchedulerTypeOK, SkipRetry, NextRetry, Places, Running, Sending, claimVars
    <2>2. /\ active' \in [Schedulers -> [Schedules -> 0..MaxRevision]]
          /\ turn' \in [Schedulers -> SUBSET Schedules]
        BY <1>0, LeaseBounds
        DEF SchedulerTypeOK, RowsInv, LeaseTypeOK, SkipRetry, NextRetry, claimVars
    <2>3. left' \in [Schedulers -> Int] /\ tried' \in [Schedulers -> [Schedules -> Nat]]
        BY <1>0, SchedulerBounds DEF SchedulerTypeOK, SkipRetry, NextRetry, claimVars
    <2>4. /\ target' \in [Schedulers -> Periods \cup {Nothing}]
          /\ held' \in [Schedulers -> 0..MaxHeld]
        BY <1>0 DEF SchedulerTypeOK, SkipRetry, NextRetry, claimVars
    <2> QED
        BY <2>1, <2>2, <2>3, <2>4 DEF SchedulerTypeOK
<1>3. \A q \in Schedulers \ {p} : SameThread(q)
    BY <1>0 DEF SchedulerTypeOK, SameThread, SkipRetry, NextRetry, claimVars
<1>4. /\ ProcessOK(p)'
      /\ HoldsRun(p)' => HoldsRun(p) /\ SameHold(p)
      /\ HoldsSend(p)' => HoldsSend(p) /\ SameHold(p)
    BY <1>0, <1>1
    DEF SchedulerTypeOK, ProcessOK, HeldOK, PickedOK, HoldsRun, HoldsSend, SameHold, Running,
        Sending, SkipRetry, NextRetry, claimVars, scheduleVars, leaseVars, outboxVars
<1> QED
    BY <1>1, <1>2, <1>3, <1>4, QuietStep

LEMMA PickUnseenOK ==
    ASSUME OperationsInv, NEW p \in Schedulers, NEW k \in Periods, PickUnseen(p, k)
    PROVE  OperationsInv'
<1>0. /\ SchedulerTypeOK /\ RowsInv /\ NotesInv /\ ProcessOK(p) /\ Nothing \notin Periods
      /\ Running \subseteq Places /\ Sending \subseteq Places /\ 0 \in 0..MaxHeld
      /\ MaxHeld \in Nat /\ MaxAttempts <= MaxHeld /\ MaxSends <= MaxHeld
      /\ \A j \in Periods : j[1] \in Schedules /\ attempts[j] \in Nat /\ sends[j] \in Nat
    BY InvParts, NumbersOfRows, NumbersOfNotes, SchedulerBounds, LeaseBounds
    DEF Places, MaxHeld, RowsInv, NotesInv
<1>1. UNCHANGED <<scheduleVars, leaseVars, outboxVars>>
    BY DEF PickUnseen, Turn
<1>2. SchedulerTypeOK'
    <2>1. pc' \in [Schedulers -> Places] /\ crashes' \in 0..CrashLimit
        BY <1>0, SchedulerBounds
        DEF SchedulerTypeOK, PickUnseen, Turn, Places, Running, Sending, Goto, Hold, listVars
    <2>2. /\ active' \in [Schedulers -> [Schedules -> 0..MaxRevision]]
          /\ turn' \in [Schedulers -> SUBSET Schedules]
        BY <1>0, LeaseBounds
        DEF SchedulerTypeOK, RowsInv, LeaseTypeOK, PickUnseen, Turn, Goto, Hold, listVars
    <2>3. left' \in [Schedulers -> Int] /\ tried' \in [Schedulers -> [Schedules -> Nat]]
        BY <1>0, SchedulerBounds DEF SchedulerTypeOK, PickUnseen, Turn, Goto, Hold, listVars
    <2>4. /\ target' \in [Schedulers -> Periods \cup {Nothing}]
          /\ held' \in [Schedulers -> 0..MaxHeld]
        BY <1>0 DEF SchedulerTypeOK, PickUnseen, Turn, Goto, Hold, listVars
    <2> QED
        BY <2>1, <2>2, <2>3, <2>4 DEF SchedulerTypeOK
<1>3. \A q \in Schedulers \ {p} : SameThread(q)
    BY <1>0 DEF SchedulerTypeOK, SameThread, PickUnseen, Turn, Goto, Hold, listVars
<1>4. /\ ProcessOK(p)'
      /\ HoldsRun(p)' => HoldsRun(p) /\ SameHold(p)
      /\ HoldsSend(p)' => HoldsSend(p) /\ SameHold(p)
    BY <1>0, <1>1
    DEF SchedulerTypeOK, ProcessOK, HeldOK, PickedOK, HoldsRun, HoldsSend, SameHold, Running,
        Sending, PickUnseen, Turn, Goto, Hold, listVars, scheduleVars, leaseVars, outboxVars,
        Unseen
<1> QED
    BY <1>1, <1>2, <1>3, <1>4, QuietStep

LEMMA SkipScheduleOK ==
    ASSUME OperationsInv, NEW p \in Schedulers, NEW s \in Schedules, SkipSchedule(p, s)
    PROVE  OperationsInv'
<1>0. /\ SchedulerTypeOK /\ RowsInv /\ NotesInv /\ ProcessOK(p) /\ Nothing \notin Periods
      /\ Running \subseteq Places /\ Sending \subseteq Places /\ 0 \in 0..MaxHeld
      /\ MaxHeld \in Nat /\ MaxAttempts <= MaxHeld /\ MaxSends <= MaxHeld
      /\ \A j \in Periods : j[1] \in Schedules /\ attempts[j] \in Nat /\ sends[j] \in Nat
    BY InvParts, NumbersOfRows, NumbersOfNotes, SchedulerBounds, LeaseBounds
    DEF Places, MaxHeld, RowsInv, NotesInv
<1>1. UNCHANGED <<scheduleVars, leaseVars, outboxVars>>
    BY DEF SkipSchedule, Turn
<1>2. SchedulerTypeOK'
    <2>1. pc' \in [Schedulers -> Places] /\ crashes' \in 0..CrashLimit
        BY <1>0, SchedulerBounds
        DEF SchedulerTypeOK, SkipSchedule, Turn, Places, Running, Sending, claimVars
    <2>2. /\ active' \in [Schedulers -> [Schedules -> 0..MaxRevision]]
          /\ turn' \in [Schedulers -> SUBSET Schedules]
        BY <1>0, LeaseBounds
        DEF SchedulerTypeOK, RowsInv, LeaseTypeOK, SkipSchedule, Turn, claimVars
    <2>3. left' \in [Schedulers -> Int] /\ tried' \in [Schedulers -> [Schedules -> Nat]]
        BY <1>0, SchedulerBounds DEF SchedulerTypeOK, SkipSchedule, Turn, claimVars
    <2>4. /\ target' \in [Schedulers -> Periods \cup {Nothing}]
          /\ held' \in [Schedulers -> 0..MaxHeld]
        BY <1>0 DEF SchedulerTypeOK, SkipSchedule, Turn, claimVars
    <2> QED
        BY <2>1, <2>2, <2>3, <2>4 DEF SchedulerTypeOK
<1>3. \A q \in Schedulers \ {p} : SameThread(q)
    BY <1>0 DEF SchedulerTypeOK, SameThread, SkipSchedule, Turn, claimVars
<1>4. /\ ProcessOK(p)'
      /\ HoldsRun(p)' => HoldsRun(p) /\ SameHold(p)
      /\ HoldsSend(p)' => HoldsSend(p) /\ SameHold(p)
    BY <1>0, <1>1
    DEF SchedulerTypeOK, ProcessOK, HeldOK, PickedOK, HoldsRun, HoldsSend, SameHold, Running,
        Sending, SkipSchedule, Turn, claimVars, scheduleVars, leaseVars, outboxVars
<1> QED
    BY <1>1, <1>2, <1>3, <1>4, QuietStep

LEMMA ClaimRefusedOK ==
    ASSUME OperationsInv, NEW p \in Schedulers, NEW k \in Periods, ClaimRefused(p, k)
    PROVE  OperationsInv'
<1>0. /\ SchedulerTypeOK /\ RowsInv /\ NotesInv /\ ProcessOK(p) /\ Nothing \notin Periods
      /\ Running \subseteq Places /\ Sending \subseteq Places /\ 0 \in 0..MaxHeld
      /\ MaxHeld \in Nat /\ MaxAttempts <= MaxHeld /\ MaxSends <= MaxHeld
      /\ \A j \in Periods : j[1] \in Schedules /\ attempts[j] \in Nat /\ sends[j] \in Nat
    BY InvParts, NumbersOfRows, NumbersOfNotes, SchedulerBounds, LeaseBounds
    DEF Places, MaxHeld, RowsInv, NotesInv
<1>1. UNCHANGED <<scheduleVars, leaseVars, outboxVars>>
    BY DEF ClaimRefused
<1>2. SchedulerTypeOK'
    <2>1. pc' \in [Schedulers -> Places] /\ crashes' \in 0..CrashLimit
        BY <1>0, SchedulerBounds
        DEF SchedulerTypeOK, ClaimRefused, Places, Running, Sending, Goto, Drop, Hold
    <2>2. /\ active' \in [Schedulers -> [Schedules -> 0..MaxRevision]]
          /\ turn' \in [Schedulers -> SUBSET Schedules]
        BY <1>0, LeaseBounds
        DEF SchedulerTypeOK, RowsInv, LeaseTypeOK, ClaimRefused, Goto, Drop, Hold
    <2>3. left' \in [Schedulers -> Int] /\ tried' \in [Schedulers -> [Schedules -> Nat]]
        BY <1>0, SchedulerBounds DEF SchedulerTypeOK, ClaimRefused, Goto, Drop, Hold
    <2>4. /\ target' \in [Schedulers -> Periods \cup {Nothing}]
          /\ held' \in [Schedulers -> 0..MaxHeld]
        BY <1>0 DEF SchedulerTypeOK, ClaimRefused, Goto, Drop, Hold
    <2> QED
        BY <2>1, <2>2, <2>3, <2>4 DEF SchedulerTypeOK
<1>3. \A q \in Schedulers \ {p} : SameThread(q)
    BY <1>0 DEF SchedulerTypeOK, SameThread, ClaimRefused, Goto, Drop, Hold
<1>4. /\ ProcessOK(p)'
      /\ HoldsRun(p)' => HoldsRun(p) /\ SameHold(p)
      /\ HoldsSend(p)' => HoldsSend(p) /\ SameHold(p)
    BY <1>0, <1>1
    DEF SchedulerTypeOK, ProcessOK, HeldOK, PickedOK, HoldsRun, HoldsSend, SameHold, Running,
        Sending, ClaimRefused, Goto, Drop, Hold, scheduleVars, leaseVars, outboxVars
<1> QED
    BY <1>1, <1>2, <1>3, <1>4, QuietStep

LEMMA ExecuteOK ==
    ASSUME OperationsInv, NEW p \in Schedulers, NEW k \in Periods, Execute(p, k)
    PROVE  OperationsInv'
<1>0. /\ SchedulerTypeOK /\ RowsInv /\ NotesInv /\ ProcessOK(p) /\ Nothing \notin Periods
      /\ Running \subseteq Places /\ Sending \subseteq Places /\ 0 \in 0..MaxHeld
      /\ MaxHeld \in Nat /\ MaxAttempts <= MaxHeld /\ MaxSends <= MaxHeld
      /\ \A j \in Periods : j[1] \in Schedules /\ attempts[j] \in Nat /\ sends[j] \in Nat
    BY InvParts, NumbersOfRows, NumbersOfNotes, SchedulerBounds, LeaseBounds
    DEF Places, MaxHeld, RowsInv, NotesInv
<1>1. UNCHANGED <<scheduleVars, leaseVars, outboxVars>>
    BY DEF Execute
<1>2. SchedulerTypeOK'
    <2>1. pc' \in [Schedulers -> Places] /\ crashes' \in 0..CrashLimit
        BY <1>0, SchedulerBounds
        DEF SchedulerTypeOK, Execute, Places, Running, Sending, Goto, Drop, Hold, listVars,
            claimVars
    <2>2. /\ active' \in [Schedulers -> [Schedules -> 0..MaxRevision]]
          /\ turn' \in [Schedulers -> SUBSET Schedules]
        BY <1>0, LeaseBounds
        DEF SchedulerTypeOK, RowsInv, LeaseTypeOK, Execute, Goto, Drop, Hold, listVars,
            claimVars
    <2>3. left' \in [Schedulers -> Int] /\ tried' \in [Schedulers -> [Schedules -> Nat]]
        BY <1>0, SchedulerBounds
        DEF SchedulerTypeOK, Execute, Goto, Drop, Hold, listVars, claimVars
    <2>4. /\ target' \in [Schedulers -> Periods \cup {Nothing}]
          /\ held' \in [Schedulers -> 0..MaxHeld]
        BY <1>0 DEF SchedulerTypeOK, Execute, Goto, Drop, Hold, listVars, claimVars
    <2> QED
        BY <2>1, <2>2, <2>3, <2>4 DEF SchedulerTypeOK
<1>3. \A q \in Schedulers \ {p} : SameThread(q)
    BY <1>0 DEF SchedulerTypeOK, SameThread, Execute, Goto, Drop, Hold, listVars, claimVars
<1>4. /\ ProcessOK(p)'
      /\ HoldsRun(p)' => HoldsRun(p) /\ SameHold(p)
      /\ HoldsSend(p)' => HoldsSend(p) /\ SameHold(p)
    BY <1>0, <1>1
    DEF SchedulerTypeOK, ProcessOK, HeldOK, PickedOK, HoldsRun, HoldsSend, SameHold, Running,
        Sending, Execute, Goto, Drop, Hold, listVars, claimVars, scheduleVars, leaseVars,
        outboxVars
<1> QED
    BY <1>1, <1>2, <1>3, <1>4, QuietStep

LEMMA StaleRunOK ==
    ASSUME OperationsInv, NEW p \in Schedulers, NEW k \in Periods, StaleRun(p, k)
    PROVE  OperationsInv'
<1>0. /\ SchedulerTypeOK /\ RowsInv /\ NotesInv /\ ProcessOK(p) /\ Nothing \notin Periods
      /\ Running \subseteq Places /\ Sending \subseteq Places /\ 0 \in 0..MaxHeld
      /\ MaxHeld \in Nat /\ MaxAttempts <= MaxHeld /\ MaxSends <= MaxHeld
      /\ \A j \in Periods : j[1] \in Schedules /\ attempts[j] \in Nat /\ sends[j] \in Nat
    BY InvParts, NumbersOfRows, NumbersOfNotes, SchedulerBounds, LeaseBounds
    DEF Places, MaxHeld, RowsInv, NotesInv
<1>1. UNCHANGED <<scheduleVars, leaseVars, outboxVars>>
    BY DEF StaleRun
<1>2. SchedulerTypeOK'
    <2>1. pc' \in [Schedulers -> Places] /\ crashes' \in 0..CrashLimit
        BY <1>0, SchedulerBounds
        DEF SchedulerTypeOK, StaleRun, Places, Running, Sending, Goto, Drop, Hold, listVars
    <2>2. /\ active' \in [Schedulers -> [Schedules -> 0..MaxRevision]]
          /\ turn' \in [Schedulers -> SUBSET Schedules]
        BY <1>0, LeaseBounds
        DEF SchedulerTypeOK, RowsInv, LeaseTypeOK, StaleRun, Goto, Drop, Hold, listVars
    <2>3. left' \in [Schedulers -> Int] /\ tried' \in [Schedulers -> [Schedules -> Nat]]
        BY <1>0, SchedulerBounds DEF SchedulerTypeOK, StaleRun, Goto, Drop, Hold, listVars
    <2>4. /\ target' \in [Schedulers -> Periods \cup {Nothing}]
          /\ held' \in [Schedulers -> 0..MaxHeld]
        BY <1>0 DEF SchedulerTypeOK, StaleRun, Goto, Drop, Hold, listVars
    <2> QED
        BY <2>1, <2>2, <2>3, <2>4 DEF SchedulerTypeOK
<1>3. \A q \in Schedulers \ {p} : SameThread(q)
    BY <1>0 DEF SchedulerTypeOK, SameThread, StaleRun, Goto, Drop, Hold, listVars
<1>4. /\ ProcessOK(p)'
      /\ HoldsRun(p)' => HoldsRun(p) /\ SameHold(p)
      /\ HoldsSend(p)' => HoldsSend(p) /\ SameHold(p)
    BY <1>0, <1>1
    DEF SchedulerTypeOK, ProcessOK, HeldOK, PickedOK, HoldsRun, HoldsSend, SameHold, Running,
        Sending, StaleRun, Goto, Drop, Hold, listVars, scheduleVars, leaseVars, outboxVars
<1> QED
    BY <1>1, <1>2, <1>3, <1>4, QuietStep

LEMMA StaleSendOK ==
    ASSUME OperationsInv, NEW p \in Schedulers, NEW k \in Periods, StaleSend(p, k)
    PROVE  OperationsInv'
<1>0. /\ SchedulerTypeOK /\ RowsInv /\ NotesInv /\ ProcessOK(p) /\ Nothing \notin Periods
      /\ Running \subseteq Places /\ Sending \subseteq Places /\ 0 \in 0..MaxHeld
      /\ MaxHeld \in Nat /\ MaxAttempts <= MaxHeld /\ MaxSends <= MaxHeld
      /\ \A j \in Periods : j[1] \in Schedules /\ attempts[j] \in Nat /\ sends[j] \in Nat
    BY InvParts, NumbersOfRows, NumbersOfNotes, SchedulerBounds, LeaseBounds
    DEF Places, MaxHeld, RowsInv, NotesInv
<1>1. UNCHANGED <<scheduleVars, leaseVars, outboxVars>>
    BY DEF StaleSend
<1>2. SchedulerTypeOK'
    <2>1. pc' \in [Schedulers -> Places] /\ crashes' \in 0..CrashLimit
        BY <1>0, SchedulerBounds
        DEF SchedulerTypeOK, StaleSend, Places, Running, Sending, Goto, Drop, Hold, listVars
    <2>2. /\ active' \in [Schedulers -> [Schedules -> 0..MaxRevision]]
          /\ turn' \in [Schedulers -> SUBSET Schedules]
        BY <1>0, LeaseBounds
        DEF SchedulerTypeOK, RowsInv, LeaseTypeOK, StaleSend, Goto, Drop, Hold, listVars
    <2>3. left' \in [Schedulers -> Int] /\ tried' \in [Schedulers -> [Schedules -> Nat]]
        BY <1>0, SchedulerBounds DEF SchedulerTypeOK, StaleSend, Goto, Drop, Hold, listVars
    <2>4. /\ target' \in [Schedulers -> Periods \cup {Nothing}]
          /\ held' \in [Schedulers -> 0..MaxHeld]
        BY <1>0 DEF SchedulerTypeOK, StaleSend, Goto, Drop, Hold, listVars
    <2> QED
        BY <2>1, <2>2, <2>3, <2>4 DEF SchedulerTypeOK
<1>3. \A q \in Schedulers \ {p} : SameThread(q)
    BY <1>0 DEF SchedulerTypeOK, SameThread, StaleSend, Goto, Drop, Hold, listVars
<1>4. /\ ProcessOK(p)'
      /\ HoldsRun(p)' => HoldsRun(p) /\ SameHold(p)
      /\ HoldsSend(p)' => HoldsSend(p) /\ SameHold(p)
    BY <1>0, <1>1
    DEF SchedulerTypeOK, ProcessOK, HeldOK, PickedOK, HoldsRun, HoldsSend, SameHold, Running,
        Sending, StaleSend, Goto, Drop, Hold, listVars, scheduleVars, leaseVars, outboxVars
<1> QED
    BY <1>1, <1>2, <1>3, <1>4, QuietStep

LEMMA EndTickOK ==
    ASSUME OperationsInv, NEW p \in Schedulers, EndTick(p)
    PROVE  OperationsInv'
<1>0. /\ SchedulerTypeOK /\ RowsInv /\ NotesInv /\ ProcessOK(p) /\ Nothing \notin Periods
      /\ Running \subseteq Places /\ Sending \subseteq Places /\ 0 \in 0..MaxHeld
      /\ MaxHeld \in Nat /\ MaxAttempts <= MaxHeld /\ MaxSends <= MaxHeld
      /\ \A j \in Periods : j[1] \in Schedules /\ attempts[j] \in Nat /\ sends[j] \in Nat
    BY InvParts, NumbersOfRows, NumbersOfNotes, SchedulerBounds, LeaseBounds
    DEF Places, MaxHeld, RowsInv, NotesInv
<1>1. UNCHANGED <<scheduleVars, leaseVars, outboxVars>>
    BY DEF EndTick
<1>2. SchedulerTypeOK'
    <2>1. pc' \in [Schedulers -> Places] /\ crashes' \in 0..CrashLimit
        BY <1>0, SchedulerBounds
        DEF SchedulerTypeOK, EndTick, Places, Running, Sending, Goto, listVars, claimVars
    <2>2. /\ active' \in [Schedulers -> [Schedules -> 0..MaxRevision]]
          /\ turn' \in [Schedulers -> SUBSET Schedules]
        BY <1>0, LeaseBounds
        DEF SchedulerTypeOK, RowsInv, LeaseTypeOK, EndTick, Goto, listVars, claimVars
    <2>3. left' \in [Schedulers -> Int] /\ tried' \in [Schedulers -> [Schedules -> Nat]]
        BY <1>0, SchedulerBounds DEF SchedulerTypeOK, EndTick, Goto, listVars, claimVars
    <2>4. /\ target' \in [Schedulers -> Periods \cup {Nothing}]
          /\ held' \in [Schedulers -> 0..MaxHeld]
        BY <1>0 DEF SchedulerTypeOK, EndTick, Goto, listVars, claimVars
    <2> QED
        BY <2>1, <2>2, <2>3, <2>4 DEF SchedulerTypeOK
<1>3. \A q \in Schedulers \ {p} : SameThread(q)
    BY <1>0 DEF SchedulerTypeOK, SameThread, EndTick, Goto, listVars, claimVars
<1>4. /\ ProcessOK(p)'
      /\ HoldsRun(p)' => HoldsRun(p) /\ SameHold(p)
      /\ HoldsSend(p)' => HoldsSend(p) /\ SameHold(p)
    BY <1>0, <1>1
    DEF SchedulerTypeOK, ProcessOK, HeldOK, PickedOK, HoldsRun, HoldsSend, SameHold, Running,
        Sending, EndTick, Goto, listVars, claimVars, scheduleVars, leaseVars, outboxVars
<1> QED
    BY <1>1, <1>2, <1>3, <1>4, QuietStep

LEMMA CrashOK ==
    ASSUME OperationsInv, NEW p \in Schedulers, Crash(p)
    PROVE  OperationsInv'
<1>0. /\ SchedulerTypeOK /\ RowsInv /\ NotesInv /\ ProcessOK(p) /\ Nothing \notin Periods
      /\ Running \subseteq Places /\ Sending \subseteq Places /\ 0 \in 0..MaxHeld
      /\ MaxHeld \in Nat /\ MaxAttempts <= MaxHeld /\ MaxSends <= MaxHeld
      /\ \A j \in Periods : j[1] \in Schedules /\ attempts[j] \in Nat /\ sends[j] \in Nat
    BY InvParts, NumbersOfRows, NumbersOfNotes, SchedulerBounds, LeaseBounds
    DEF Places, MaxHeld, RowsInv, NotesInv
<1>1. UNCHANGED <<scheduleVars, leaseVars, outboxVars>>
    BY DEF Crash
<1>2. SchedulerTypeOK'
    <2>1. pc' \in [Schedulers -> Places] /\ crashes' \in 0..CrashLimit
        BY <1>0, SchedulerBounds
        DEF SchedulerTypeOK, Crash, Places, Running, Sending, Goto, Drop, Hold, Forget
    <2>2. /\ active' \in [Schedulers -> [Schedules -> 0..MaxRevision]]
          /\ turn' \in [Schedulers -> SUBSET Schedules]
        BY <1>0, LeaseBounds
        DEF SchedulerTypeOK, RowsInv, LeaseTypeOK, Crash, NotActive, Goto, Drop, Hold, Forget
    <2>3. left' \in [Schedulers -> Int] /\ tried' \in [Schedulers -> [Schedules -> Nat]]
        BY <1>0, SchedulerBounds DEF SchedulerTypeOK, Crash, NotActive, Goto, Drop, Hold, Forget
    <2>4. /\ target' \in [Schedulers -> Periods \cup {Nothing}]
          /\ held' \in [Schedulers -> 0..MaxHeld]
        BY <1>0 DEF SchedulerTypeOK, Crash, Goto, Drop, Hold, Forget
    <2> QED
        BY <2>1, <2>2, <2>3, <2>4 DEF SchedulerTypeOK
<1>3. \A q \in Schedulers \ {p} : SameThread(q)
    BY <1>0 DEF SchedulerTypeOK, SameThread, Crash, Goto, Drop, Hold, Forget
<1>4. /\ ProcessOK(p)'
      /\ HoldsRun(p)' => HoldsRun(p) /\ SameHold(p)
      /\ HoldsSend(p)' => HoldsSend(p) /\ SameHold(p)
    BY <1>0, <1>1
    DEF SchedulerTypeOK, ProcessOK, HeldOK, PickedOK, HoldsRun, HoldsSend, SameHold, Running,
        Sending, Crash, Goto, Drop, Hold, Forget, scheduleVars, leaseVars, outboxVars
<1> QED
    BY <1>1, <1>2, <1>3, <1>4, QuietStep

LEMMA BeginTickOK ==
    ASSUME OperationsInv, NEW p \in Schedulers, BeginTick(p)
    PROVE  OperationsInv'
<1>0. /\ SchedulerTypeOK /\ RowsInv /\ NotesInv /\ ProcessOK(p) /\ Nothing \notin Periods
      /\ Running \subseteq Places /\ Sending \subseteq Places /\ 0 \in 0..MaxHeld
      /\ MaxHeld \in Nat /\ MaxAttempts <= MaxHeld /\ MaxSends <= MaxHeld
      /\ \A j \in Periods : j[1] \in Schedules /\ attempts[j] \in Nat /\ sends[j] \in Nat
    BY InvParts, NumbersOfRows, NumbersOfNotes, SchedulerBounds, LeaseBounds
    DEF Places, MaxHeld, RowsInv, NotesInv
<1>1. RowsInv' /\ LeaseGrows
    BY <1>0, AttemptFailureOK DEF BeginTick, RecoverExpiredLeases, Expired
<1>2. NotesInv' /\ OutboxGrows
    BY <1>0, <1>1, NotesKept DEF BeginTick
<1>3. SchedulerTypeOK'
    <2>1. pc' \in [Schedulers -> Places] /\ crashes' \in 0..CrashLimit
        BY <1>0, SchedulerBounds
        DEF SchedulerTypeOK, BeginTick, Places, Running, Sending, Goto, claimVars
    <2>2. /\ active' \in [Schedulers -> [Schedules -> 0..MaxRevision]]
          /\ turn' \in [Schedulers -> SUBSET Schedules]
        BY <1>0, LeaseBounds DEF SchedulerTypeOK, RowsInv, LeaseTypeOK, BeginTick, Goto, claimVars
    <2>3. left' \in [Schedulers -> Int] /\ tried' \in [Schedulers -> [Schedules -> Nat]]
        BY <1>0, SchedulerBounds DEF SchedulerTypeOK, BeginTick, Goto, claimVars
    <2>4. /\ target' \in [Schedulers -> Periods \cup {Nothing}]
          /\ held' \in [Schedulers -> 0..MaxHeld]
        BY <1>0 DEF SchedulerTypeOK, BeginTick, Goto, claimVars
    <2> QED
        BY <2>1, <2>2, <2>3, <2>4 DEF SchedulerTypeOK
<1>4. \A q \in Schedulers \ {p} : SameThread(q)
    BY <1>0 DEF SchedulerTypeOK, SameThread, BeginTick, Goto, claimVars
<1>5. ProcessOK(p)' /\ FreshHold(p)
    BY <1>0, <1>1, <1>2, NumbersOfRows, NumbersOfNotes
    DEF SchedulerTypeOK, RowsInv, NotesInv, ProcessOK, HeldOK, PickedOK, HoldsRun, HoldsSend,
        SameHold, FreshHold, Running, Sending, BeginTick, Goto, claimVars
<1> QED
    BY <1>1, <1>2, <1>3, <1>4, <1>5, OneScheduler DEF Grow

LEMMA ClaimRetryOK ==
    ASSUME OperationsInv, NEW p \in Schedulers, NEW k \in Periods, ClaimRetry(p, k)
    PROVE  OperationsInv'
<1>0. /\ SchedulerTypeOK /\ RowsInv /\ NotesInv /\ ProcessOK(p) /\ Nothing \notin Periods
      /\ Running \subseteq Places /\ Sending \subseteq Places /\ 0 \in 0..MaxHeld
      /\ MaxHeld \in Nat /\ MaxAttempts <= MaxHeld /\ MaxSends <= MaxHeld
      /\ \A j \in Periods : j[1] \in Schedules /\ attempts[j] \in Nat /\ sends[j] \in Nat
    BY InvParts, NumbersOfRows, NumbersOfNotes, SchedulerBounds, LeaseBounds
    DEF Places, MaxHeld, RowsInv, NotesInv
<1>1. RowsInv' /\ LeaseGrows /\ attempts'[k] = attempts[k] + 1 /\ attempts'[k] <= MaxAttempts
    <2>1. Claimable(k, Pinned) /\ ClaimPeriod(k)
        BY DEF ClaimRetry, Claimed
    <2>2. state[k] # "unseen"
        BY <1>0, <2>1, LeaseBounds DEF Claimable, Pinned, RowsInv, LeaseTypeOK
    <2> QED
        BY <1>0, <2>1, <2>2, ClaimPeriodOK
<1>2. NotesInv' /\ OutboxGrows
    BY <1>0, <1>1, NotesKept DEF ClaimRetry
<1>3. SchedulerTypeOK'
    <2>1. pc' \in [Schedulers -> Places] /\ crashes' \in 0..CrashLimit
        <3>1. pc' = [pc EXCEPT ![p] = "execute"] /\ UNCHANGED crashes
            BY DEF ClaimRetry, Claimed, Goto
        <3>2. "execute" \in Places
            BY DEF Places, Running
        <3> QED
            BY <1>0, <3>1, <3>2 DEF SchedulerTypeOK
    <2>2. /\ active' \in [Schedulers -> [Schedules -> 0..MaxRevision]]
          /\ turn' \in [Schedulers -> SUBSET Schedules]
        BY <1>0, LeaseBounds
        DEF SchedulerTypeOK, RowsInv, LeaseTypeOK, ClaimRetry, NextRetry, Claimed, Goto, Hold,
            Spend
    <2>3. left' \in [Schedulers -> Int] /\ tried' \in [Schedulers -> [Schedules -> Nat]]
        <3>1. /\ left' = [left EXCEPT ![p] = @ - 1]
              /\ tried' = [tried EXCEPT ![p][k[1]] = @ + 1]
            BY DEF ClaimRetry, Claimed, Spend
        <3> QED
            BY <1>0, <3>1 DEF SchedulerTypeOK
    <2>4. /\ target' \in [Schedulers -> Periods \cup {Nothing}]
          /\ held' \in [Schedulers -> 0..MaxHeld]
        <3>1. attempts[k] + 1 \in 0..MaxHeld
            BY <1>0, <1>1, <1>2, SchedulerBounds, LeaseBounds
        <3>2. /\ target' = [target EXCEPT ![p] = k]
              /\ held' = [held EXCEPT ![p] = attempts[k] + 1]
            BY DEF ClaimRetry, Claimed, Hold
        <3> QED
            BY <1>0, <3>1, <3>2 DEF SchedulerTypeOK
    <2> QED
        BY <2>1, <2>2, <2>3, <2>4 DEF SchedulerTypeOK
<1>4. \A q \in Schedulers \ {p} : SameThread(q)
    BY <1>0 DEF SchedulerTypeOK, SameThread, ClaimRetry, NextRetry, Claimed, Goto, Hold, Spend
<1>5. ProcessOK(p)' /\ FreshHold(p)
    <2>1. /\ pc'[p] = "execute" /\ target'[p] = k /\ held'[p] = attempts[k] + 1
          /\ UNCHANGED outboxVars
        BY <1>0 DEF ClaimRetry, Claimed, Goto, Hold, SchedulerTypeOK
    <2>2. ProcessOK(p)'
        BY <1>0, <1>1, <2>1 DEF ProcessOK, HeldOK, PickedOK, HoldsRun, HoldsSend, Running, Sending
    <2>3. FreshHold(p)
        BY <1>0, <1>1, <2>1 DEF FreshHold, HoldsRun, HoldsSend, Running, Sending
    <2> QED
        BY <2>2, <2>3
<1> QED
    BY <1>1, <1>2, <1>3, <1>4, <1>5, OneScheduler DEF Grow

LEMMA ClaimUnseenOK ==
    ASSUME OperationsInv, NEW p \in Schedulers, NEW k \in Periods, ClaimUnseen(p, k)
    PROVE  OperationsInv'
<1>0. /\ SchedulerTypeOK /\ RowsInv /\ NotesInv /\ ProcessOK(p) /\ Nothing \notin Periods
      /\ Running \subseteq Places /\ Sending \subseteq Places /\ 0 \in 0..MaxHeld
      /\ MaxHeld \in Nat /\ MaxAttempts <= MaxHeld /\ MaxSends <= MaxHeld
      /\ \A j \in Periods : j[1] \in Schedules /\ attempts[j] \in Nat /\ sends[j] \in Nat
    BY InvParts, NumbersOfRows, NumbersOfNotes, SchedulerBounds, LeaseBounds
    DEF Places, MaxHeld, RowsInv, NotesInv
<1>1. RowsInv' /\ LeaseGrows /\ attempts'[k] = attempts[k] + 1 /\ attempts'[k] <= MaxAttempts
    BY <1>0, ClaimPeriodOK DEF ClaimUnseen, Claimed, ProcessOK, PickedOK
<1>2. NotesInv' /\ OutboxGrows
    BY <1>0, <1>1, NotesKept DEF ClaimUnseen
<1>3. SchedulerTypeOK'
    <2>1. pc' \in [Schedulers -> Places] /\ crashes' \in 0..CrashLimit
        BY <1>0, SchedulerBounds
        DEF SchedulerTypeOK, ClaimUnseen, Claimed, Enabled, Places, Running, Sending, Goto, Hold,
            Spend
    <2>2. /\ active' \in [Schedulers -> [Schedules -> 0..MaxRevision]]
          /\ turn' \in [Schedulers -> SUBSET Schedules]
        BY <1>0, LeaseBounds
        DEF SchedulerTypeOK, RowsInv, LeaseTypeOK, ClaimUnseen, Claimed, Enabled, Goto, Hold,
            Spend
    <2>3. left' \in [Schedulers -> Int] /\ tried' \in [Schedulers -> [Schedules -> Nat]]
        BY <1>0, SchedulerBounds
        DEF SchedulerTypeOK, ClaimUnseen, Claimed, Enabled, Goto, Hold, Spend
    <2>4. /\ target' \in [Schedulers -> Periods \cup {Nothing}]
          /\ held' \in [Schedulers -> 0..MaxHeld]
        <3>1. attempts[k] + 1 \in 0..MaxHeld
            BY <1>0, <1>1, <1>2, SchedulerBounds, LeaseBounds
        <3> QED
            BY <1>0, <3>1 DEF SchedulerTypeOK, ClaimUnseen, Claimed, Enabled, Goto, Hold, Spend
    <2> QED
        BY <2>1, <2>2, <2>3, <2>4 DEF SchedulerTypeOK
<1>4. \A q \in Schedulers \ {p} : SameThread(q)
    BY <1>0 DEF SchedulerTypeOK, SameThread, ClaimUnseen, Claimed, Enabled, Goto, Hold, Spend
<1>5. ProcessOK(p)' /\ FreshHold(p)
    BY <1>0, <1>1, <1>2, NumbersOfRows, NumbersOfNotes
    DEF SchedulerTypeOK, RowsInv, NotesInv, ProcessOK, HeldOK, PickedOK, HoldsRun, HoldsSend,
        SameHold, FreshHold, Running, Sending, ClaimUnseen, Claimed, Enabled, Goto, Hold, Spend
<1> QED
    BY <1>1, <1>2, <1>3, <1>4, <1>5, OneScheduler DEF Grow

LEMMA CompleteOK ==
    ASSUME OperationsInv, NEW p \in Schedulers, NEW k \in Periods, Complete(p, k)
    PROVE  OperationsInv'
<1>0. /\ SchedulerTypeOK /\ RowsInv /\ NotesInv /\ ProcessOK(p) /\ Nothing \notin Periods
      /\ Running \subseteq Places /\ Sending \subseteq Places /\ 0 \in 0..MaxHeld
      /\ MaxHeld \in Nat /\ MaxAttempts <= MaxHeld /\ MaxSends <= MaxHeld
      /\ \A j \in Periods : j[1] \in Schedules /\ attempts[j] \in Nat /\ sends[j] \in Nat
    BY InvParts, NumbersOfRows, NumbersOfNotes, SchedulerBounds, LeaseBounds
    DEF Places, MaxHeld, RowsInv, NotesInv
<1>1. RowsInv' /\ LeaseGrows /\ state'[k] = "succeeded"
    BY <1>0, CompleteRunOK DEF Complete
<1>2. NotesInv' /\ OutboxGrows
    BY <1>0, <1>1, NotesKept DEF Complete
<1>3. SchedulerTypeOK'
    <2>1. pc' \in [Schedulers -> Places] /\ crashes' \in 0..CrashLimit
        BY <1>0, SchedulerBounds
        DEF SchedulerTypeOK, Complete, Places, Running, Sending, Goto, listVars, claimVars
    <2>2. /\ active' \in [Schedulers -> [Schedules -> 0..MaxRevision]]
          /\ turn' \in [Schedulers -> SUBSET Schedules]
        BY <1>0, LeaseBounds
        DEF SchedulerTypeOK, RowsInv, LeaseTypeOK, Complete, Goto, listVars, claimVars
    <2>3. left' \in [Schedulers -> Int] /\ tried' \in [Schedulers -> [Schedules -> Nat]]
        BY <1>0, SchedulerBounds DEF SchedulerTypeOK, Complete, Goto, listVars, claimVars
    <2>4. /\ target' \in [Schedulers -> Periods \cup {Nothing}]
          /\ held' \in [Schedulers -> 0..MaxHeld]
        BY <1>0 DEF SchedulerTypeOK, Complete, Goto, listVars, claimVars
    <2> QED
        BY <2>1, <2>2, <2>3, <2>4 DEF SchedulerTypeOK
<1>4. \A q \in Schedulers \ {p} : SameThread(q)
    BY <1>0 DEF SchedulerTypeOK, SameThread, Complete, Goto, listVars, claimVars
<1>5. ProcessOK(p)' /\ FreshHold(p)
    BY <1>0, <1>1, <1>2, NumbersOfRows, NumbersOfNotes
    DEF SchedulerTypeOK, RowsInv, NotesInv, ProcessOK, HeldOK, PickedOK, HoldsRun, HoldsSend,
        SameHold, FreshHold, Running, Sending, Complete, Goto, listVars, claimVars
<1> QED
    BY <1>1, <1>2, <1>3, <1>4, <1>5, OneScheduler DEF Grow

LEMMA FailOK ==
    ASSUME OperationsInv, NEW p \in Schedulers, NEW k \in Periods, Fail(p, k)
    PROVE  OperationsInv'
<1>0. /\ SchedulerTypeOK /\ RowsInv /\ NotesInv /\ ProcessOK(p) /\ Nothing \notin Periods
      /\ Running \subseteq Places /\ Sending \subseteq Places /\ 0 \in 0..MaxHeld
      /\ MaxHeld \in Nat /\ MaxAttempts <= MaxHeld /\ MaxSends <= MaxHeld
      /\ \A j \in Periods : j[1] \in Schedules /\ attempts[j] \in Nat /\ sends[j] \in Nat
    BY InvParts, NumbersOfRows, NumbersOfNotes, SchedulerBounds, LeaseBounds
    DEF Places, MaxHeld, RowsInv, NotesInv
<1>1. RowsInv' /\ LeaseGrows
    BY <1>0, AttemptFailureOK DEF Fail, Current
<1>2. NotesInv' /\ OutboxGrows
    BY <1>0, <1>1, NotesKept DEF Fail
<1>3. SchedulerTypeOK'
    <2>1. pc' \in [Schedulers -> Places] /\ crashes' \in 0..CrashLimit
        BY <1>0, SchedulerBounds
        DEF SchedulerTypeOK, Fail, Places, Running, Sending, Goto, Drop, Hold, listVars
    <2>2. /\ active' \in [Schedulers -> [Schedules -> 0..MaxRevision]]
          /\ turn' \in [Schedulers -> SUBSET Schedules]
        BY <1>0, LeaseBounds
        DEF SchedulerTypeOK, RowsInv, LeaseTypeOK, Fail, Goto, Drop, Hold, listVars
    <2>3. left' \in [Schedulers -> Int] /\ tried' \in [Schedulers -> [Schedules -> Nat]]
        BY <1>0, SchedulerBounds DEF SchedulerTypeOK, Fail, Goto, Drop, Hold, listVars
    <2>4. /\ target' \in [Schedulers -> Periods \cup {Nothing}]
          /\ held' \in [Schedulers -> 0..MaxHeld]
        BY <1>0 DEF SchedulerTypeOK, Fail, Goto, Drop, Hold, listVars
    <2> QED
        BY <2>1, <2>2, <2>3, <2>4 DEF SchedulerTypeOK
<1>4. \A q \in Schedulers \ {p} : SameThread(q)
    BY <1>0 DEF SchedulerTypeOK, SameThread, Fail, Goto, Drop, Hold, listVars
<1>5. ProcessOK(p)' /\ FreshHold(p)
    BY <1>0, <1>1, <1>2, NumbersOfRows, NumbersOfNotes
    DEF SchedulerTypeOK, RowsInv, NotesInv, ProcessOK, HeldOK, PickedOK, HoldsRun, HoldsSend,
        SameHold, FreshHold, Running, Sending, Fail, Goto, Drop, Hold, listVars
<1> QED
    BY <1>1, <1>2, <1>3, <1>4, <1>5, OneScheduler DEF Grow

LEMMA EnqueueOutcomeOK ==
    ASSUME OperationsInv, NEW p \in Schedulers, NEW k \in Periods, EnqueueOutcome(p, k)
    PROVE  OperationsInv'
<1>0. /\ SchedulerTypeOK /\ RowsInv /\ NotesInv /\ ProcessOK(p) /\ Nothing \notin Periods
      /\ Running \subseteq Places /\ Sending \subseteq Places /\ 0 \in 0..MaxHeld
      /\ MaxHeld \in Nat /\ MaxAttempts <= MaxHeld /\ MaxSends <= MaxHeld
      /\ \A j \in Periods : j[1] \in Schedules /\ attempts[j] \in Nat /\ sends[j] \in Nat
    BY InvParts, NumbersOfRows, NumbersOfNotes, SchedulerBounds, LeaseBounds
    DEF Places, MaxHeld, RowsInv, NotesInv
<1>1. RowsInv' /\ LeaseGrows
    BY <1>0, RowsKept DEF EnqueueOutcome
<1>2. NotesInv' /\ OutboxGrows
    <2>1. state[k] = "succeeded" /\ UNCHANGED state
        BY <1>0 DEF EnqueueOutcome, ProcessOK, HeldOK, leaseVars
    <2> QED
        BY <1>0, <1>1, <2>1, EnqueueOK, NotesKept DEF EnqueueOutcome
<1>3. SchedulerTypeOK'
    <2>1. pc' \in [Schedulers -> Places] /\ crashes' \in 0..CrashLimit
        BY <1>0, SchedulerBounds
        DEF SchedulerTypeOK, EnqueueOutcome, Places, Running, Sending, Goto, Drop, Hold,
            listVars
    <2>2. /\ active' \in [Schedulers -> [Schedules -> 0..MaxRevision]]
          /\ turn' \in [Schedulers -> SUBSET Schedules]
        BY <1>0, LeaseBounds
        DEF SchedulerTypeOK, RowsInv, LeaseTypeOK, EnqueueOutcome, Goto, Drop, Hold, listVars
    <2>3. left' \in [Schedulers -> Int] /\ tried' \in [Schedulers -> [Schedules -> Nat]]
        BY <1>0, SchedulerBounds DEF SchedulerTypeOK, EnqueueOutcome, Goto, Drop, Hold, listVars
    <2>4. /\ target' \in [Schedulers -> Periods \cup {Nothing}]
          /\ held' \in [Schedulers -> 0..MaxHeld]
        BY <1>0 DEF SchedulerTypeOK, EnqueueOutcome, Goto, Drop, Hold, listVars
    <2> QED
        BY <2>1, <2>2, <2>3, <2>4 DEF SchedulerTypeOK
<1>4. \A q \in Schedulers \ {p} : SameThread(q)
    BY <1>0 DEF SchedulerTypeOK, SameThread, EnqueueOutcome, Goto, Drop, Hold, listVars
<1>5. ProcessOK(p)' /\ FreshHold(p)
    BY <1>0, <1>1, <1>2, NumbersOfRows, NumbersOfNotes
    DEF SchedulerTypeOK, RowsInv, NotesInv, ProcessOK, HeldOK, PickedOK, HoldsRun, HoldsSend,
        SameHold, FreshHold, Running, Sending, EnqueueOutcome, Goto, Drop, Hold, listVars
<1> QED
    BY <1>1, <1>2, <1>3, <1>4, <1>5, OneScheduler DEF Grow

LEMMA FlushOK ==
    ASSUME OperationsInv, NEW p \in Schedulers, Flush(p)
    PROVE  OperationsInv'
<1>0. /\ SchedulerTypeOK /\ RowsInv /\ NotesInv /\ ProcessOK(p) /\ Nothing \notin Periods
      /\ Running \subseteq Places /\ Sending \subseteq Places /\ 0 \in 0..MaxHeld
      /\ MaxHeld \in Nat /\ MaxAttempts <= MaxHeld /\ MaxSends <= MaxHeld
      /\ \A j \in Periods : j[1] \in Schedules /\ attempts[j] \in Nat /\ sends[j] \in Nat
    BY InvParts, NumbersOfRows, NumbersOfNotes, SchedulerBounds, LeaseBounds
    DEF Places, MaxHeld, RowsInv, NotesInv
<1>1. RowsInv' /\ LeaseGrows
    BY <1>0, RowsKept DEF Flush
<1>2. NotesInv' /\ OutboxGrows
    <2>1. UNCHANGED state
        BY DEF Flush, leaseVars
    <2> QED
        BY <1>0, <2>1, EnqueueOK DEF Flush, Missing
<1>3. SchedulerTypeOK'
    <2>1. pc' \in [Schedulers -> Places] /\ crashes' \in 0..CrashLimit
        BY <1>0, SchedulerBounds
        DEF SchedulerTypeOK, Flush, LoopsEnded, Places, Running, Sending, Goto, Forget,
            claimVars
    <2>2. /\ active' \in [Schedulers -> [Schedules -> 0..MaxRevision]]
          /\ turn' \in [Schedulers -> SUBSET Schedules]
        BY <1>0, LeaseBounds
        DEF SchedulerTypeOK, RowsInv, LeaseTypeOK, Flush, LoopsEnded, NotActive, Goto, Forget,
            claimVars
    <2>3. left' \in [Schedulers -> Int] /\ tried' \in [Schedulers -> [Schedules -> Nat]]
        BY <1>0, SchedulerBounds
        DEF SchedulerTypeOK, Flush, LoopsEnded, NotActive, Goto, Forget, claimVars
    <2>4. /\ target' \in [Schedulers -> Periods \cup {Nothing}]
          /\ held' \in [Schedulers -> 0..MaxHeld]
        BY <1>0 DEF SchedulerTypeOK, Flush, LoopsEnded, Goto, Forget, claimVars
    <2> QED
        BY <2>1, <2>2, <2>3, <2>4 DEF SchedulerTypeOK
<1>4. \A q \in Schedulers \ {p} : SameThread(q)
    BY <1>0 DEF SchedulerTypeOK, SameThread, Flush, LoopsEnded, Goto, Forget, claimVars
<1>5. ProcessOK(p)' /\ FreshHold(p)
    BY <1>0, <1>1, <1>2, NumbersOfRows, NumbersOfNotes
    DEF SchedulerTypeOK, RowsInv, NotesInv, ProcessOK, HeldOK, PickedOK, HoldsRun, HoldsSend,
        SameHold, FreshHold, Running, Sending, Flush, LoopsEnded, Goto, Forget, claimVars
<1> QED
    BY <1>1, <1>2, <1>3, <1>4, <1>5, OneScheduler DEF Grow

LEMMA ExpireSendsOK ==
    ASSUME OperationsInv, NEW p \in Schedulers, ExpireSends(p)
    PROVE  OperationsInv'
<1>0. /\ SchedulerTypeOK /\ RowsInv /\ NotesInv /\ ProcessOK(p) /\ Nothing \notin Periods
      /\ Running \subseteq Places /\ Sending \subseteq Places /\ 0 \in 0..MaxHeld
      /\ MaxHeld \in Nat /\ MaxAttempts <= MaxHeld /\ MaxSends <= MaxHeld
      /\ \A j \in Periods : j[1] \in Schedules /\ attempts[j] \in Nat /\ sends[j] \in Nat
    BY InvParts, NumbersOfRows, NumbersOfNotes, SchedulerBounds, LeaseBounds
    DEF Places, MaxHeld, RowsInv, NotesInv
<1>1. RowsInv' /\ LeaseGrows
    BY <1>0, RowsKept DEF ExpireSends
<1>2. NotesInv' /\ OutboxGrows
    BY <1>0, SendFailureOK DEF ExpireSends, Outbox!RecoverExpiredSends, leaseVars
<1>3. SchedulerTypeOK'
    <2>1. pc' \in [Schedulers -> Places] /\ crashes' \in 0..CrashLimit
        BY <1>0, SchedulerBounds
        DEF SchedulerTypeOK, ExpireSends, Places, Running, Sending, Goto, listVars, claimVars
    <2>2. /\ active' \in [Schedulers -> [Schedules -> 0..MaxRevision]]
          /\ turn' \in [Schedulers -> SUBSET Schedules]
        BY <1>0, LeaseBounds
        DEF SchedulerTypeOK, RowsInv, LeaseTypeOK, ExpireSends, Goto, listVars, claimVars
    <2>3. left' \in [Schedulers -> Int] /\ tried' \in [Schedulers -> [Schedules -> Nat]]
        BY <1>0, SchedulerBounds DEF SchedulerTypeOK, ExpireSends, Goto, listVars, claimVars
    <2>4. /\ target' \in [Schedulers -> Periods \cup {Nothing}]
          /\ held' \in [Schedulers -> 0..MaxHeld]
        BY <1>0 DEF SchedulerTypeOK, ExpireSends, Goto, listVars, claimVars
    <2> QED
        BY <2>1, <2>2, <2>3, <2>4 DEF SchedulerTypeOK
<1>4. \A q \in Schedulers \ {p} : SameThread(q)
    BY <1>0 DEF SchedulerTypeOK, SameThread, ExpireSends, Goto, listVars, claimVars
<1>5. ProcessOK(p)' /\ FreshHold(p)
    BY <1>0, <1>1, <1>2, NumbersOfRows, NumbersOfNotes
    DEF SchedulerTypeOK, RowsInv, NotesInv, ProcessOK, HeldOK, PickedOK, HoldsRun, HoldsSend,
        SameHold, FreshHold, Running, Sending, ExpireSends, Goto, listVars, claimVars
<1> QED
    BY <1>1, <1>2, <1>3, <1>4, <1>5, OneScheduler DEF Grow

LEMMA ClaimSendOK ==
    ASSUME OperationsInv, NEW p \in Schedulers, NEW k \in Periods, ClaimSend(p, k)
    PROVE  OperationsInv'
<1>0. /\ SchedulerTypeOK /\ RowsInv /\ NotesInv /\ ProcessOK(p) /\ Nothing \notin Periods
      /\ Running \subseteq Places /\ Sending \subseteq Places /\ 0 \in 0..MaxHeld
      /\ MaxHeld \in Nat /\ MaxAttempts <= MaxHeld /\ MaxSends <= MaxHeld
      /\ \A j \in Periods : j[1] \in Schedules /\ attempts[j] \in Nat /\ sends[j] \in Nat
    BY InvParts, NumbersOfRows, NumbersOfNotes, SchedulerBounds, LeaseBounds
    DEF Places, MaxHeld, RowsInv, NotesInv
<1>1. RowsInv' /\ LeaseGrows
    BY <1>0, RowsKept DEF ClaimSend
<1>2. NotesInv' /\ OutboxGrows /\ sends'[k] = sends[k] + 1 /\ sends'[k] <= MaxSends /\ note'[k] = "sending"
    BY <1>0, ClaimNotificationOK DEF ClaimSend, leaseVars
<1>3. SchedulerTypeOK'
    <2>1. pc' \in [Schedulers -> Places] /\ crashes' \in 0..CrashLimit
        BY <1>0, SchedulerBounds
        DEF SchedulerTypeOK, ClaimSend, Places, Running, Sending, Goto, Hold, Spend, listVars
    <2>2. /\ active' \in [Schedulers -> [Schedules -> 0..MaxRevision]]
          /\ turn' \in [Schedulers -> SUBSET Schedules]
        BY <1>0, LeaseBounds
        DEF SchedulerTypeOK, RowsInv, LeaseTypeOK, ClaimSend, Goto, Hold, Spend, listVars
    <2>3. left' \in [Schedulers -> Int] /\ tried' \in [Schedulers -> [Schedules -> Nat]]
        BY <1>0, SchedulerBounds DEF SchedulerTypeOK, ClaimSend, Goto, Hold, Spend, listVars
    <2>4. /\ target' \in [Schedulers -> Periods \cup {Nothing}]
          /\ held' \in [Schedulers -> 0..MaxHeld]
        <3>1. sends[k] + 1 \in 0..MaxHeld
            BY <1>0, <1>1, <1>2, SchedulerBounds, LeaseBounds
        <3> QED
            BY <1>0, <3>1 DEF SchedulerTypeOK, ClaimSend, Goto, Hold, Spend, listVars
    <2> QED
        BY <2>1, <2>2, <2>3, <2>4 DEF SchedulerTypeOK
<1>4. \A q \in Schedulers \ {p} : SameThread(q)
    BY <1>0 DEF SchedulerTypeOK, SameThread, ClaimSend, Goto, Hold, Spend, listVars
<1>5. ProcessOK(p)' /\ FreshHold(p)
    BY <1>0, <1>1, <1>2, NumbersOfRows, NumbersOfNotes
    DEF SchedulerTypeOK, RowsInv, NotesInv, ProcessOK, HeldOK, PickedOK, HoldsRun, HoldsSend,
        SameHold, FreshHold, Running, Sending, ClaimSend, Goto, Hold, Spend, listVars
<1> QED
    BY <1>1, <1>2, <1>3, <1>4, <1>5, OneScheduler DEF Grow

LEMMA DeliverOK ==
    ASSUME OperationsInv, NEW p \in Schedulers, NEW k \in Periods, Deliver(p, k)
    PROVE  OperationsInv'
<1>0. /\ SchedulerTypeOK /\ RowsInv /\ NotesInv /\ ProcessOK(p) /\ Nothing \notin Periods
      /\ Running \subseteq Places /\ Sending \subseteq Places /\ 0 \in 0..MaxHeld
      /\ MaxHeld \in Nat /\ MaxAttempts <= MaxHeld /\ MaxSends <= MaxHeld
      /\ \A j \in Periods : j[1] \in Schedules /\ attempts[j] \in Nat /\ sends[j] \in Nat
    BY InvParts, NumbersOfRows, NumbersOfNotes, SchedulerBounds, LeaseBounds
    DEF Places, MaxHeld, RowsInv, NotesInv
<1>1. RowsInv' /\ LeaseGrows
    BY <1>0, RowsKept DEF Deliver
<1>2. NotesInv' /\ OutboxGrows /\ (pc'[p] = "sent" => k \in inbox') /\ note'[k] # "none" /\ UNCHANGED sends
    <2>1. note[k] # "none" /\ UNCHANGED state /\ pc[p] = "deliver"
        BY <1>0 DEF Deliver, ProcessOK, HeldOK, HoldsSend, Sending, leaseVars
    <2>2. PICK place \in {"sent", "unsent"} :
            /\ IF place = "sent" THEN Outbox!Store(k) ELSE UNCHANGED outboxVars
            /\ IF Outbox!NoteCurrent(k, held[p]) /\ noteLive[k]
               THEN Goto(p, place) /\ UNCHANGED claimVars
               ELSE Drop(p, "send")
        BY DEF Deliver
    <2>3. pc'[p] = "sent" => place = "sent"
        BY <1>0, <2>1, <2>2 DEF SchedulerTypeOK, Goto, Drop
    <2>4. UNCHANGED <<note, sends>>
        BY <2>2 DEF Outbox!Store, outboxVars
    <2> QED
        BY <1>0, <1>1, <2>1, <2>2, <2>3, <2>4, StoreOK, NotesKept
<1>3. SchedulerTypeOK'
    <2>1. pc' \in [Schedulers -> Places] /\ crashes' \in 0..CrashLimit
        BY <1>0, SchedulerBounds
        DEF SchedulerTypeOK, Deliver, Places, Running, Sending, Goto, Drop, Hold, listVars,
            claimVars
    <2>2. /\ active' \in [Schedulers -> [Schedules -> 0..MaxRevision]]
          /\ turn' \in [Schedulers -> SUBSET Schedules]
        BY <1>0, LeaseBounds
        DEF SchedulerTypeOK, RowsInv, LeaseTypeOK, Deliver, Goto, Drop, Hold, listVars,
            claimVars
    <2>3. left' \in [Schedulers -> Int] /\ tried' \in [Schedulers -> [Schedules -> Nat]]
        BY <1>0, SchedulerBounds
        DEF SchedulerTypeOK, Deliver, Goto, Drop, Hold, listVars, claimVars
    <2>4. /\ target' \in [Schedulers -> Periods \cup {Nothing}]
          /\ held' \in [Schedulers -> 0..MaxHeld]
        <3>1. UNCHANGED <<target, held>> \/ Hold(p, Nothing, 0)
            BY DEF Deliver, Drop, claimVars
        <3>2. CASE UNCHANGED <<target, held>>
            BY <1>0, <3>2 DEF SchedulerTypeOK
        <3>3. CASE Hold(p, Nothing, 0)
            BY <1>0, <3>3 DEF SchedulerTypeOK, Hold
        <3> QED
            BY <3>1, <3>2, <3>3
    <2> QED
        BY <2>1, <2>2, <2>3, <2>4 DEF SchedulerTypeOK
<1>4. \A q \in Schedulers \ {p} : SameThread(q)
    BY <1>0 DEF SchedulerTypeOK, SameThread, Deliver, Goto, Drop, Hold, listVars, claimVars
<1>5. ProcessOK(p)' /\ FreshHold(p)
    BY <1>0, <1>1, <1>2, NumbersOfRows, NumbersOfNotes
    DEF SchedulerTypeOK, RowsInv, NotesInv, ProcessOK, HeldOK, PickedOK, HoldsRun, HoldsSend,
        SameHold, FreshHold, Running, Sending, Deliver, Goto, Drop, Hold, listVars, claimVars
<1> QED
    BY <1>1, <1>2, <1>3, <1>4, <1>5, OneScheduler DEF Grow

LEMMA FinishSendOK ==
    ASSUME OperationsInv, NEW p \in Schedulers, NEW k \in Periods, FinishSend(p, k)
    PROVE  OperationsInv'
<1>0. /\ SchedulerTypeOK /\ RowsInv /\ NotesInv /\ ProcessOK(p) /\ Nothing \notin Periods
      /\ Running \subseteq Places /\ Sending \subseteq Places /\ 0 \in 0..MaxHeld
      /\ MaxHeld \in Nat /\ MaxAttempts <= MaxHeld /\ MaxSends <= MaxHeld
      /\ \A j \in Periods : j[1] \in Schedules /\ attempts[j] \in Nat /\ sends[j] \in Nat
    BY InvParts, NumbersOfRows, NumbersOfNotes, SchedulerBounds, LeaseBounds
    DEF Places, MaxHeld, RowsInv, NotesInv
<1>1. RowsInv' /\ LeaseGrows
    BY <1>0, RowsKept DEF FinishSend
<1>2. NotesInv' /\ OutboxGrows
    <2>1. (pc[p] = "sent" => k \in inbox) /\ note[k] = "sending" /\ UNCHANGED state
        BY <1>0 DEF FinishSend, ProcessOK, HeldOK, Outbox!NoteCurrent, leaseVars
    <2> QED
        BY <1>0, <2>1, CompleteNotificationOK, SendFailureOK DEF FinishSend
<1>3. SchedulerTypeOK'
    <2>1. pc' \in [Schedulers -> Places] /\ crashes' \in 0..CrashLimit
        BY <1>0, SchedulerBounds
        DEF SchedulerTypeOK, FinishSend, Places, Running, Sending, Goto, Drop, Hold, listVars
    <2>2. /\ active' \in [Schedulers -> [Schedules -> 0..MaxRevision]]
          /\ turn' \in [Schedulers -> SUBSET Schedules]
        BY <1>0, LeaseBounds
        DEF SchedulerTypeOK, RowsInv, LeaseTypeOK, FinishSend, Goto, Drop, Hold, listVars
    <2>3. left' \in [Schedulers -> Int] /\ tried' \in [Schedulers -> [Schedules -> Nat]]
        BY <1>0, SchedulerBounds DEF SchedulerTypeOK, FinishSend, Goto, Drop, Hold, listVars
    <2>4. /\ target' \in [Schedulers -> Periods \cup {Nothing}]
          /\ held' \in [Schedulers -> 0..MaxHeld]
        BY <1>0 DEF SchedulerTypeOK, FinishSend, Goto, Drop, Hold, listVars
    <2> QED
        BY <2>1, <2>2, <2>3, <2>4 DEF SchedulerTypeOK
<1>4. \A q \in Schedulers \ {p} : SameThread(q)
    BY <1>0 DEF SchedulerTypeOK, SameThread, FinishSend, Goto, Drop, Hold, listVars
<1>5. ProcessOK(p)' /\ FreshHold(p)
    BY <1>0, <1>1, <1>2, NumbersOfRows, NumbersOfNotes
    DEF SchedulerTypeOK, RowsInv, NotesInv, ProcessOK, HeldOK, PickedOK, HoldsRun, HoldsSend,
        SameHold, FreshHold, Running, Sending, FinishSend, Goto, Drop, Hold, listVars
<1> QED
    BY <1>1, <1>2, <1>3, <1>4, <1>5, OneScheduler DEF Grow

(* The steps of the world, the initial state, and the invariant.              *)
LEMMA WorldOK == ASSUME OperationsInv, OutboxMoves \/ LeaseMoves PROVE OperationsInv'
<1>0. RowsInv /\ NotesInv /\ SchedulerTypeOK /\ DistinctHolders
    BY InvParts
<1>1. /\ RowsInv' /\ NotesInv' /\ Grow
      /\ UNCHANGED <<pc, listVars, left, claimVars, crashes>>
    <2>1. CASE OutboxMoves
        BY <1>0, <2>1, RowsKept, WorldOfNotesOK DEF OutboxMoves, Grow, leaseVars
    <2>2. CASE LeaseMoves
        BY <1>0, <2>2, WorldOfRowsOK, NotesKept DEF LeaseMoves, Grow
    <2> QED
        BY <2>1, <2>2
<1>2. SchedulerTypeOK' /\ DistinctHolders' /\ \A q \in Schedulers : SameThread(q)
    BY <1>0, <1>1
    DEF SchedulerTypeOK, DistinctHolders, HoldsRun, HoldsSend, SameThread, listVars, claimVars
<1> QED
    BY <1>1, <1>2, Bystander, InvParts
    DEF OperationsInv, TypeOK, SchedulerTypeOK, RowsInv, NotesInv, ProcessOK

LEMMA StutterOK == OperationsInv /\ UNCHANGED vars => OperationsInv'
<1> SUFFICES ASSUME OperationsInv, UNCHANGED vars PROVE OperationsInv'
    OBVIOUS
<1>0. RowsInv /\ NotesInv /\ SchedulerTypeOK /\ DistinctHolders
    BY InvParts
<1>1. RowsInv' /\ LeaseGrows
    BY <1>0, RowsKept DEF vars
<1>2. NotesInv' /\ OutboxGrows
    BY <1>0, <1>1, NotesKept DEF vars
<1>3. SchedulerTypeOK' /\ DistinctHolders' /\ \A q \in Schedulers : SameThread(q)
    BY <1>0
    DEF SchedulerTypeOK, DistinctHolders, HoldsRun, HoldsSend, SameThread, listVars, claimVars,
        vars
<1> QED
    BY <1>1, <1>2, <1>3, Bystander, InvParts
    DEF OperationsInv, TypeOK, SchedulerTypeOK, RowsInv, NotesInv, ProcessOK, Grow

LEMMA InitOK == Init => OperationsInv
<1> SUFFICES ASSUME Init PROVE OperationsInv
    OBVIOUS
<1>1. RowsInv
    BY LeaseBounds
    DEF Init, LeaseInit, RowsInv, LeaseTypeOK, RowsOK, PeriodsInOrder, States, Periods
<1>2. NotesInv
    BY SchedulerBounds
    DEF Init, Outbox!OutboxInit, NotesInv, Outbox!OutboxTypeOK, NotesOK
<1>3. SchedulerTypeOK
    BY LeaseBounds, SchedulerBounds
    DEF Init, SchedulerTypeOK, NotActive, Places, MaxHeld
<1>4. ASSUME NEW p \in Schedulers
      PROVE  ProcessOK(p) /\ ~HoldsRun(p) /\ ~HoldsSend(p)
    BY SchedulerBounds
    DEF Init, ProcessOK, HeldOK, PickedOK, HoldsRun, HoldsSend, Running, Sending
<1> QED
    BY <1>1, <1>2, <1>3, <1>4, InvParts DEF DistinctHolders

LEMMA TickOK == ASSUME OperationsInv, NEW p \in Schedulers, Tick(p) PROVE OperationsInv'
BY BeginTickOK, FlushOK, ExpireSendsOK, EndTickOK, SkipScheduleOK, ClaimRetryOK, SkipRetryOK,
   PickUnseenOK, ClaimUnseenOK, ClaimRefusedOK, ExecuteOK, CompleteOK, FailOK, StaleRunOK,
   EnqueueOutcomeOK, ClaimSendOK, DeliverOK, FinishSendOK, StaleSendOK
DEF Tick

LEMMA NextOK == OperationsInv /\ [Next]_vars => OperationsInv'
BY TickOK, CrashOK, WorldOK, StutterOK DEF Next

-----------------------------------------------------------------------------
(* Rows, inbox and schedulers agree at every moment.                          *)
THEOREM OperationsInvariant == Spec => []OperationsInv
BY InitOK, NextOK, PTL DEF Spec

(* Only the latest attempt of a period decides it, and it decides once.       *)
THEOREM LatestAttemptDecidesHolds == Spec => []LatestAttemptDecides
<1>1. OperationsInv => LatestAttemptDecides
    <2> SUFFICES ASSUME OperationsInv, NEW o \in outcomes
                 PROVE  /\ state[o[1]] = "succeeded" /\ o[2] = attempts[o[1]]
                        /\ \A other \in outcomes : other[1] = o[1] => other = o
        BY DEF LatestAttemptDecides
    <2>1. \A x \in outcomes : /\ state[x[1]] = "succeeded" /\ x[2] = attempts[x[1]]
                              /\ x = <<x[1], x[2]>>
        BY DEF OperationsInv, TypeOK, LeaseTypeOK, RowsOK
    <2> QED
        BY <2>1
<1> QED
    BY <1>1, OperationsInvariant, PTL

(* Racing schedulers take up the periods in order and leave none out.         *)
THEOREM PeriodsInOrderHolds == Spec => []PeriodsInOrder
<1>1. OperationsInv => PeriodsInOrder
    BY DEF OperationsInv
<1> QED
    BY <1>1, OperationsInvariant, PTL

(* What is marked sent is in the inbox, and the inbox has outcomes only.      *)
THEOREM SentIsReceivedHolds == Spec => []SentIsReceived
<1>1. OperationsInv => SentIsReceived
    BY DEF OperationsInv, NotesOK, SentIsReceived
<1> QED
    BY <1>1, OperationsInvariant, PTL

-----------------------------------------------------------------------------
(* The refinement: one lemma for every kind of step the promise can see.      *)
LEMMA SeenUnchanged ==
    ASSUME UNCHANGED <<state, attempts, inbox>> PROVE UNCHANGED Promise!vars
BY DEF Promise!vars

LEMMA ClaimRefines ==
    ASSUME RowsInv, NEW k \in Periods, NEW r, Claimable(k, r), ClaimPeriod(k), UNCHANGED inbox,
           state[k] = "unseen" =>
                \A n \in 1..MaxPeriods : n < k[2] => state[<<k[1], n>>] # "unseen"
    PROVE  Promise!Next
<1>0. /\ state \in [Periods -> States] /\ attempts \in [Periods -> 0..MaxAttempts]
      /\ \A n \in 1..MaxPeriods : <<k[1], n>> \in Periods
    BY DEF RowsInv, LeaseTypeOK, Periods
<1>1. CASE state[k] = "unseen"
    <2>1. attempts[k] = 0
        BY <1>1 DEF RowsInv, RowsOK
    <2>2. Promise!Admit(k)
        BY <1>0, <1>1, <2>1 DEF ClaimPeriod, Promise!Admit
    <2> QED
        BY <2>2 DEF Promise!Next, Promise!Periods, Periods
<1>2. CASE state[k] = "retry_wait"
    <2>1. attempts[k] < MaxAttempts
        BY <1>2 DEF RowsInv, RowsOK
    <2>2. Promise!TryAgain(k)
        BY <1>0, <1>2, <2>1 DEF ClaimPeriod, Promise!TryAgain
    <2> QED
        BY <2>2 DEF Promise!Next, Promise!Periods, Periods
<1> QED
    BY <1>1, <1>2 DEF Claimable

LEMMA CompleteRefines ==
    ASSUME RowsInv, NEW k \in Periods, NEW a, Current(k, a), CompleteRun(k, a), UNCHANGED inbox
    PROVE  Promise!Next
<1>1. Promise!Conclude(k)
    BY DEF RowsInv, LeaseTypeOK, Current, CompleteRun, Promise!Conclude
<1> QED
    BY <1>1 DEF Promise!Next, Promise!Periods, Periods

LEMMA FailureRefines ==
    ASSUME RowsInv, NEW K, AttemptFailure(K), UNCHANGED inbox,
           \A k \in Periods : k \in K => state[k] = "running"
    PROVE  Promise!Next
<1>9. PICK G \in SUBSET Periods :
            \A k \in Periods : k \in G <=> k \in K /\ attempts[k] >= MaxAttempts
    <2>1. {k \in Periods : k \in K /\ attempts[k] >= MaxAttempts} \in SUBSET Periods
        OBVIOUS
    <2> QED
        BY <2>1
<1>0. /\ UNCHANGED attempts
      /\ \A k \in Periods : attempts[k] \in 0..MaxAttempts
    BY DEF AttemptFailure, RowsInv, LeaseTypeOK
<1>1. ASSUME NEW k \in Periods
      PROVE  /\ k \in G => state[k] = "running" /\ state'[k] = "terminal_failed"
             /\ k \notin G => \/ state'[k] = state[k]
                              \/ state[k] = "running" /\ state'[k] = "retry_wait"
    BY <1>9 DEF AttemptFailure
<1>2. Promise!GiveUp(G)
    <2>1. \A k \in G : state[k] = "running" /\ attempts[k] = MaxAttempts
        BY <1>9, <1>0, <1>1, LeaseBounds
    <2>2. {k \in Periods : state'[k] # "unseen"} = {k \in Periods : state[k] # "unseen"}
        BY <1>1
    <2>3. \A k \in Periods :
            (CASE state'[k] = "succeeded"       -> "outcome"
               [] state'[k] = "terminal_failed" -> "given_up"
               [] OTHER                         -> "open")
            = IF k \in G THEN "given_up"
              ELSE CASE state[k] = "succeeded"       -> "outcome"
                     [] state[k] = "terminal_failed" -> "given_up"
                     [] OTHER                        -> "open"
        BY <1>1
    <2> QED
        BY <1>0, <2>1, <2>2, <2>3 DEF Promise!GiveUp, Promise!Periods, Periods
<1>3. G \in SUBSET Promise!Periods
    BY DEF Promise!Periods, Periods
<1> QED
    BY <1>2, <1>3 DEF Promise!Next

LEMMA StoreRefines ==
    ASSUME NEW k \in Periods, state[k] = "succeeded", UNCHANGED <<state, attempts>>, Outbox!Store(k)
    PROVE  Promise!Next
<1>1. Promise!Announce(k)
    BY DEF Promise!Announce, Outbox!Store
<1> QED
    BY <1>1 DEF Promise!Next, Promise!Periods, Periods

LEMMA NextRefines ==
    ASSUME OperationsInv, [Next]_vars PROVE [Promise!Next]_(Promise!vars)
<1>0. RowsInv /\ NotesInv /\ SchedulerTypeOK /\ \A p \in Schedulers : ProcessOK(p)
    BY InvParts
<1>1. ASSUME NEW p \in Schedulers, BeginTick(p) PROVE Promise!Next
    BY <1>0, <1>1, FailureRefines DEF BeginTick, RecoverExpiredLeases, Expired, outboxVars
<1>2. ASSUME NEW p \in Schedulers, NEW k \in Periods, ClaimRetry(p, k) PROVE Promise!Next
    <2>1. state[k] # "unseen"
        BY <1>0, <1>2 DEF ClaimRetry, Claimable, Pinned, RowsInv, LeaseTypeOK, Periods
    <2> QED
        BY <1>0, <1>2, <2>1, ClaimRefines DEF ClaimRetry, Claimed, outboxVars
<1>3. ASSUME NEW p \in Schedulers, NEW k \in Periods, ClaimUnseen(p, k) PROVE Promise!Next
    <2>1. \A n \in 1..MaxPeriods : n < k[2] => state[<<k[1], n>>] # "unseen"
        BY <1>0, <1>3 DEF ClaimUnseen, ProcessOK, PickedOK
    <2> QED
        BY <1>0, <1>3, <2>1, ClaimRefines DEF ClaimUnseen, Claimed, outboxVars
<1>4. ASSUME NEW p \in Schedulers, NEW k \in Periods, Complete(p, k) PROVE Promise!Next
    BY <1>0, <1>4, CompleteRefines DEF Complete, outboxVars
<1>5. ASSUME NEW p \in Schedulers, NEW k \in Periods, Fail(p, k) PROVE Promise!Next
    BY <1>0, <1>5, FailureRefines DEF Fail, Current, outboxVars
<1>6. ASSUME NEW p \in Schedulers, NEW k \in Periods, Deliver(p, k)
      PROVE  Promise!Next \/ UNCHANGED <<state, attempts, inbox>>
    <2>1. state[k] = "succeeded" /\ UNCHANGED <<state, attempts>>
        BY <1>0, <1>6
        DEF Deliver, ProcessOK, HeldOK, HoldsSend, Sending, NotesInv, NotesOK, leaseVars
    <2>2. Outbox!Store(k) \/ UNCHANGED inbox
        BY <1>6 DEF Deliver, outboxVars
    <2> QED
        BY <2>1, <2>2, StoreRefines
<1>7. ASSUME NEW p \in Schedulers, NEW k \in Periods,
             \/ EnqueueOutcome(p, k) \/ ClaimSend(p, k) \/ FinishSend(p, k)
      PROVE  UNCHANGED <<state, attempts, inbox>>
    BY <1>7
    DEF EnqueueOutcome, ClaimSend, FinishSend, Outbox!Enqueue, Outbox!ClaimNotification,
        Outbox!CompleteNotification, Outbox!SendFailure, leaseVars, outboxVars
<1>8. ASSUME NEW p \in Schedulers, Flush(p) \/ ExpireSends(p)
      PROVE  UNCHANGED <<state, attempts, inbox>>
    BY <1>8
    DEF Flush, ExpireSends, Outbox!Enqueue, Outbox!RecoverExpiredSends, Outbox!SendFailure,
        leaseVars
<1>9. ASSUME NEW p \in Schedulers, NEW k \in Periods,
             \/ SkipRetry(p, k) \/ PickUnseen(p, k) \/ ClaimRefused(p, k)
             \/ Execute(p, k) \/ StaleRun(p, k) \/ StaleSend(p, k)
      PROVE  UNCHANGED <<state, attempts, inbox>>
    BY <1>9
    DEF SkipRetry, PickUnseen, ClaimRefused, Execute, StaleRun, StaleSend, leaseVars, outboxVars
<1>10. ASSUME NEW p \in Schedulers, EndTick(p) \/ \E s \in Schedules : SkipSchedule(p, s)
       PROVE  UNCHANGED <<state, attempts, inbox>>
    BY <1>10 DEF EndTick, SkipSchedule, leaseVars, outboxVars
<1>11. ASSUME OutboxMoves \/ LeaseMoves PROVE UNCHANGED <<state, attempts, inbox>>
    BY <1>11
    DEF OutboxMoves, LeaseMoves, LeaseRunsOut, BackoffElapses, PeriodEnds, Publish,
        Outbox!SendLeaseRunsOut, Outbox!SendBackoffElapses, leaseVars, outboxVars
<1>12. UNCHANGED vars => UNCHANGED <<state, attempts, inbox>>
    BY DEF vars, leaseVars, outboxVars
<1>13. ASSUME NEW p \in Schedulers, Tick(p)
       PROVE  Promise!Next \/ UNCHANGED <<state, attempts, inbox>>
    <2>1. CASE BeginTick(p) \/ Flush(p) \/ ExpireSends(p) \/ EndTick(p)
               \/ \E s \in Schedules : SkipSchedule(p, s)
        BY <1>1, <1>8, <1>10, <2>1
    <2>2. ASSUME NEW k \in Periods,
                 \/ ClaimRetry(p, k) \/ SkipRetry(p, k) \/ PickUnseen(p, k)
                 \/ ClaimUnseen(p, k) \/ ClaimRefused(p, k)
          PROVE  Promise!Next \/ UNCHANGED <<state, attempts, inbox>>
        BY <1>2, <1>3, <1>9, <2>2
    <2>3. ASSUME NEW k \in Periods,
                 \/ Execute(p, k) \/ Complete(p, k) \/ Fail(p, k) \/ StaleRun(p, k)
                 \/ EnqueueOutcome(p, k)
          PROVE  Promise!Next \/ UNCHANGED <<state, attempts, inbox>>
        BY <1>4, <1>5, <1>7, <1>9, <2>3
    <2>4. ASSUME NEW k \in Periods,
                 ClaimSend(p, k) \/ Deliver(p, k) \/ FinishSend(p, k) \/ StaleSend(p, k)
          PROVE  Promise!Next \/ UNCHANGED <<state, attempts, inbox>>
        BY <1>6, <1>7, <1>9, <2>4
    <2> QED
        BY <1>13, <2>1, <2>2, <2>3, <2>4 DEF Tick
<1>14. ASSUME NEW p \in Schedulers, Crash(p) PROVE UNCHANGED <<state, attempts, inbox>>
    BY <1>14 DEF Crash, leaseVars, outboxVars
<1> QED
    BY <1>11, <1>12, <1>13, <1>14, SeenUnchanged DEF Next

(* The schedulers implement what monitoring promises.                         *)
THEOREM PromiseKept == Spec => ImplementsPromise
<1>1. Init => Promise!Init
    BY DEF Init, LeaseInit, Outbox!OutboxInit, Promise!Init, Promise!Periods, Periods
<1> QED
    BY <1>1, NextRefines, OperationsInvariant, PTL DEF Spec, ImplementsPromise, Promise!Spec

-----------------------------------------------------------------------------
(* An attempt starts with a claim, and a claim looks at the schedule itself.  *)
LEMMA ClaimStartsOne ==
    ASSUME OperationsInv, NEW k \in Periods, ClaimPeriod(k), enabled[k[1]]
    PROVE  \A i \in Periods : attempts'[i] # attempts[i] => enabled[i[1]]
<1>1. attempts' = [attempts EXCEPT ![k] = @ + 1]
    BY DEF ClaimPeriod
<1>2. attempts \in [Periods -> 0..MaxAttempts]
    BY DEF OperationsInv, TypeOK, LeaseTypeOK
<1> QED
    BY <1>1, <1>2

LEMMA AttemptsStay ==
    ASSUME NEW p \in Schedulers, Tick(p),
           \A k \in Periods : ~ClaimRetry(p, k) /\ ~ClaimUnseen(p, k)
    PROVE  attempts' = attempts
<1> USE DEF leaseVars
<1>1. CASE BeginTick(p)
    BY <1>1 DEF BeginTick, RecoverExpiredLeases, AttemptFailure
<1>2. CASE Flush(p) \/ ExpireSends(p) \/ EndTick(p) \/ \E s \in Schedules : SkipSchedule(p, s)
    BY <1>2 DEF Flush, ExpireSends, EndTick, SkipSchedule
<1>3. ASSUME NEW k \in Periods, SkipRetry(p, k) \/ PickUnseen(p, k) \/ ClaimRefused(p, k)
      PROVE  attempts' = attempts
    BY <1>3 DEF SkipRetry, PickUnseen, ClaimRefused
<1>4. ASSUME NEW k \in Periods,
             Execute(p, k) \/ StaleRun(p, k) \/ EnqueueOutcome(p, k)
      PROVE  attempts' = attempts
    BY <1>4 DEF Execute, StaleRun, EnqueueOutcome
<1>5. ASSUME NEW k \in Periods, Complete(p, k) \/ Fail(p, k) PROVE attempts' = attempts
    BY <1>5 DEF Complete, Fail, CompleteRun, AttemptFailure
<1>6. ASSUME NEW k \in Periods,
             ClaimSend(p, k) \/ Deliver(p, k) \/ FinishSend(p, k) \/ StaleSend(p, k)
      PROVE  attempts' = attempts
    BY <1>6 DEF ClaimSend, Deliver, FinishSend, StaleSend
<1> QED
    BY <1>1, <1>2, <1>3, <1>4, <1>5, <1>6 DEF Tick

(* Nothing is tried for a schedule that is disabled, however old the list is  *)
(* a tick works from: the claim reads the schedule again in its transaction.  *)
THEOREM DisabledIsQuietHolds == Spec => DisabledIsQuiet
<1>1. OperationsInv /\ [Next]_vars
      => (\A k \in Periods : attempts'[k] # attempts[k] => enabled[k[1]]) \/ UNCHANGED vars
    <2> SUFFICES ASSUME OperationsInv, Next
                 PROVE  \A k \in Periods : attempts'[k] # attempts[k] => enabled[k[1]]
        OBVIOUS
    <2>1. ASSUME NEW p \in Schedulers, NEW k \in Periods, ClaimRetry(p, k) \/ ClaimUnseen(p, k)
          PROVE  \A i \in Periods : attempts'[i] # attempts[i] => enabled[i[1]]
        BY <2>1, ClaimStartsOne DEF ClaimRetry, ClaimUnseen, Claimed, Claimable
    <2>2. ASSUME NEW p \in Schedulers, Crash(p) PROVE attempts' = attempts
        BY <2>2 DEF Crash, leaseVars
    <2>3. ASSUME OutboxMoves \/ LeaseMoves PROVE attempts' = attempts
        BY <2>3
        DEF OutboxMoves, LeaseMoves, LeaseRunsOut, BackoffElapses, PeriodEnds, Publish, leaseVars
    <2> QED
        BY <2>1, <2>2, <2>3, AttemptsStay DEF Next
<1> QED
    BY <1>1, OperationsInvariant, PTL DEF Spec, DisabledIsQuiet
=============================================================================
