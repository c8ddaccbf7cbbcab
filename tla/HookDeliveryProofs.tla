------------------------- MODULE HookDeliveryProofs -------------------------
(* Hook deliveries for every number of processes, targets and attempts:       *)
(* HookInv is inductive, and the properties of the runs follow from it.       *)
EXTENDS HookDelivery, TLAPS

ProcessOK(p) == AttemptOK(p) /\ ProgressOK(p) /\ KeepsRow(p)

LEMMA InitOK == Init => HookInv
<1> SUFFICES ASSUME Init PROVE HookInv
    OBVIOUS
<1> USE TargetsAssumption, EventsAssumption, HookBounds DEF Init, Attempting
<1>1. TypeOK
    <2>1. pc \in [Processes -> Places] /\ at \in [Processes -> Targets \cup {0}]
        BY DEF Places
    <2>2. /\ held \in [Processes -> 0..MaxGeneration] /\ bad \in [Processes -> BOOLEAN]
          /\ result \in [Processes -> Outcomes]
          /\ generation \in [Targets -> 0..MaxGeneration]
        BY DEF Outcomes
    <2>3. /\ status \in [Targets -> {"none", "started"} \cup Outcomes]
          /\ effects \subseteq Deliveries /\ fences \subseteq Deliveries
        OBVIOUS
    <2>4. crashes \in 0..CrashLimit /\ owner \in Processes \cup {NoOne}
        OBVIOUS
    <2> QED
        BY <2>1, <2>2, <2>3, <2>4 DEF TypeOK
<1>2. RowsOK
    BY DEF RowsOK
<1>3. ASSUME NEW p \in Processes PROVE pc[p] \in {"idle", "prepare"} /\ at[p] = 0 /\ ProcessOK(p)
    BY DEF ProcessOK, AttemptOK, ProgressOK, KeepsRow, Passed
<1>4. DistinctAttempts /\ ObligationsOK
    BY <1>3 DEF DistinctAttempts, ObligationsOK
<1> QED
    BY <1>1, <1>2, <1>3, <1>4 DEF HookInv, AttemptKeepsRow, ProcessOK

LEMMA StutterOK == HookInv /\ UNCHANGED vars => HookInv'
BY DEF HookInv, TypeOK, RowsOK, AttemptOK, ProgressOK, KeepsRow, DistinctAttempts, ObligationsOK,
       AttemptKeepsRow, Passed, FirstDelivered, Attempt, vars, stepVars, eventVars, rowVars,
       threadVars, worldVars

(* What the types say of the numbers.                                         *)
LEMMA Typing ==
    ASSUME TypeOK
    PROVE  /\ \A t \in Targets : t \in Nat \ {0} /\ generation[t] \in 0..MaxGeneration
           /\ frozen \subseteq Targets
           /\ \A p \in Processes : at[p] \in Nat /\ held[p] \in 0..MaxGeneration
<1>1. \A t \in Targets : t \in Nat \ {0}
    BY TargetsAssumption
<1>2. /\ \A t \in Targets : generation[t] \in 0..MaxGeneration
      /\ \A p \in Processes : held[p] \in 0..MaxGeneration
    BY DEF TypeOK
<1>3. \A p \in Processes : at[p] \in Nat
    BY <1>1 DEF TypeOK
<1> QED
    BY <1>1, <1>2, <1>3 DEF TypeOK

(* What a step leaves to a process that does not take it.                     *)
SameThread(q) ==
    /\ pc'[q] = pc[q] /\ at'[q] = at[q] /\ held'[q] = held[q]
    /\ bad'[q] = bad[q] /\ result'[q] = result[q]
SucceededStays == \A t \in Targets : status[t] = "succeeded" => status'[t] = "succeeded"

LEMMA Bystander ==
    ASSUME HookInv, NEW q \in Processes, SameThread(q),
           UNCHANGED <<prepared, frozen>>, effects \subseteq effects',
           SucceededStays,
           \A t \in Targets : generation'[t] \in Nat /\ generation[t] <= generation'[t],
           pc[q] \in Attempting /\ held[q] = generation'[at[q]]
               => status'[at[q]] \in {status[at[q]], "succeeded"}
    PROVE  ProcessOK(q)'
<1>1. ProcessOK(q) /\ TypeOK
    BY DEF HookInv, AttemptKeepsRow, ProcessOK
<1>2. AttemptOK(q)'
    BY <1>1 DEF ProcessOK, AttemptOK, SameThread, Attempt, TypeOK
<1>3. ProgressOK(q)'
    BY <1>1 DEF ProcessOK, ProgressOK, Passed, FirstDelivered, SameThread, SucceededStays, TypeOK
<1>4. KeepsRow(q)'
    BY <1>1 DEF ProcessOK, KeepsRow, AttemptOK, SameThread, TypeOK
<1> QED
    BY <1>2, <1>3, <1>4 DEF ProcessOK

(* A step of one process that leaves the others where they are.               *)
LEMMA OneProcess ==
    ASSUME HookInv, NEW p \in Processes, TypeOK', RowsOK', ObligationsOK',
           ProcessOK(p)',
           \A q \in Processes \ {p} : ProcessOK(q)' /\ SameThread(q),
           pc'[p] \in Attempting =>
               \A q \in Processes \ {p} : pc[q] \in Attempting => Attempt(q) # Attempt(p)'
    PROVE  HookInv'
<1>1. DistinctAttempts'
    BY DEF HookInv, AttemptKeepsRow, DistinctAttempts, SameThread, Attempt
<1> QED
    BY <1>1 DEF HookInv, AttemptKeepsRow, ProcessOK
(* A process moves; no row, no effect and no status of the step changes.       *)
LEMMA ThreadMoves ==
    ASSUME HookInv, NEW p \in Processes, TypeOK',
           UNCHANGED <<prepared, frozen, rowVars, effects, fences, stepStatus>>,
           \A q \in Processes \ {p} : SameThread(q),
           AttemptOK(p)', ProgressOK(p)',
           pc'[p] \in Attempting => pc[p] \in Attempting /\ Attempt(p)' = Attempt(p)
    PROVE  HookInv'
<1>1. RowsOK' /\ ObligationsOK'
    BY DEF HookInv, RowsOK, ObligationsOK, FirstDelivered, rowVars
<1>2. KeepsRow(p)'
    BY DEF HookInv, AttemptKeepsRow, KeepsRow, Attempt, rowVars
<1>3. ASSUME NEW q \in Processes, q # p PROVE ProcessOK(q)'
    <2>1. KeepsRow(q) /\ TypeOK
        BY DEF HookInv, AttemptKeepsRow
    <2> QED
        BY <1>3, <2>1, Bystander DEF SucceededStays, TypeOK, rowVars
<1>4. ASSUME NEW q \in Processes, q # p, pc[q] \in Attempting, pc'[p] \in Attempting
      PROVE  Attempt(q) # Attempt(p)'
    BY <1>4 DEF HookInv, AttemptKeepsRow, DistinctAttempts
<1> QED
    BY <1>1, <1>2, <1>3, <1>4, OneProcess DEF ProcessOK

(* The next target of a dispatch.                                             *)
LEMMA NextTargetOK ==
    ASSUME HookInv, NEW p \in Processes, NEW t \in Targets,
           pc[p] = "dispatch", NextTarget(p, t)
    PROVE  /\ t \in frozen /\ at[p] < t
           /\ \A u \in frozen : u < t => u <= at[p]
           /\ t \in SecondEvent => FirstDelivered
<1>1. TypeOK /\ ProgressOK(p) /\ \A u \in Targets : u \in Nat
    BY TargetsAssumption DEF HookInv
<1>2. at[p] \in Nat
    BY <1>1 DEF TypeOK
<1>3. t \in frozen /\ at[p] < t /\ \A u \in frozen : u < t => u <= at[p]
    BY <1>1, <1>2 DEF NextTarget, Remaining, TypeOK
<1>4. ASSUME t \in SecondEvent, at[p] \notin SecondEvent PROVE FirstDelivered
    <2>1. Remaining(p) \subseteq SecondEvent
        BY <1>1, <1>2, <1>4, EventsAssumption DEF NextTarget, Remaining, TypeOK
    <2>2. ~bad[p]
        BY <1>4, <2>1 DEF NextTarget, EventFailed
    <2>3. ASSUME NEW u \in (frozen \cap Required) \ SecondEvent PROVE u < t
        BY <1>1, <1>4, <2>3, EventsAssumption DEF TypeOK
    <2> QED
        BY <1>1, <1>3, <2>2, <2>3 DEF ProgressOK, Passed, FirstDelivered
<1> QED
    BY <1>1, <1>3, <1>4 DEF ProgressOK

(* Every step of a process, one lemma each.                                    *)
LEMMA ReadReceiptOK ==
    ASSUME HookInv, NEW p \in Processes, NEW t \in Targets, ReadReceipt(p, t)
    PROVE  HookInv'
<1> USE TargetsAssumption, HookBounds
    DEF ReadReceipt, Recorded, stepVars, eventVars, rowVars, worldVars
<1>1. TypeOK /\ RowsOK /\ AttemptOK(p) /\ ProgressOK(p)
    BY DEF HookInv
<1>2. TypeOK'
    BY <1>1 DEF TypeOK, Places, Attempting, Outcomes
<1>3. /\ t \in frozen /\ \A u \in frozen : u < t => u <= at[p]
      /\ t \in SecondEvent => FirstDelivered
    BY NextTargetOK
<1>4. pc'[p] = "dispatch" /\ at'[p] = t /\ bad'[p] = (bad[p] \/ (t \in Required /\ status[t] # "succeeded"))
    BY <1>1 DEF TypeOK
<1>5. AttemptOK(p)'
    BY <1>4 DEF AttemptOK, Attempting
<1>6. ProgressOK(p)'
    <2>1. ASSUME ~bad'[p], NEW u \in frozen \cap Required, u <= t PROVE status[u] = "succeeded"
        <3>1. CASE u = t BY <1>4, <2>1, <3>1
        <3>2. CASE u < t BY <1>1, <1>3, <1>4, <2>1, <3>2 DEF ProgressOK, Passed
        <3> QED BY <1>1, <2>1, <3>1, <3>2 DEF TypeOK
    <2> QED
        BY <1>1, <1>3, <1>4, <2>1 DEF ProgressOK, Passed, FirstDelivered
<1> QED
    BY <1>1, <1>2, <1>4, <1>5, <1>6, ThreadMoves DEF SameThread, Attempting, TypeOK

LEMMA ClaimRefusedOK ==
    ASSUME HookInv, NEW p \in Processes, ClaimRefused(p)
    PROVE  HookInv'
<1> USE TargetsAssumption, HookBounds
    DEF ClaimRefused, Goto, stepVars, eventVars, rowVars, worldVars
<1>1. TypeOK /\ RowsOK /\ AttemptOK(p) /\ ProgressOK(p)
    BY DEF HookInv
<1>2. TypeOK'
    BY <1>1 DEF TypeOK, Places, Attempting, Outcomes
<1>3. AttemptOK(p)' /\ ProgressOK(p)'
    BY <1>1 DEF AttemptOK, ProgressOK, Passed, FirstDelivered, Attempt, Attempting, TypeOK
<1> QED
    BY <1>1, <1>2, <1>3, ThreadMoves DEF SameThread, Attempt, Attempting, TypeOK

LEMMA DispatchEndsOK ==
    ASSUME HookInv, NEW p \in Processes, DispatchEnds(p)
    PROVE  HookInv'
<1> USE TargetsAssumption, HookBounds
    DEF DispatchEnds, EventFailed, Remaining, Goto, stepVars, eventVars, rowVars, worldVars
<1>1. TypeOK /\ RowsOK /\ AttemptOK(p) /\ ProgressOK(p)
    BY DEF HookInv
<1>2. TypeOK'
    BY <1>1 DEF TypeOK, Places, Attempting, Outcomes
<1>3. pc'[p] = (IF bad[p] THEN "fail" ELSE "mark") /\ at'[p] = at[p] /\ bad'[p] = bad[p]
    BY <1>1 DEF TypeOK
<1>4. ASSUME ~bad[p], NEW t \in frozen PROVE t <= at[p]
    <2>1. t \in Nat /\ at[p] \in Nat
        BY <1>1, <1>4, Typing
    <2>2. ~(t > at[p])
        BY <1>4
    <2> QED
        BY <2>1, <2>2
<1>5. AttemptOK(p)' /\ ProgressOK(p)'
    BY <1>1, <1>3, <1>4 DEF AttemptOK, ProgressOK, Passed, FirstDelivered, Attempting
<1> QED
    BY <1>1, <1>2, <1>3, <1>5, ThreadMoves DEF SameThread, Attempt, Attempting, TypeOK

LEMMA NotInvokedOK ==
    ASSUME HookInv, NEW p \in Processes, NotInvoked(p)
    PROVE  HookInv'
<1> USE TargetsAssumption, HookBounds DEF NotInvoked, stepVars, eventVars, rowVars, worldVars
<1>1. TypeOK /\ RowsOK /\ AttemptOK(p) /\ ProgressOK(p)
    BY DEF HookInv
<1>2. TypeOK'
    BY <1>1 DEF TypeOK, Places, Attempting, Outcomes
<1>3. AttemptOK(p)' /\ ProgressOK(p)'
    BY <1>1 DEF AttemptOK, ProgressOK, Passed, FirstDelivered, Attempt, Attempting, TypeOK
<1> QED
    BY <1>1, <1>2, <1>3, ThreadMoves DEF SameThread, Attempt, Attempting, TypeOK

LEMMA InvokeOK ==
    ASSUME HookInv, NEW p \in Processes, Invoke(p)
    PROVE  HookInv'
<1> USE TargetsAssumption, HookBounds DEF Invoke, Goto, stepVars, eventVars, rowVars, worldVars
<1>1. TypeOK /\ RowsOK /\ AttemptOK(p) /\ ProgressOK(p)
    BY DEF HookInv
<1>2. TypeOK'
    BY <1>1 DEF TypeOK, Places, Attempting, Outcomes
<1>3. AttemptOK(p)' /\ ProgressOK(p)'
    BY <1>1 DEF AttemptOK, ProgressOK, Passed, FirstDelivered, Attempt, Attempting, TypeOK
<1> QED
    BY <1>1, <1>2, <1>3, ThreadMoves DEF SameThread, Attempt, Attempting, TypeOK

LEMMA HandlerFailsOK ==
    ASSUME HookInv, NEW p \in Processes, HandlerFails(p)
    PROVE  HookInv'
<1> USE TargetsAssumption, HookBounds DEF HandlerFails, stepVars, eventVars, rowVars, worldVars
<1>1. TypeOK /\ RowsOK /\ AttemptOK(p) /\ ProgressOK(p)
    BY DEF HookInv
<1>2. TypeOK'
    BY <1>1 DEF TypeOK, Places, Attempting, Outcomes
<1>3. AttemptOK(p)' /\ ProgressOK(p)'
    BY <1>1 DEF AttemptOK, ProgressOK, Passed, FirstDelivered, Attempt, Attempting, TypeOK
<1> QED
    BY <1>1, <1>2, <1>3, ThreadMoves DEF SameThread, Attempt, Attempting, TypeOK

LEMMA HandlerReturnsOK ==
    ASSUME HookInv, NEW p \in Processes, HandlerReturns(p)
    PROVE  HookInv'
<1> USE TargetsAssumption, HookBounds DEF HandlerReturns, stepVars, eventVars, rowVars, worldVars
<1>1. TypeOK /\ RowsOK /\ AttemptOK(p) /\ ProgressOK(p)
    BY DEF HookInv
<1>2. TypeOK'
    BY <1>1 DEF TypeOK, Places, Attempting, Outcomes
<1>3. AttemptOK(p)' /\ ProgressOK(p)'
    BY <1>1 DEF AttemptOK, ProgressOK, Passed, FirstDelivered, Attempt, Attempting, TypeOK
<1> QED
    BY <1>1, <1>2, <1>3, ThreadMoves DEF SameThread, Attempt, Attempting, TypeOK

LEMMA ReceiptLostOK ==
    ASSUME HookInv, NEW p \in Processes, ReceiptLost(p)
    PROVE  HookInv'
<1> USE TargetsAssumption, HookBounds
    DEF ReceiptLost, Recorded, stepVars, eventVars, rowVars, worldVars
<1>1. TypeOK /\ RowsOK /\ AttemptOK(p) /\ ProgressOK(p)
    BY DEF HookInv
<1>2. TypeOK'
    BY <1>1 DEF TypeOK, Places, Attempting, Outcomes
<1>3. pc'[p] = "dispatch" /\ at'[p] = at[p] /\ bad'[p] = (bad[p] \/ at[p] \in Required)
    BY <1>1 DEF TypeOK
<1>4. ASSUME ~bad'[p], NEW t \in frozen \cap Required, t <= at[p] PROVE status[t] = "succeeded"
    <2>1. t # at[p] /\ ~bad[p]
        BY <1>3, <1>4
    <2>2. t < at[p]
        BY <1>1, <1>4, <2>1, Typing
    <2> QED
        BY <1>1, <1>4, <2>1, <2>2 DEF ProgressOK, Passed, Attempting
<1>5. AttemptOK(p)' /\ ProgressOK(p)'
    BY <1>1, <1>3, <1>4 DEF AttemptOK, ProgressOK, Passed, FirstDelivered, Attempting
<1> QED
    BY <1>1, <1>2, <1>3, <1>5, ThreadMoves DEF SameThread, Attempt, Attempting, TypeOK

LEMMA CompletionOK ==
    ASSUME HookInv, NEW p \in Processes, ResolveCompletion(p)
    PROVE  HookInv'
<1> USE TargetsAssumption, HookBounds
    DEF ResolveCompletion, Reconciling, stepVars, eventVars, rowVars, worldVars
<1>1. TypeOK /\ RowsOK /\ AttemptOK(p) /\ ProgressOK(p)
    BY DEF HookInv
<1>2. TypeOK'
    BY <1>1 DEF TypeOK, Places, Attempting, Outcomes
<1>3. pc'[p] = "settle" /\ at'[p] = at[p] /\ bad'[p] = bad[p]
    BY <1>1 DEF TypeOK
<1>4. AttemptOK(p)' /\ ProgressOK(p)'
    BY <1>1, <1>3 DEF AttemptOK, ProgressOK, Passed, FirstDelivered, Attempting
<1> QED
    BY <1>1, <1>2, <1>3, <1>4, ThreadMoves DEF SameThread, Attempt, Attempting, TypeOK

LEMMA SettleOK ==
    ASSUME HookInv, NEW p \in Processes, Settle(p)
    PROVE  HookInv'
<1> USE TargetsAssumption, EventsAssumption, HookBounds
    DEF Settle, Goto, End, stepVars, eventVars, rowVars, worldVars
<1>1. TypeOK /\ RowsOK /\ AttemptOK(p) /\ ProgressOK(p)
    BY EventsAssumption DEF HookInv
<1>2. TypeOK'
    <2>1. pc' \in [Processes -> Places]
        BY <1>1 DEF TypeOK, Places, Attempting
    <2> QED
        BY <1>1, <2>1 DEF TypeOK, Outcomes, Attempting
<1>3. pc'[p] \in {"reopen", "idle"} /\ at'[p] \in {0, at[p]}
    BY <1>1 DEF TypeOK
<1>4. AttemptOK(p)' /\ ProgressOK(p)'
    BY <1>1, <1>3 DEF AttemptOK, ProgressOK, Passed, FirstDelivered, Attempting
<1> QED
    BY <1>1, <1>2, <1>3, <1>4, ThreadMoves DEF SameThread, Attempt, Attempting, TypeOK

LEMMA ClaimOK ==
    ASSUME HookInv, NEW p \in Processes, NEW t \in Targets, Claim(p, t)
    PROVE  HookInv'
<1> USE TargetsAssumption, EventsAssumption, HookBounds
    DEF Claim, Claimable, stepVars, eventVars, rowVars, worldVars
<1>0. /\ TypeOK /\ RowsOK /\ ObligationsOK /\ ProcessOK(p)
      /\ \A q \in Processes : ProcessOK(q)
    BY DEF HookInv, AttemptKeepsRow, ProcessOK
<1>1. TypeOK'
    BY <1>0 DEF TypeOK, Places, Attempting, Outcomes
<1>2. /\ t \in frozen /\ at[p] < t /\ \A u \in frozen : u < t => u <= at[p]
      /\ t \in SecondEvent => FirstDelivered
    BY NextTargetOK
<1>3. /\ generation'[t] = generation[t] + 1 /\ generation[t] \in Nat
      /\ generation'[t] \in 1..MaxGeneration /\ generation[t] < generation'[t]
      /\ status'[t] = "started"
      /\ \A u \in Targets \ {t} : generation'[u] = generation[u] /\ status'[u] = status[u]
    BY <1>0, Typing DEF TypeOK
<1>4. generation[t] > 0 => <<t, generation[t]>> \in fences
    BY <1>0, <1>3 DEF RowsOK
<1>5. status[t] # "succeeded"
    BY <1>0, <1>3, <1>4 DEF RowsOK
<1>6. SucceededStays
    BY <1>3, <1>5 DEF SucceededStays
<1>7. RowsOK'
    <2>1. ASSUME NEW u \in Targets, NEW g \in 1..MaxGeneration
          PROVE  /\ <<u, g>> \in effects \cup fences => g <= generation'[u]
                 /\ g < generation'[u] => <<u, g>> \in fences
        <3>1. CASE u # t
            BY <1>0, <1>3, <2>1, <3>1 DEF RowsOK
        <3>2. CASE u = t
            BY <1>0, <1>3, <1>4, <2>1, <3>2 DEF RowsOK
        <3> QED BY <3>1, <3>2
    <2>2. ASSUME NEW u \in Targets
          PROVE  /\ status'[u] = "none" <=> generation'[u] = 0
                 /\ generation'[u] > 0 => u \in frozen
                 /\ u \in authorized' => <<u, generation'[u]>> \in fences
                 /\ status'[u] = "succeeded" => <<u, generation'[u]>> \in effects
        BY <1>0, <1>2, <1>3, <2>2 DEF RowsOK
    <2> QED
        BY <1>0, <2>1, <2>2 DEF RowsOK
<1>8. ObligationsOK'
    <2>1. FirstDelivered => FirstDelivered'
        BY <1>0, <1>6 DEF FirstDelivered, SucceededStays, TypeOK
    <2>2. ASSUME NEW u \in SecondEvent, generation'[u] > 0 PROVE FirstDelivered'
        BY <1>0, <1>2, <1>3, <2>1, <2>2 DEF ObligationsOK
    <2> QED
        BY <1>0, <1>6, <2>2 DEF ObligationsOK, SucceededStays, TypeOK
<1>9. /\ pc'[p] = "invoke" /\ at'[p] = t /\ held'[p] = generation'[t] /\ bad'[p] = bad[p]
      /\ pc[p] = "dispatch"
    BY <1>0, <1>3 DEF TypeOK
<1>10. ProcessOK(p)'
    <2>1. AttemptOK(p)' /\ KeepsRow(p)'
        BY <1>1, <1>2, <1>3, <1>9 DEF AttemptOK, KeepsRow, Attempting, TypeOK
    <2>2. ASSUME ~bad'[p], NEW u \in frozen \cap Required, u < t PROVE status'[u] = "succeeded"
        BY <1>0, <1>2, <1>6, <1>9, <2>2 DEF ProcessOK, ProgressOK, Passed, SucceededStays, TypeOK
    <2>3. FirstDelivered => FirstDelivered'
        BY <1>0, <1>6 DEF FirstDelivered, SucceededStays, TypeOK
    <2>4. ProgressOK(p)'
        BY <1>0, <1>2, <1>9, <2>2, <2>3 DEF ProcessOK, ProgressOK, Passed, Attempting
    <2> QED
        BY <2>1, <2>4 DEF ProcessOK
<1>11. ASSUME NEW q \in Processes, q # p
       PROVE  ProcessOK(q)' /\ SameThread(q)
    <2>1. SameThread(q)
        BY <1>0, <1>11 DEF SameThread, TypeOK
    <2>2. pc[q] \in Attempting => held[q] \in 1..generation[at[q]] /\ at[q] \in Targets
        BY <1>0, Typing DEF ProcessOK, AttemptOK
    <2>3. pc[q] \in Attempting /\ held[q] = generation'[at[q]] => at[q] # t
        BY <1>3, <2>2
    <2>4. \A u \in Targets : generation'[u] \in Nat /\ generation[u] <= generation'[u]
        BY <1>0, <1>3, Typing
    <2> QED
        BY <1>3, <1>6, <2>1, <2>2, <2>3, <2>4, Bystander
<1>12. ASSUME NEW q \in Processes, q # p, pc[q] \in Attempting
       PROVE  Attempt(q) # Attempt(p)'
    <2>1. held[q] \in 1..generation[at[q]]
        BY <1>0, <1>12 DEF ProcessOK, AttemptOK
    <2> QED
        BY <1>3, <1>9, <2>1 DEF Attempt
<1> QED
    BY <1>1, <1>7, <1>8, <1>10, <1>11, <1>12, OneProcess

LEMMA AppliesOK ==
    ASSUME HookInv, NEW p \in Processes, HandlerApplies(p)
    PROVE  HookInv'
<1> USE TargetsAssumption, EventsAssumption, HookBounds
    DEF HandlerApplies, Goto, stepVars, eventVars, rowVars, worldVars
<1>0. /\ TypeOK /\ RowsOK /\ ObligationsOK /\ ProcessOK(p)
      /\ \A q \in Processes : ProcessOK(q)
    BY DEF HookInv, AttemptKeepsRow, ProcessOK
<1>1. TypeOK'
    BY <1>0 DEF TypeOK, Places, Attempting, Outcomes, Attempt, Deliveries, ProcessOK, AttemptOK
<1>2. RowsOK' /\ SucceededStays
    BY <1>0, <1>1 DEF RowsOK, TypeOK, ProcessOK, AttemptOK, Attempt, Attempting, SucceededStays
<1>3. ObligationsOK'
    BY <1>0, <1>1, <1>2
    DEF ObligationsOK, FirstDelivered, SucceededStays, ProcessOK, ProgressOK, Passed, TypeOK,
        RowsOK
<1>4. ProcessOK(p)'
    BY <1>0, <1>1, <1>2
    DEF ProcessOK, AttemptOK, ProgressOK, KeepsRow, Passed, FirstDelivered, SucceededStays,
        Attempt, Attempting, TypeOK, RowsOK
<1>5. ASSUME NEW q \in Processes, q # p
      PROVE  ProcessOK(q)' /\ SameThread(q)
    <2>1. SameThread(q)
        BY <1>0, <1>5 DEF SameThread, TypeOK
    <2>2. pc[q] \in Attempting /\ held[q] = generation'[at[q]] => status'[at[q]] \in {status[at[q]], "succeeded"}
        BY <1>0, <1>5 DEF TypeOK, ProcessOK, AttemptOK
    <2> QED
        BY <1>0, <1>1, <1>2, <1>5, <2>1, <2>2, Bystander DEF TypeOK
<1>6. ASSUME NEW q \in Processes, q # p, pc[q] \in Attempting, pc'[p] \in Attempting
      PROVE  Attempt(q) # Attempt(p)'
    BY <1>0, <1>6
    DEF HookInv, AttemptKeepsRow, DistinctAttempts, Attempt, TypeOK, ProcessOK, AttemptOK,
        Attempting
<1> QED
    BY <1>1, <1>2, <1>3, <1>4, <1>5, <1>6, OneProcess

LEMMA WriteReceiptOK ==
    ASSUME HookInv, NEW p \in Processes, WriteReceipt(p)
    PROVE  HookInv'
<1> USE TargetsAssumption, EventsAssumption, HookBounds
    DEF WriteReceipt, Owned, Recorded, stepVars, eventVars, rowVars, worldVars
<1>0. /\ TypeOK /\ RowsOK /\ ObligationsOK /\ ProcessOK(p)
      /\ \A q \in Processes : ProcessOK(q)
    BY DEF HookInv, AttemptKeepsRow, ProcessOK
<1>1. TypeOK'
    BY <1>0 DEF TypeOK, Places, Attempting, Outcomes, Attempt, Deliveries, ProcessOK, AttemptOK
<1>a. /\ at[p] \in frozen /\ at[p] \in Targets /\ status[at[p]] = "started"
      /\ held[p] = generation[at[p]] /\ result[p] \in Outcomes
      /\ result[p] = "succeeded" => <<at[p], generation[at[p]]>> \in effects
      /\ status'[at[p]] = result[p]
      /\ \A u \in Targets \ {at[p]} : status'[u] = status[u]
    BY <1>0 DEF TypeOK, ProcessOK, AttemptOK, Attempting, Attempt
<1>2. RowsOK' /\ SucceededStays
    <2>1. ASSUME NEW u \in Targets
          PROVE  /\ status'[u] = "none" <=> generation[u] = 0
                 /\ status'[u] = "succeeded" => <<u, generation[u]>> \in effects
        BY <1>0, <1>a, <2>1 DEF RowsOK, Outcomes
    <2> QED
        BY <1>0, <1>a, <2>1 DEF RowsOK, SucceededStays
<1>3. ObligationsOK'
    BY <1>0, <1>1, <1>2
    DEF ObligationsOK, FirstDelivered, SucceededStays, ProcessOK, ProgressOK, Passed, TypeOK,
        RowsOK
<1>b. /\ pc'[p] = "dispatch" /\ at'[p] = at[p] /\ pc[p] \in Attempting
      /\ bad'[p] = (bad[p] \/ (at[p] \in Required /\ result[p] # "succeeded"))
    BY <1>0 DEF TypeOK, Attempting
<1>4. ProcessOK(p)'
    <2>1. ASSUME ~bad'[p], NEW t \in frozen \cap Required, t <= at[p] PROVE status'[t] = "succeeded"
        <3>1. CASE t = at[p]
            BY <1>a, <1>b, <2>1, <3>1
        <3>2. CASE t < at[p]
            BY <1>0, <1>2, <1>b, <2>1, <3>2, Typing
            DEF ProcessOK, ProgressOK, Passed, Attempting, SucceededStays
        <3> QED
            BY <1>0, <2>1, <3>1, <3>2, Typing
    <2>2. FirstDelivered => FirstDelivered'
        BY <1>0, <1>2 DEF FirstDelivered, SucceededStays, TypeOK
    <2> QED
        BY <1>0, <1>b, <2>1, <2>2
        DEF ProcessOK, AttemptOK, KeepsRow, ProgressOK, Passed, Attempting
<1>5. ASSUME NEW q \in Processes, q # p
      PROVE  ProcessOK(q)' /\ SameThread(q)
    <2>1. SameThread(q)
        BY <1>0, <1>5 DEF SameThread, TypeOK
    <2>2. pc[q] \in Attempting /\ held[q] = generation'[at[q]] => status'[at[q]] \in {status[at[q]], "succeeded"}
        <3>1. pc[q] \in Attempting => Attempt(q) # Attempt(p) /\ at[q] \in Targets
            BY <1>0, <1>5, <1>b
            DEF HookInv, AttemptKeepsRow, DistinctAttempts, ProcessOK, AttemptOK, TypeOK
        <3> QED
            BY <1>a, <3>1 DEF Attempt
    <2> QED
        BY <1>0, <1>1, <1>2, <1>5, <2>1, <2>2, Bystander DEF TypeOK
<1>6. ASSUME NEW q \in Processes, q # p, pc[q] \in Attempting, pc'[p] \in Attempting
      PROVE  Attempt(q) # Attempt(p)'
    BY <1>0, <1>6
    DEF HookInv, AttemptKeepsRow, DistinctAttempts, Attempt, TypeOK, ProcessOK, AttemptOK,
        Attempting
<1> QED
    BY <1>1, <1>2, <1>3, <1>4, <1>5, <1>6, OneProcess

LEMMA MarkDoneOK ==
    ASSUME HookInv, NEW p \in Processes, MarkDone(p)
    PROVE  HookInv'
<1> USE TargetsAssumption, EventsAssumption, HookBounds
    DEF MarkDone, End, stepVars, eventVars, rowVars, worldVars
<1>0. /\ TypeOK /\ RowsOK /\ ObligationsOK /\ ProcessOK(p)
      /\ \A q \in Processes : ProcessOK(q)
    BY DEF HookInv, AttemptKeepsRow, ProcessOK
<1>1. TypeOK'
    BY <1>0 DEF TypeOK, Places, Attempting, Outcomes, Attempt, Deliveries, ProcessOK, AttemptOK
<1>2. RowsOK' /\ SucceededStays
    BY <1>0, <1>1 DEF RowsOK, TypeOK, ProcessOK, AttemptOK, Attempt, Attempting, SucceededStays
<1>3. ObligationsOK'
    BY <1>0, <1>1, <1>2
    DEF ObligationsOK, FirstDelivered, SucceededStays, ProcessOK, ProgressOK, Passed, TypeOK,
        RowsOK
<1>4. ProcessOK(p)'
    BY <1>0, <1>1, <1>2
    DEF ProcessOK, AttemptOK, ProgressOK, KeepsRow, Passed, FirstDelivered, SucceededStays,
        Attempt, Attempting, TypeOK, RowsOK
<1>5. ASSUME NEW q \in Processes, q # p
      PROVE  ProcessOK(q)' /\ SameThread(q)
    <2>1. SameThread(q)
        BY <1>0, <1>5 DEF SameThread, TypeOK
    <2>2. pc[q] \in Attempting /\ held[q] = generation'[at[q]] => status'[at[q]] \in {status[at[q]], "succeeded"}
        BY <1>0, <1>5 DEF TypeOK, ProcessOK, AttemptOK
    <2>3. \A t \in Targets : generation'[t] \in Nat /\ generation[t] <= generation'[t]
        BY <1>0, <1>1, <1>5 DEF TypeOK
    <2>4. UNCHANGED <<prepared, frozen>> /\ effects \subseteq effects' /\ SucceededStays
        BY <1>2, <1>5
    <2> QED
        BY <1>5, <2>1, <2>2, <2>3, <2>4, Bystander
<1>6. ASSUME NEW q \in Processes, q # p, pc[q] \in Attempting, pc'[p] \in Attempting
      PROVE  Attempt(q) # Attempt(p)'
    BY <1>0, <1>6
    DEF HookInv, AttemptKeepsRow, DistinctAttempts, Attempt, TypeOK, ProcessOK, AttemptOK,
        Attempting
<1> QED
    BY <1>1, <1>2, <1>3, <1>4, <1>5, <1>6, OneProcess

LEMMA FailCompletionOK ==
    ASSUME HookInv, NEW p \in Processes, FailCompletion(p)
    PROVE  HookInv'
<1> USE TargetsAssumption, EventsAssumption, HookBounds
    DEF FailCompletion, End, stepVars, eventVars, rowVars, worldVars
<1>0. /\ TypeOK /\ RowsOK /\ ObligationsOK /\ ProcessOK(p)
      /\ \A q \in Processes : ProcessOK(q)
    BY DEF HookInv, AttemptKeepsRow, ProcessOK
<1>1. TypeOK'
    BY <1>0 DEF TypeOK, Places, Attempting, Outcomes, Attempt, Deliveries, ProcessOK, AttemptOK
<1>2. RowsOK' /\ SucceededStays
    BY <1>0, <1>1 DEF RowsOK, TypeOK, ProcessOK, AttemptOK, Attempt, Attempting, SucceededStays
<1>3. ObligationsOK'
    BY <1>0, <1>1, <1>2
    DEF ObligationsOK, FirstDelivered, SucceededStays, ProcessOK, ProgressOK, Passed, TypeOK,
        RowsOK
<1>4. ProcessOK(p)'
    BY <1>0, <1>1, <1>2
    DEF ProcessOK, AttemptOK, ProgressOK, KeepsRow, Passed, FirstDelivered, SucceededStays,
        Attempt, Attempting, TypeOK, RowsOK
<1>5. ASSUME NEW q \in Processes, q # p
      PROVE  ProcessOK(q)' /\ SameThread(q)
    <2>1. SameThread(q)
        BY <1>0, <1>5 DEF SameThread, TypeOK
    <2>2. pc[q] \in Attempting /\ held[q] = generation'[at[q]] => status'[at[q]] \in {status[at[q]], "succeeded"}
        BY <1>0, <1>5 DEF TypeOK, ProcessOK, AttemptOK
    <2>3. \A t \in Targets : generation'[t] \in Nat /\ generation[t] <= generation'[t]
        BY <1>0, <1>1, <1>5 DEF TypeOK
    <2>4. UNCHANGED <<prepared, frozen>> /\ effects \subseteq effects' /\ SucceededStays
        BY <1>2, <1>5
    <2> QED
        BY <1>5, <2>1, <2>2, <2>3, <2>4, Bystander
<1>6. ASSUME NEW q \in Processes, q # p, pc[q] \in Attempting, pc'[p] \in Attempting
      PROVE  Attempt(q) # Attempt(p)'
    BY <1>0, <1>6
    DEF HookInv, AttemptKeepsRow, DistinctAttempts, Attempt, TypeOK, ProcessOK, AttemptOK,
        Attempting
<1> QED
    BY <1>1, <1>2, <1>3, <1>4, <1>5, <1>6, OneProcess

LEMMA AppliedOK ==
    ASSUME HookInv, NEW p \in Processes, NEW t \in Targets, ResolveApplied(p, t)
    PROVE  HookInv'
<1> USE TargetsAssumption, EventsAssumption, HookBounds
    DEF ResolveApplied, Reconciling, Pending, stepVars, eventVars, rowVars, worldVars
<1>0. /\ TypeOK /\ RowsOK /\ ObligationsOK /\ ProcessOK(p)
      /\ \A q \in Processes : ProcessOK(q)
    BY DEF HookInv, AttemptKeepsRow, ProcessOK
<1>1. TypeOK'
    BY <1>0 DEF TypeOK, Places, Attempting, Outcomes, Attempt, Deliveries, ProcessOK, AttemptOK
<1>a. generation[t] # 0
    BY <1>0 DEF TypeOK, Deliveries
<1>2. RowsOK' /\ SucceededStays
    BY <1>0, <1>1, <1>a DEF RowsOK, TypeOK, SucceededStays
<1>3. ObligationsOK'
    BY <1>0, <1>1, <1>2
    DEF ObligationsOK, FirstDelivered, SucceededStays, ProcessOK, ProgressOK, Passed, TypeOK,
        RowsOK
<1>4. ProcessOK(p)'
    BY <1>0, <1>1, <1>2
    DEF ProcessOK, AttemptOK, ProgressOK, KeepsRow, Passed, FirstDelivered, SucceededStays,
        Attempt, Attempting, TypeOK, RowsOK
<1>5. ASSUME NEW q \in Processes, q # p
      PROVE  ProcessOK(q)' /\ SameThread(q)
    <2>1. SameThread(q)
        BY <1>0, <1>5 DEF SameThread, TypeOK
    <2>2. pc[q] \in Attempting /\ held[q] = generation'[at[q]] => status'[at[q]] \in {status[at[q]], "succeeded"}
        BY <1>0, <1>5 DEF TypeOK, ProcessOK, AttemptOK
    <2> QED
        BY <1>0, <1>1, <1>2, <1>5, <2>1, <2>2, Bystander DEF TypeOK
<1>6. ASSUME NEW q \in Processes, q # p, pc[q] \in Attempting, pc'[p] \in Attempting
      PROVE  Attempt(q) # Attempt(p)'
    BY <1>0, <1>6
    DEF HookInv, AttemptKeepsRow, DistinctAttempts, Attempt, TypeOK, ProcessOK, AttemptOK,
        Attempting
<1> QED
    BY <1>1, <1>2, <1>3, <1>4, <1>5, <1>6, OneProcess

LEMMA FencedOK ==
    ASSUME HookInv, NEW p \in Processes, NEW t \in Targets, ResolveFenced(p, t)
    PROVE  HookInv'
<1> USE TargetsAssumption, EventsAssumption, HookBounds
    DEF ResolveFenced, Reconciling, Pending, stepVars, eventVars, rowVars, worldVars
<1>0. /\ TypeOK /\ RowsOK /\ ObligationsOK /\ ProcessOK(p)
      /\ \A q \in Processes : ProcessOK(q)
    BY DEF HookInv, AttemptKeepsRow, ProcessOK
<1>1. TypeOK'
    BY <1>0 DEF TypeOK, Places, Attempting, Outcomes, Attempt, Deliveries, ProcessOK, AttemptOK
<1>2. RowsOK' /\ SucceededStays
    BY <1>0, <1>1 DEF RowsOK, TypeOK, ProcessOK, AttemptOK, Attempt, Attempting, SucceededStays
<1>3. ObligationsOK'
    BY <1>0, <1>1, <1>2
    DEF ObligationsOK, FirstDelivered, SucceededStays, ProcessOK, ProgressOK, Passed, TypeOK,
        RowsOK
<1>4. ProcessOK(p)'
    BY <1>0, <1>1, <1>2
    DEF ProcessOK, AttemptOK, ProgressOK, KeepsRow, Passed, FirstDelivered, SucceededStays,
        Attempt, Attempting, TypeOK, RowsOK
<1>5. ASSUME NEW q \in Processes, q # p
      PROVE  ProcessOK(q)' /\ SameThread(q)
    <2>1. SameThread(q)
        BY <1>0, <1>5 DEF SameThread, TypeOK
    <2>2. pc[q] \in Attempting /\ held[q] = generation'[at[q]] => status'[at[q]] \in {status[at[q]], "succeeded"}
        BY <1>0, <1>5 DEF TypeOK, ProcessOK, AttemptOK
    <2> QED
        BY <1>0, <1>1, <1>2, <1>5, <2>1, <2>2, Bystander DEF TypeOK
<1>6. ASSUME NEW q \in Processes, q # p, pc[q] \in Attempting, pc'[p] \in Attempting
      PROVE  Attempt(q) # Attempt(p)'
    BY <1>0, <1>6
    DEF HookInv, AttemptKeepsRow, DistinctAttempts, Attempt, TypeOK, ProcessOK, AttemptOK,
        Attempting
<1> QED
    BY <1>1, <1>2, <1>3, <1>4, <1>5, <1>6, OneProcess

LEMMA ReopenOK ==
    ASSUME HookInv, NEW p \in Processes, Reopen(p)
    PROVE  HookInv'
<1> USE TargetsAssumption, EventsAssumption, HookBounds
    DEF Reopen, Goto, End, stepVars, eventVars, rowVars, worldVars
<1>0. /\ TypeOK /\ RowsOK /\ ObligationsOK /\ ProcessOK(p)
      /\ \A q \in Processes : ProcessOK(q)
    BY DEF HookInv, AttemptKeepsRow, ProcessOK
<1>1. TypeOK'
    BY <1>0 DEF TypeOK, Places, Attempting, Outcomes, Attempt, Deliveries, ProcessOK, AttemptOK
<1>2. RowsOK' /\ SucceededStays
    BY <1>0, <1>1 DEF RowsOK, TypeOK, ProcessOK, AttemptOK, Attempt, Attempting, SucceededStays
<1>3. ObligationsOK'
    BY <1>0, <1>1, <1>2
    DEF ObligationsOK, FirstDelivered, SucceededStays, ProcessOK, ProgressOK, Passed, TypeOK,
        RowsOK
<1>4. ProcessOK(p)'
    BY <1>0, <1>1, <1>2
    DEF ProcessOK, AttemptOK, ProgressOK, KeepsRow, Passed, FirstDelivered, SucceededStays,
        Attempt, Attempting, TypeOK, RowsOK
<1>5. ASSUME NEW q \in Processes, q # p
      PROVE  ProcessOK(q)' /\ SameThread(q)
    <2>1. SameThread(q)
        BY <1>0, <1>5 DEF SameThread, TypeOK
    <2>2. pc[q] \in Attempting /\ held[q] = generation'[at[q]] => status'[at[q]] \in {status[at[q]], "succeeded"}
        BY <1>0, <1>5 DEF TypeOK, ProcessOK, AttemptOK
    <2> QED
        BY <1>0, <1>1, <1>2, <1>5, <2>1, <2>2, Bystander DEF TypeOK
<1>6. ASSUME NEW q \in Processes, q # p, pc[q] \in Attempting, pc'[p] \in Attempting
      PROVE  Attempt(q) # Attempt(p)'
    BY <1>0, <1>6
    DEF HookInv, AttemptKeepsRow, DistinctAttempts, Attempt, TypeOK, ProcessOK, AttemptOK,
        Attempting
<1> QED
    BY <1>1, <1>2, <1>3, <1>4, <1>5, <1>6, OneProcess

LEMMA PrepareOK ==
    ASSUME HookInv, NEW p \in Processes, Prepare(p)
    PROVE  HookInv'
<1> USE TargetsAssumption, EventsAssumption, HookBounds
    DEF Prepare, stepVars, rowVars, worldVars
<1>1. /\ TypeOK /\ RowsOK /\ ObligationsOK
      /\ \A q \in Processes : ProcessOK(q)
    BY DEF HookInv, AttemptKeepsRow, ProcessOK
<1>2. TypeOK'
    BY <1>1 DEF TypeOK, Places
<1>3. /\ pc'[p] = "dispatch" /\ at'[p] = 0
      /\ \A q \in Processes \ {p} : SameThread(q)
    BY <1>1 DEF TypeOK, SameThread
<1>4. CASE prepared
    <2>1. \A t \in Targets : ~(t <= 0)
        BY <1>1, Typing
    <2>2. AttemptOK(p)' /\ ProgressOK(p)'
        BY <1>1, <1>3, <1>4, <2>1
        DEF AttemptOK, ProgressOK, Passed, FirstDelivered, Attempting, TypeOK
    <2> QED
        BY <1>2, <1>3, <1>4, <2>2, ThreadMoves DEF Attempting
<1>5. CASE ~prepared
    <2>1. frozen = {} /\ \A t \in Targets : generation[t] = 0 /\ status[t] = "none"
        <3>1. frozen = {} /\ \A t \in Targets : generation[t] \in Nat /\ ~(generation[t] > 0)
            <4>1. frozen = {}
                BY <1>1, <1>5, Zenon DEF RowsOK
            <4>2. \A t \in Targets : generation[t] > 0 => t \in frozen
                BY <1>1, Zenon DEF RowsOK
            <4> QED
                BY <1>1, <4>1, <4>2, Typing
        <3>2. \A t \in Targets : status[t] = "none" <=> generation[t] = 0
            BY <1>1, Zenon DEF RowsOK
        <3> QED
            BY <3>1, <3>2
    <2>2. \A q \in Processes : at[q] = 0 /\ pc[q] \notin {"dispatch", "mark"} \cup Attempting
        BY <1>1, <1>5 DEF ProcessOK, ProgressOK
    <2>3. RowsOK' /\ ObligationsOK'
        BY <1>1, <1>5, <2>1 DEF RowsOK, ObligationsOK
    <2>4. ASSUME NEW q \in Processes PROVE at'[q] = 0 /\ pc'[q] \notin {"mark"} \cup Attempting
        BY <1>3, <2>2 DEF SameThread, Attempting
    <2>5. \A t \in Targets : ~(t <= 0)
        BY <1>1, Typing
    <2>6. ASSUME NEW q \in Processes PROVE ProcessOK(q)'
        BY <1>2, <2>4, <2>5
        DEF ProcessOK, AttemptOK, ProgressOK, KeepsRow, Passed, Attempting, TypeOK
    <2> QED
        BY <1>2, <1>3, <2>3, <2>4, <2>6, OneProcess
<1> QED BY <1>4, <1>5

(* Steps of nobody in particular.                                             *)
LEMMA FenceOK ==
    ASSUME HookInv, Fence
    PROVE  HookInv'
<1>1. PICK t \in Targets : /\ generation[t] > 0 /\ <<t, generation[t]>> \notin effects
                           /\ fences' = fences \cup {<<t, generation[t]>>}
    BY DEF Fence
<1>2. TypeOK'
    BY <1>1, Typing
    DEF HookInv, TypeOK, Fence, Deliveries, stepVars, eventVars, rowVars, threadVars
<1>3. RowsOK'
    BY <1>1, Typing DEF HookInv, RowsOK, Fence, stepVars, eventVars, rowVars, threadVars
<1> QED
    BY <1>2, <1>3
    DEF HookInv, Fence, AttemptKeepsRow, DistinctAttempts, KeepsRow, ObligationsOK, AttemptOK,
        ProgressOK, Passed, FirstDelivered, Attempt, stepVars, eventVars, rowVars, threadVars

LEMMA StatusOK ==
    ASSUME HookInv, CancelPlan \/ RebuildIndex \/ Sweep
    PROVE  HookInv'
<1>1. /\ UNCHANGED <<stepStatus, prepared, frozen, rowVars, pc, at, held, bad, result, worldVars>>
      /\ planStatus' \in {planStatus, "cancelled"} /\ registered' \subseteq Targets
      /\ owner' \in {owner, NoOne}
    BY DEF HookInv, TypeOK, CancelPlan, RebuildIndex, Sweep, stepVars, eventVars, threadVars
<1>2. TypeOK'
    BY <1>1 DEF HookInv, TypeOK, rowVars, worldVars
<1> QED
    BY <1>1, <1>2
    DEF HookInv, RowsOK, AttemptKeepsRow, DistinctAttempts, KeepsRow, ObligationsOK, AttemptOK,
        ProgressOK, Passed, FirstDelivered, Attempt, rowVars, worldVars

(* Every process starts anew.                                                 *)
LEMMA RestartOK ==
    ASSUME HookInv, Crash \/ \E p \in Processes : Recover(p)
    PROVE  HookInv'
<1>1. /\ UNCHANGED <<stepStatus, eventVars, rowVars, effects, fences>>
      /\ \A p \in Processes : pc'[p] \in {"idle", "prepare"} /\ at'[p] = 0
    BY DEF Crash, Recover, Threads, stepVars, worldVars
<1>2. TypeOK'
    <2>1. /\ pc' \in [Processes -> Places] /\ at' \in [Processes -> Targets \cup {0}]
          /\ held' \in [Processes -> 0..MaxGeneration] /\ bad' \in [Processes -> BOOLEAN]
          /\ result' \in [Processes -> Outcomes]
        <3>1. ASSUME NEW first, Threads(first)
              PROVE  /\ pc' \in [Processes -> Places] /\ at' \in [Processes -> Targets \cup {0}]
                     /\ held' \in [Processes -> 0..MaxGeneration] /\ bad' \in [Processes -> BOOLEAN]
                     /\ result' \in [Processes -> Outcomes]
            <4>1. pc' \in [Processes -> Places] /\ result' \in [Processes -> Outcomes]
                BY <3>1 DEF Threads, Places, Outcomes
            <4>2. at' \in [Processes -> Targets \cup {0}] /\ bad' \in [Processes -> BOOLEAN]
                BY <3>1 DEF Threads
            <4>3. held' \in [Processes -> 0..MaxGeneration]
                BY <3>1, HookBounds DEF Threads
            <4> QED
                BY <4>1, <4>2, <4>3
        <3> QED
            BY <3>1 DEF Crash, Recover
    <2>2. UNCHANGED <<stepVars, eventVars, rowVars, effects, fences>>
        BY DEF Crash, Recover, worldVars
    <2>3. crashes' \in 0..CrashLimit /\ owner' \in Processes \cup {NoOne}
        BY HookBounds DEF HookInv, TypeOK, Crash, Recover, worldVars
    <2> QED
        BY <2>1, <2>2, <2>3 DEF HookInv, TypeOK, stepVars, eventVars, rowVars
<1>3. ASSUME NEW p \in Processes PROVE AttemptOK(p)' /\ ProgressOK(p)' /\ KeepsRow(p)'
    BY <1>1, TargetsAssumption, EventsAssumption
    DEF AttemptOK, ProgressOK, KeepsRow, Passed, Attempting
<1>4. DistinctAttempts'
    BY <1>1 DEF DistinctAttempts, Attempting
<1>5. RowsOK' /\ ObligationsOK'
    BY <1>1 DEF HookInv, RowsOK, ObligationsOK, FirstDelivered, eventVars, rowVars
<1> QED
    BY <1>2, <1>3, <1>4, <1>5 DEF HookInv, AttemptKeepsRow

(* HookInv is inductive.                                                      *)
LEMMA NextOK == HookInv /\ [Next]_vars => HookInv'
<1> SUFFICES ASSUME HookInv, [Next]_vars PROVE HookInv'
    OBVIOUS
<1>1. ASSUME NEW p \in Processes, Complete(p) PROVE HookInv'
    BY <1>1, PrepareOK, ClaimOK, ReadReceiptOK, ClaimRefusedOK, DispatchEndsOK, NotInvokedOK,
       InvokeOK,
       AppliesOK, HandlerFailsOK, HandlerReturnsOK, WriteReceiptOK, ReceiptLostOK, MarkDoneOK,
       FailCompletionOK DEF Complete
<1>2. ASSUME NEW p \in Processes, Reconcile(p) PROVE HookInv'
    BY <1>2, AppliedOK, FencedOK, CompletionOK, SettleOK, ReopenOK DEF Reconcile
<1> QED
    BY <1>1, <1>2, StutterOK, FenceOK, StatusOK, RestartOK DEF Next

THEOREM HookInvariant == Spec => []HookInv
BY InitOK, NextOK, PTL DEF Spec

(* No hook takes effect twice (claim, _apply).                                *)
THEOREM AppliedOnceHolds == Spec => []AppliedOnce
<1>1. HookInv => AppliedOnce
    <2> SUFFICES ASSUME HookInv, NEW a \in effects, NEW b \in effects, a[1] = b[1] PROVE a = b
        BY DEF AppliedOnce
    <2>1. PICK t \in Targets, g \in 1..MaxGeneration : a = <<t, g>>
        BY DEF HookInv, TypeOK, Deliveries
    <2>2. PICK h \in 1..MaxGeneration : b = <<t, h>>
        BY <2>1 DEF HookInv, TypeOK, Deliveries
    <2>3. ~(g < generation[t]) /\ g <= generation[t] /\ ~(h < generation[t]) /\ h <= generation[t]
        BY <2>1, <2>2 DEF HookInv, RowsOK
    <2> QED
        BY <2>1, <2>2, <2>3, HookBounds, Typing DEF HookInv
<1> QED BY <1>1, HookInvariant, PTL

(* An attempt never finds another's receipt in its place (finish).            *)
THEOREM AttemptKeepsRowHolds == Spec => []AttemptKeepsRow
<1>1. HookInv => AttemptKeepsRow
    BY DEF HookInv
<1> QED BY <1>1, HookInvariant, PTL

(* A step is done only when its required hooks took effect (complete_step).   *)
THEOREM DoneMeansDeliveredHolds == Spec => []DoneMeansDelivered
<1>1. HookInv => DoneMeansDelivered
    BY DEF HookInv, ObligationsOK, RowsOK, TypeOK, DoneMeansDelivered
<1> QED BY <1>1, HookInvariant, PTL

(* The second event waits for the first (complete_step).                      *)
THEOREM EventsInOrderHolds == Spec => []EventsInOrder
<1>1. HookInv => EventsInOrder
    BY DEF HookInv, ObligationsOK, FirstDelivered, RowsOK, TypeOK, EventsInOrder
<1> QED BY <1>1, HookInvariant, PTL

-----------------------------------------------------------------------------
(* The promise: a step that changes nothing the promise speaks of stutters.   *)
SameSuccess == \A t \in Targets : status'[t] = "succeeded" <=> status[t] = "succeeded"

LEMMA Quiet ==
    ASSUME UNCHANGED <<prepared, frozen, effects>>, SameSuccess,
           (stepStatus' = "done") <=> (stepStatus = "done")
    PROVE  UNCHANGED Promise!vars
BY DEF Promise!vars, SameSuccess

Delivered(t) == {g \in 1..MaxGeneration : <<t, g>> \in effects}

LEMMA DeliverStep ==
    ASSUME HookInv, NEW p \in Processes, HandlerApplies(p)
    PROVE  [Promise!Next]_(Promise!vars)
<1>0. PICK t \in Targets, g \in 1..MaxGeneration : t = at[p] /\ g = held[p]
    BY HookBounds, Typing DEF HookInv, HandlerApplies, AttemptOK, Attempting
<1>1. /\ TypeOK /\ RowsOK /\ AttemptOK(p) /\ pc[p] \in Attempting
      /\ <<t, g>> \notin fences /\ effects' = effects \cup {<<t, g>>}
      /\ UNCHANGED <<prepared, frozen, status, stepStatus>>
    BY <1>0 DEF HookInv, HandlerApplies, Attempt, Attempting, stepVars, eventVars, rowVars
<1>2. /\ t \in frozen /\ g <= generation[t]
      /\ generation[t] \in 0..MaxGeneration
    BY <1>0, <1>1, Typing DEF AttemptOK
<1>3. CASE <<t, g>> \in effects
    BY <1>1, <1>3, Quiet DEF SameSuccess
<1>4. CASE <<t, g>> \notin effects
    <2>1. ASSUME NEW h \in 1..MaxGeneration, <<t, h>> \in effects PROVE FALSE
        <3>1. h <= generation[t] /\ ~(h < generation[t]) /\ ~(g < generation[t])
            BY <1>1, <1>2, <2>1 DEF RowsOK
        <3> QED
            BY <1>2, <1>4, <2>1, <3>1
    <2>2. Delivered(t) = {}
        BY <2>1 DEF Delivered
    <2>3. \A u \in Targets \ {t} : Delivered(u)' = Delivered(u)
        BY <1>1 DEF Delivered
    <2>4. Delivered(t)' = {g}
        BY <1>1, <1>2, <2>1 DEF Delivered
    <2>5. [u \in Targets |-> Delivered(u)]'
                = [[u \in Targets |-> Delivered(u)] EXCEPT ![t] = {g}]
        BY <2>3, <2>4
    <2>6. t \in frozen /\ UNCHANGED <<prepared, frozen, status, stepStatus>>
        BY <1>1, <1>2
    <2>7. Promise!Deliver(t)
        BY <2>2, <2>5, <2>6 DEF Promise!Deliver, Delivered
    <2> QED
        BY <1>2, <2>7 DEF Promise!Next
<1> QED BY <1>3, <1>4

LEMMA AcknowledgeStep ==
    ASSUME HookInv, NEW t \in Targets, NEW g \in 1..MaxGeneration, <<t, g>> \in effects,
           status' = [status EXCEPT ![t] = "succeeded"],
           UNCHANGED <<prepared, frozen, effects, stepStatus>>
    PROVE  Promise!Next
<1>1. /\ status'[t] = "succeeded"
      /\ \A u \in Targets \ {t} : status'[u] = status[u]
    BY DEF HookInv, TypeOK
<1>2. Promise!Acknowledge(t)
    BY <1>1 DEF Promise!Acknowledge
<1> QED BY <1>2 DEF Promise!Next

LEMMA PromiseStep ==
    ASSUME HookInv, HookInv', [Next]_vars
    PROVE  [Promise!Next]_(Promise!vars)
<1> USE DEF stepVars, eventVars, rowVars, worldVars
<1>0. TypeOK /\ RowsOK /\ ObligationsOK /\ TypeOK'
    BY DEF HookInv
<1>1. ASSUME NEW p \in Processes, Complete(p) PROVE [Promise!Next]_(Promise!vars)
    <2>1. CASE Prepare(p)
        <3>1. CASE prepared
            BY <2>1, <3>1, Quiet DEF Prepare, SameSuccess
        <3>2. CASE ~prepared
            <4>1. Promise!Bind
                BY <1>0, <2>1, <3>2 DEF Prepare, Promise!Bind, TypeOK
            <4> QED BY <4>1 DEF Promise!Next
        <3> QED BY <3>1, <3>2
    <2>2. ASSUME NEW t \in Targets, Claim(p, t) PROVE UNCHANGED Promise!vars
        <3>1. status[t] # "succeeded"
            BY <1>0, <2>2, Typing DEF Claim, Claimable, RowsOK
        <3>2. SameSuccess
            BY <1>0, <2>2, <3>1 DEF Claim, SameSuccess, TypeOK
        <3> QED BY <2>2, <3>2, Quiet DEF Claim
    <2>3. ASSUME NEW t \in Targets, ReadReceipt(p, t) PROVE UNCHANGED Promise!vars
        BY <2>3, Quiet DEF ReadReceipt, SameSuccess
    <2>4. CASE \/ ClaimRefused(p) \/ DispatchEnds(p) \/ NotInvoked(p) \/ Invoke(p)
               \/ HandlerFails(p) \/ HandlerReturns(p) \/ ReceiptLost(p)
        BY <2>4, Quiet
        DEF ClaimRefused, DispatchEnds, NotInvoked, Invoke, HandlerFails, HandlerReturns,
            ReceiptLost, SameSuccess
    <2>5. CASE WriteReceipt(p)
        <3>1. /\ at[p] \in Targets /\ held[p] \in 1..MaxGeneration /\ status[at[p]] = "started"
              /\ result[p] = "succeeded" => <<at[p], held[p]>> \in effects
            BY <1>0, <2>5, Typing, HookBounds
            DEF HookInv, WriteReceipt, Owned, AttemptOK, Attempting, Attempt
        <3>2. CASE result[p] = "succeeded"
            BY <2>5, <3>1, <3>2, AcknowledgeStep DEF WriteReceipt
        <3>3. CASE result[p] # "succeeded"
            <4>1. SameSuccess
                BY <1>0, <2>5, <3>1, <3>3 DEF WriteReceipt, SameSuccess, TypeOK
            <4> QED BY <2>5, <4>1, Quiet DEF WriteReceipt
        <3> QED BY <3>2, <3>3
    <2>6. CASE MarkDone(p)
        <3>1. prepared /\ \A t \in frozen \cap Required : status[t] = "succeeded"
            BY <2>6 DEF HookInv, MarkDone, ProgressOK, Passed
        <3>2. Promise!Finish
            BY <1>0, <2>6, <3>1 DEF MarkDone, Promise!Finish, TypeOK
        <3> QED BY <3>2 DEF Promise!Next
    <2>7. CASE FailCompletion(p)
        <3>1. Promise!Withdraw
            BY <2>7 DEF FailCompletion, Promise!Withdraw
        <3> QED BY <3>1 DEF Promise!Next
    <2> QED
        BY <1>1, <2>1, <2>2, <2>3, <2>4, <2>5, <2>6, <2>7, DeliverStep DEF Complete
<1>2. ASSUME NEW p \in Processes, Reconcile(p) PROVE [Promise!Next]_(Promise!vars)
    <2>1. ASSUME NEW t \in Targets, ResolveApplied(p, t) PROVE Promise!Next
        <3>1. generation[t] \in 1..MaxGeneration
            BY <1>0, <2>1 DEF ResolveApplied, TypeOK, Deliveries
        <3> QED BY <2>1, <3>1, AcknowledgeStep DEF ResolveApplied
    <2>2. ASSUME NEW t \in Targets, ResolveFenced(p, t) PROVE UNCHANGED Promise!vars
        BY <2>2, Quiet DEF ResolveFenced, SameSuccess
    <2>3. CASE ResolveCompletion(p) \/ Settle(p) \/ Reopen(p)
        BY <2>3, Quiet DEF ResolveCompletion, Settle, Reopen, End, Goto, SameSuccess
    <2> QED
        BY <1>2, <2>1, <2>2, <2>3 DEF Reconcile
<1>3. CASE \/ CancelPlan \/ RebuildIndex \/ Sweep \/ Crash \/ Fence \/ UNCHANGED vars
           \/ \E p \in Processes : Recover(p)
    BY <1>3, Quiet DEF CancelPlan, RebuildIndex, Sweep, Crash, Fence, Recover, vars, SameSuccess
<1> QED
    BY <1>1, <1>2, <1>3 DEF Next

(* The ledger, its dispatchers and its reconcilers keep the promise.          *)
THEOREM PromiseKept == Spec => ImplementsPromise
<1>1. Init => Promise!Init
    BY DEF Init, Promise!Init
<1>2. HookInv /\ HookInv' /\ [Next]_vars => [Promise!Next]_(Promise!vars)
    BY PromiseStep
<1> QED
    BY <1>1, <1>2, HookInvariant, PTL DEF Spec, ImplementsPromise, Promise!Spec
=============================================================================
