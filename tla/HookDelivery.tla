---------------------------- MODULE HookDelivery ----------------------------
(* Completion hooks of one step: the ledger of obligations and deliveries     *)
(* (marvis/repositories/hook_deliveries.py), the durable dispatch of          *)
(* marvis/plugins/hooks.py, and the reconciliation of an uncertain delivery   *)
(* (marvis/orchestrator/reconciliation.py).  Several processes may complete   *)
(* the same step: the executor, startup recovery, and a reconciler that holds *)
(* the task's job after a hung process was swept.                             *)
EXTENDS Naturals

CONSTANTS
    Processes,      \* threads that complete the step
    Targets,        \* hook targets, numbered in the order of dispatch
    Required,       \* targets whose failure keeps the step from completing
    SecondEvent,    \* targets of step.completed; the others: feature.computed
    MaxGeneration,  \* bound: attempts authorized per target
    CrashLimit,     \* bound: crashes of the server process
    NoOne           \* nobody holds the task's job

ASSUME TargetsAssumption == Targets \subseteq Nat \ {0} /\ Required \subseteq Targets
ASSUME EventsAssumption ==
    /\ SecondEvent \subseteq Targets
    /\ \A t \in SecondEvent, u \in Targets \ SecondEvent : u < t
ASSUME HookBounds == MaxGeneration \in Nat \ {0} /\ CrashLimit \in Nat /\ NoOne \notin Processes

VARIABLES
    planStatus,   \* plans.status
    stepStatus,   \* plan_steps.status
    prepared,     \* both rows of hook_events exist
    frozen,       \* their targets_json
    registered,   \* listeners and plugins that the running server has
    status,       \* hook_deliveries.status, none without a row
    generation,   \* hook_deliveries.generation, 0 without a row
    authorized,   \* hook_deliveries.retry_authorization_id
    owner,        \* the process that holds the task's job
    pc, at, held, bad, result, \* of a process: where it is, target, generation, failures, outcome
    effects,      \* (world) <<target, generation>> that took effect at the producer
    fences,       \* (world) <<target, generation>> the producer will refuse from now on
    crashes

stepVars   == <<planStatus, stepStatus>>
eventVars  == <<prepared, frozen, registered>>
rowVars    == <<status, generation, authorized>>
threadVars == <<owner, pc, at, held, bad, result>>
worldVars  == <<effects, fences, crashes>>
vars == <<stepVars, eventVars, rowVars, threadVars, worldVars>>

Deliveries == Targets \X (1..MaxGeneration)
Outcomes == {"succeeded", "failed", "unknown"}
Attempting == {"invoke", "handler", "applied", "finish"}
Places == {"idle", "prepare", "dispatch", "mark", "fail", "settle", "reopen"} \cup Attempting

TypeOK ==
    /\ planStatus \in {"running", "failed", "cancelled"}
    /\ stepStatus \in {"checking", "failed", "done"}
    /\ prepared \in BOOLEAN /\ frozen \subseteq Targets /\ registered \subseteq Targets
    /\ status \in [Targets -> {"none", "started"} \cup Outcomes]
    /\ generation \in [Targets -> 0..MaxGeneration]
    /\ authorized \subseteq Targets
    /\ owner \in Processes \cup {NoOne}
    /\ pc \in [Processes -> Places]
    /\ at \in [Processes -> Targets \cup {0}]
    /\ held \in [Processes -> 0..MaxGeneration]
    /\ bad \in [Processes -> BOOLEAN]
    /\ result \in [Processes -> Outcomes]
    /\ effects \subseteq Deliveries /\ fences \subseteq Deliveries
    /\ crashes \in 0..CrashLimit

(* The executor has bound the step's output and calls complete_step.          *)
Init ==
    /\ planStatus = "running" /\ stepStatus = "checking"
    /\ prepared = FALSE /\ frozen = {} /\ registered = Targets
    /\ status = [t \in Targets |-> "none"]
    /\ generation = [t \in Targets |-> 0]
    /\ authorized = {}
    /\ owner \in Processes
    /\ pc = [p \in Processes |-> IF p = owner THEN "prepare" ELSE "idle"]
    /\ at = [p \in Processes |-> 0]
    /\ held = [p \in Processes |-> 0]
    /\ bad = [p \in Processes |-> FALSE]
    /\ result = [p \in Processes |-> "unknown"]
    /\ effects = {} /\ fences = {} /\ crashes = 0

(* Nothing is in memory but what process first is about to do.                *)
Threads(first) ==
    /\ pc' = [p \in Processes |-> IF p = first THEN "prepare" ELSE "idle"]
    /\ at' = [p \in Processes |-> 0]
    /\ held' = [p \in Processes |-> 0]
    /\ bad' = [p \in Processes |-> FALSE]
    /\ result' = [p \in Processes |-> "unknown"]

Goto(p, place) == pc' = [pc EXCEPT ![p] = place] /\ UNCHANGED <<owner, at, held, bad, result>>
(* The process gives the job back, if it still holds it, and ends.            *)
End(p) ==
    /\ pc' = [pc EXCEPT ![p] = "idle"]
    /\ owner' = IF owner = p THEN NoOne ELSE owner
    /\ at' = [at EXCEPT ![p] = 0] /\ bad' = [bad EXCEPT ![p] = FALSE]
    /\ UNCHANGED <<held, result>>
(* The target is dealt with; a required one that did not succeed is noted.    *)
Recorded(p, t, ok) ==
    /\ pc' = [pc EXCEPT ![p] = "dispatch"]
    /\ at' = [at EXCEPT ![p] = t]
    /\ bad' = [bad EXCEPT ![p] = @ \/ (t \in Required /\ ~ok)]
    /\ held' = [held EXCEPT ![p] = 0] /\ result' = [result EXCEPT ![p] = "unknown"]
    /\ UNCHANGED owner

-----------------------------------------------------------------------------
(* Mutation: a later preparation replaces the targets frozen before.          *)
PrepareAgain(p) ==
    /\ pc[p] = "prepare"
    /\ prepared' = TRUE /\ frozen' = registered
    /\ pc' = [pc EXCEPT ![p] = "dispatch"]
    /\ at' = [at EXCEPT ![p] = 0] /\ bad' = [bad EXCEPT ![p] = FALSE]
    /\ UNCHANGED <<registered, owner, held, result>>
    /\ UNCHANGED <<stepVars, rowVars, worldVars>>

(* prepare_events: the obligations of both events are frozen by whoever comes *)
(* first, from the hooks registered then.                                     *)
Prepare(p) ==
    /\ pc[p] = "prepare"
    /\ prepared' = TRUE
    /\ frozen' = IF prepared THEN frozen ELSE registered
    /\ pc' = [pc EXCEPT ![p] = "dispatch"]
    /\ at' = [at EXCEPT ![p] = 0] /\ bad' = [bad EXCEPT ![p] = FALSE]
    /\ UNCHANGED <<registered, owner, held, result>>
    /\ UNCHANGED <<stepVars, rowVars, worldVars>>

Remaining(p) == {t \in frozen : t > at[p]}

(* The next target; a failed event is not followed by the other one.          *)
EventFailed(p) == bad[p] /\ at[p] \notin SecondEvent /\ Remaining(p) \subseteq SecondEvent
NextTarget(p, t) ==
    /\ t \in Remaining(p) /\ \A u \in Remaining(p) : t <= u
    /\ ~EventFailed(p)

(* Mutation: a row left started is claimed again.                             *)
ClaimableStarted(t) ==
    /\ status[t] \in {"none", "started"} \/ t \in authorized
    /\ generation[t] < MaxGeneration

(* claim: no row yet, or a retry that reconciliation authorized for exactly   *)
(* this generation.  The last conjunct is the bound.                          *)
Claimable(t) ==
    /\ status[t] = "none" \/ t \in authorized
    /\ generation[t] < MaxGeneration

Claim(p, t) ==
    /\ pc[p] = "dispatch" /\ NextTarget(p, t)
    /\ planStatus # "cancelled"
    /\ Claimable(t)
    /\ status' = [status EXCEPT ![t] = "started"]
    /\ generation' = [generation EXCEPT ![t] = @ + 1]
    /\ authorized' = authorized \ {t}
    /\ pc' = [pc EXCEPT ![p] = "invoke"]
    /\ at' = [at EXCEPT ![p] = t]
    /\ held' = [held EXCEPT ![p] = generation[t] + 1]
    /\ UNCHANGED <<owner, bad, result, stepVars, eventVars, worldVars>>

(* Mutation: any receipt of an earlier attempt counts.                        *)
ReadReceiptUnchecked(p, t) ==
    /\ pc[p] = "dispatch" /\ NextTarget(p, t)
    /\ planStatus # "cancelled"
    /\ status[t] # "none" /\ t \notin authorized
    /\ Recorded(p, t, TRUE)
    /\ UNCHANGED <<stepVars, eventVars, rowVars, worldVars>>

(* Not claimed: the receipt of the earlier attempt is the result, and without *)
(* one the outcome is unknown.                                                *)
ReadReceipt(p, t) ==
    /\ pc[p] = "dispatch" /\ NextTarget(p, t)
    /\ planStatus # "cancelled"
    /\ status[t] # "none" /\ t \notin authorized
    /\ Recorded(p, t, status[t] = "succeeded")
    /\ UNCHANGED <<stepVars, eventVars, rowVars, worldVars>>

(* A cancelled plan claims nothing, and the dispatch raises.                  *)
ClaimRefused(p) ==
    /\ pc[p] = "dispatch" /\ planStatus = "cancelled"
    /\ \E t \in frozen : NextTarget(p, t)
    /\ Goto(p, "fail")
    /\ UNCHANGED <<stepVars, eventVars, rowVars, worldVars>>

(* Every target is dealt with, or an event failed.                            *)
DispatchEnds(p) ==
    /\ pc[p] = "dispatch"
    /\ Remaining(p) = {} \/ EventFailed(p)
    /\ Goto(p, IF bad[p] THEN "fail" ELSE "mark")
    /\ UNCHANGED <<stepVars, eventVars, rowVars, worldVars>>

-----------------------------------------------------------------------------
(* The handler is not called: its frozen binding is gone, or the audit record *)
(* of the start cannot be written.                                            *)
NotInvoked(p) ==
    /\ pc[p] = "invoke"
    /\ pc' = [pc EXCEPT ![p] = "finish"]
    /\ result' = [result EXCEPT ![p] = IF at[p] \in registered THEN "unknown" ELSE "failed"]
    /\ UNCHANGED <<owner, at, held, bad, stepVars, eventVars, rowVars, worldVars>>

Invoke(p) ==
    /\ pc[p] = "invoke" /\ at[p] \in registered
    /\ Goto(p, "handler")
    /\ UNCHANGED <<stepVars, eventVars, rowVars, worldVars>>

Attempt(p) == <<at[p], held[p]>>

(* The handler hands target, generation and binding to its producer, which    *)
(* refuses a generation it has fenced.                                        *)
HandlerApplies(p) ==
    /\ pc[p] = "handler" /\ Attempt(p) \notin fences
    /\ effects' = effects \cup {Attempt(p)}
    /\ Goto(p, "applied")
    /\ UNCHANGED <<fences, crashes, stepVars, eventVars, rowVars>>

(* The handler raises or reports an error, before or after its effect, or the *)
(* audit of its end fails.                                                    *)
HandlerFails(p) ==
    /\ pc[p] \in {"handler", "applied"}
    /\ \E r \in {"failed", "unknown"} : result' = [result EXCEPT ![p] = r]
    /\ pc' = [pc EXCEPT ![p] = "finish"]
    /\ UNCHANGED <<owner, at, held, bad, stepVars, eventVars, rowVars, worldVars>>

HandlerReturns(p) ==
    /\ pc[p] = "applied"
    /\ result' = [result EXCEPT ![p] = "succeeded"]
    /\ pc' = [pc EXCEPT ![p] = "finish"]
    /\ UNCHANGED <<owner, at, held, bad, stepVars, eventVars, rowVars, worldVars>>

(* finish: only the attempt that still owns the row.                          *)
Owned(p) == status[at[p]] = "started" /\ generation[at[p]] = held[p]

WriteReceipt(p) ==
    /\ pc[p] = "finish" /\ Owned(p)
    /\ status' = [status EXCEPT ![at[p]] = result[p]]
    /\ Recorded(p, at[p], result[p] = "succeeded")
    /\ UNCHANGED <<generation, authorized, stepVars, eventVars, worldVars>>

(* The row is no longer owned, or the write fails: the result is unknown.     *)
ReceiptLost(p) ==
    /\ pc[p] = "finish"
    /\ Recorded(p, at[p], FALSE)
    /\ UNCHANGED <<stepVars, eventVars, rowVars, worldVars>>

-----------------------------------------------------------------------------
(* The step is written without a look at what another process wrote.          *)
MarkDone(p) ==
    /\ pc[p] = "mark"
    /\ stepStatus' = "done"
    /\ End(p)
    /\ UNCHANGED <<planStatus, eventVars, rowVars, worldVars>>

FailCompletion(p) ==
    /\ pc[p] = "fail"
    /\ stepStatus' = "failed"
    /\ planStatus' = IF planStatus = "cancelled" THEN "cancelled" ELSE "failed"
    /\ End(p)
    /\ UNCHANGED <<eventVars, rowVars, worldVars>>

CancelPlan ==
    /\ planStatus = "running" /\ planStatus' = "cancelled"
    /\ UNCHANGED <<stepStatus, eventVars, rowVars, threadVars, worldVars>>

(* Installing, disabling or removing a plugin rebuilds the index.             *)
RebuildIndex ==
    /\ \E R \in SUBSET Targets : registered' = R
    /\ UNCHANGED <<prepared, frozen, stepVars, rowVars, threadVars, worldVars>>

(* The watchdog closes the job of a process that hangs and goes on later.     *)
Sweep ==
    /\ owner # NoOne /\ owner' = NoOne
    /\ UNCHANGED <<pc, at, held, bad, result, stepVars, eventVars, rowVars, worldVars>>

Crash ==
    /\ crashes < CrashLimit /\ crashes' = crashes + 1
    /\ Threads(NoOne) /\ owner' = NoOne
    /\ UNCHANGED <<effects, fences, stepVars, eventVars, rowVars>>

(* After a crash, startup completes a checking step of a running plan before  *)
(* any request is served.                                                     *)
Restarting ==
    /\ crashes > 0 /\ \A p \in Processes : pc[p] = "idle"
    /\ planStatus = "running" /\ stepStatus = "checking"

Recover(p) ==
    /\ Restarting
    /\ owner' = p /\ Threads(p)
    /\ UNCHANGED <<stepVars, eventVars, rowVars, worldVars>>

-----------------------------------------------------------------------------
(* ExecutionReconciler.                                                       *)
(* External: the producer decides that an attempt that has not taken effect   *)
(* never will.                                                                *)
Fence ==
    /\ \E t \in Targets : /\ generation[t] > 0
                          /\ <<t, generation[t]>> \notin effects
                          /\ fences' = fences \cup {<<t, generation[t]>>}
    /\ UNCHANGED <<effects, crashes, stepVars, eventVars, rowVars, threadVars>>

(* _hook_targets: required and not succeeded.                                 *)
Pending(t) == prepared /\ t \in frozen \cap Required /\ status[t] # "succeeded"
Reconciling(p) ==
    /\ pc[p] = "idle" /\ owner = NoOne /\ ~Restarting
    /\ stepStatus \in {"checking", "failed"}

(* The producer's receipt proves the effect of the row's own generation.      *)
ResolveApplied(p, t) ==
    /\ Reconciling(p) /\ Pending(t)
    /\ <<t, generation[t]>> \in effects
    /\ status' = [status EXCEPT ![t] = "succeeded"]
    /\ owner' = p /\ pc' = [pc EXCEPT ![p] = "settle"]
    /\ UNCHANGED <<generation, authorized, at, held, bad, result>>
    /\ UNCHANGED <<stepVars, eventVars, worldVars>>

(* Mutation: the absence of an effect is taken for a fence.                   *)
ResolveAbsent(p, t) ==
    /\ Reconciling(p) /\ Pending(t)
    /\ status[t] # "none" /\ <<t, generation[t]>> \notin effects
    /\ authorized' = authorized \cup {t}
    /\ owner' = p /\ pc' = [pc EXCEPT ![p] = "settle"]
    /\ UNCHANGED <<status, generation, at, held, bad, result>>
    /\ UNCHANGED <<stepVars, eventVars, worldVars>>

(* The receipt proves that it did not and cannot take effect any more.        *)
ResolveFenced(p, t) ==
    /\ Reconciling(p) /\ Pending(t)
    /\ <<t, generation[t]>> \in fences
    /\ authorized' = authorized \cup {t}
    /\ owner' = p /\ pc' = [pc EXCEPT ![p] = "settle"]
    /\ UNCHANGED <<status, generation, at, held, bad, result>>
    /\ UNCHANGED <<stepVars, eventVars, worldVars>>

(* Nothing uncertain about the target itself: it was never dispatched, or no  *)
(* required target is pending.                                                *)
ResolveCompletion(p) ==
    /\ Reconciling(p)
    /\ \/ \A t \in Targets : ~Pending(t)
       \/ \E t \in Targets : Pending(t) /\ status[t] = "none"
    /\ owner' = p /\ pc' = [pc EXCEPT ![p] = "settle"]
    /\ UNCHANGED <<at, held, bad, result, stepVars, eventVars, rowVars, worldVars>>

(* _finish_completion: every dispatched pending target has its authorization. *)
Settled == \A t \in Targets : Pending(t) => status[t] = "none" \/ t \in authorized

Settle(p) ==
    /\ pc[p] = "settle"
    /\ IF Settled THEN Goto(p, "reopen") ELSE End(p)
    /\ UNCHANGED <<stepVars, eventVars, rowVars, worldVars>>

(* The step and the plan are reopened, for a cancelled plan only when the     *)
(* user asked to resume its completion.                                       *)
Reopen(p) ==
    /\ pc[p] = "reopen"
    /\ \/ /\ planStatus' = "running"
          /\ stepStatus' = IF stepStatus = "failed" THEN "checking" ELSE stepStatus
          /\ IF stepStatus = "done" THEN End(p) ELSE Goto(p, "prepare")
       \/ /\ planStatus = "cancelled" /\ End(p) /\ UNCHANGED stepVars
    /\ UNCHANGED <<eventVars, rowVars, worldVars>>

-----------------------------------------------------------------------------
Complete(p) ==
    \/ Prepare(p) \/ ClaimRefused(p) \/ DispatchEnds(p)
    \/ \E t \in Targets : Claim(p, t) \/ ReadReceipt(p, t)
    \/ NotInvoked(p) \/ Invoke(p) \/ HandlerApplies(p) \/ HandlerFails(p) \/ HandlerReturns(p)
    \/ WriteReceipt(p) \/ ReceiptLost(p) \/ MarkDone(p) \/ FailCompletion(p)

Reconcile(p) ==
    \/ \E t \in Targets : ResolveApplied(p, t) \/ ResolveFenced(p, t)
    \/ ResolveCompletion(p) \/ Settle(p) \/ Reopen(p)

Next ==
    \/ \E p \in Processes : Complete(p) \/ Recover(p) \/ Reconcile(p)
    \/ CancelPlan \/ RebuildIndex \/ Sweep \/ Crash \/ Fence

Spec == Init /\ [][Next]_vars

-----------------------------------------------------------------------------
(* PROPERTIES.                                                                *)

(* The rows against the producer: a row exists for frozen targets only, every *)
(* generation before the current one is fenced, so is the current one when a  *)
(* retry is authorized, and a succeeded row tells of an effect.               *)
RowsOK ==
    /\ ~prepared => frozen = {}
    /\ effects \cap fences = {}
    /\ \A t \in Targets, g \in 1..MaxGeneration :
        /\ <<t, g>> \in effects \cup fences => g <= generation[t]
        /\ g < generation[t] => <<t, g>> \in fences
    /\ \A t \in Targets :
        /\ status[t] = "none" <=> generation[t] = 0
        /\ generation[t] > 0 => t \in frozen
        /\ t \in authorized => <<t, generation[t]>> \in fences
        /\ status[t] = "succeeded" => <<t, generation[t]>> \in effects

(* What a process in an attempt knows of its target.                          *)
AttemptOK(p) ==
    /\ pc[p] \in Attempting => at[p] \in frozen /\ held[p] \in 1..generation[at[p]]
    /\ pc[p] = "applied" => Attempt(p) \in effects
    /\ pc[p] = "finish" /\ result[p] = "succeeded" => Attempt(p) \in effects

(* The required targets a process has passed without a failure succeeded, and *)
(* so did those of the first event when the second one has begun.             *)
Passed(p) ==
    IF pc[p] = "mark" THEN frozen
    ELSE IF pc[p] = "dispatch" THEN {t \in frozen : t <= at[p]}
    ELSE IF pc[p] \in Attempting THEN {t \in frozen : t < at[p]} ELSE {}
FirstDelivered == \A t \in (frozen \cap Required) \ SecondEvent : status[t] = "succeeded"

ProgressOK(p) ==
    /\ pc[p] \in {"dispatch", "mark"} \cup Attempting \/ at[p] # 0 => prepared
    /\ ~bad[p] => \A t \in Passed(p) \cap Required : status[t] = "succeeded"
    /\ pc[p] = "mark" => ~bad[p]
    /\ at[p] \in SecondEvent => FirstDelivered

ObligationsOK ==
    /\ \A t \in SecondEvent : generation[t] > 0 => FirstDelivered
    /\ stepStatus = "done" =>
            prepared /\ \A t \in frozen \cap Required : status[t] = "succeeded"

(* Two processes never work on the same attempt, and an attempt whose         *)
(* generation is current finds its row as it claimed it or already resolved   *)
(* as applied: nobody else's receipt is in its place (claim, finish).         *)
KeepsRow(p) ==
    pc[p] \in Attempting /\ held[p] = generation[at[p]] => status[at[p]] \in {"started", "succeeded"}
DistinctAttempts ==
    \A p, q \in Processes :
        pc[p] \in Attempting /\ pc[q] \in Attempting /\ Attempt(p) = Attempt(q) => p = q
AttemptKeepsRow == DistinctAttempts /\ \A p \in Processes : KeepsRow(p)

(* The rows, the processes and the producer agree at every moment; inductive. *)
HookInv ==
    /\ TypeOK /\ RowsOK /\ AttemptKeepsRow /\ ObligationsOK
    /\ \A p \in Processes : AttemptOK(p) /\ ProgressOK(p)

(* A hook takes effect at most once over all attempts, crashes, hung          *)
(* processes and reconciliations: a new generation starts only when the one   *)
(* before can never take effect (claim, _apply).                              *)
AppliedOnce == \A a, b \in effects : a[1] = b[1] => a = b

(* A step is done only when every required hook of both its events took       *)
(* effect and has its receipt, whoever completed it and whatever is installed *)
(* by then (complete_step, prepare_events).                                   *)
DoneMeansDelivered ==
    stepStatus = "done" =>
        \A t \in frozen \cap Required :
            status[t] = "succeeded" /\ <<t, generation[t]>> \in effects

(* No hook of step.completed is dispatched before every required hook of      *)
(* feature.computed took effect (complete_step).                              *)
EventsInOrder ==
    \A t \in frozen \cap SecondEvent, u \in (frozen \cap Required) \ SecondEvent :
        generation[t] > 0 => <<u, generation[u]>> \in effects

(* What the hooks promise, whatever dispatches them.                          *)
Promise == INSTANCE AtMostOnceHooks WITH
    Attempts     <- 1..MaxGeneration,
    obligations  <- frozen,
    bound        <- prepared,
    delivered    <- [t \in Targets |-> {g \in 1..MaxGeneration : <<t, g>> \in effects}],
    acknowledged <- {t \in Targets : status[t] = "succeeded"},
    complete     <- stepStatus = "done"
ImplementsPromise == Promise!Spec
=============================================================================
