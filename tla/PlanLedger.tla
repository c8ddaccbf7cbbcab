----------------------------- MODULE PlanLedger -----------------------------
(* The durable state of one plan and the questions the repository answers     *)
(* about it (marvis/repositories/plans.py, hook_deliveries.py, the contract   *)
(* predicates of marvis/plugins/invocation.py).  The executor, the recovery   *)
(* pass and the commands of a user are in modules that extend this one.       *)
EXTENDS Naturals, FiniteSets

CONSTANTS
    Steps,        \* step numbers; the order is the idx column
    Deps,         \* depends_on of every step
    Contracted,   \* steps whose invocation freezes a valid contract (not sub-agents)
    ReadOnly,     \* steps whose contract lists only "read:" side effects
    Gated,        \* steps that need a human confirmation
    Skippable,    \* steps whose tool has failure_policy "skip"
    Hooked,       \* steps whose completion event has a required hook
    WorkflowHooked, \* TRUE: workflow.completed has a required hook
    NoOutput,     \* no output version is stored for a run
    MaxAttempts,  \* bound: runs started per step
    CrashLimit    \* bound: crashes of the server process

ASSUME StepsAssumption == Steps \subseteq Nat \ {0} /\ IsFiniteSet(Steps)
ASSUME DepsAssumption ==
    Deps \in [Steps -> SUBSET Steps] /\ \A s \in Steps : \A d \in Deps[s] : d < s
ASSUME KindAssumption ==
    /\ Contracted \subseteq Steps
    /\ ReadOnly \subseteq Contracted
    /\ Gated \subseteq Steps
    /\ Skippable \subseteq Steps
    /\ Hooked \subseteq Steps
    /\ WorkflowHooked \in BOOLEAN
    /\ \A s \in Steps : NoOutput \notin [Deps[s] -> Nat]
ASSUME BoundAssumption == MaxAttempts \in Nat \ {0} /\ CrashLimit \in Nat

VARIABLES
    planStatus,   \* plans.status
    wfEvent,      \* the workflow.completed obligation is frozen in hook_events
    wfVerdict,    \* the frozen workflow checkpoint: none, done or failed
    wfPending,    \* more hook_completion_failed events than resolved ones
    stepStatus,   \* plan_steps.status
    stepErr,      \* plan_steps.error: none, plain, or a reconciliation marker
    confirmed,    \* plan_steps.confirmed
    outRef,       \* plan_steps.output_ref: 0 or the attempt that stored the version
    attempts,     \* rows of plan_step_runs per step
    runStatus,    \* plan_step_runs.status
    dispatched,   \* runs with dispatch_started_at
    unknown,      \* runs with error_kind unknown_effect
    output,       \* parent versions in the evidence of a stored output
    verdict,      \* frozen step review of an attempt's output
    fenced,       \* runs reconciled as not_applied_fenced
    invoked,      \* (world) runs whose tool was called
    applied,      \* (world) runs whose tool did its work
    workers,      \* (world) runs whose worker may still be alive
    pc, cur, mode, note, \* the one process that holds the plan's job
    crashes       \* crashes so far

planVars  == <<planStatus, wfEvent, wfVerdict, wfPending>>
stepVars  == <<stepStatus, stepErr, confirmed, outRef>>
runVars   == <<attempts, runStatus, dispatched, unknown, output, verdict, fenced>>
worldVars == <<invoked, applied, workers>>
procVars  == <<pc, cur, mode, note>>
vars == <<planVars, stepVars, runVars, worldVars, procVars, crashes>>

PlanStatuses == {"validated", "confirmed", "running", "awaiting", "review",
                 "done", "failed", "cancelled"}
StepStatuses == {"pending", "awaiting", "running", "checking", "done",
                 "failed", "skipped"}
RunStatuses  == {"none", "running", "succeeded", "failed", "interrupted"}

OutputValues == (UNION {[Deps[s] -> 0..MaxAttempts] : s \in Steps}) \cup {NoOutput}
Runs       == Steps \X (1..MaxAttempts)
NoStep     == 0
Versions   == 0..MaxAttempts
Complete   == {"done", "skipped"}
InFlight   == {"running", "checking"}

Last(s)        == <<s, attempts[s]>>
HasRun(s)      == attempts[s] > 0
RunningRuns(s) == {r \in Runs : r[1] = s /\ runStatus[r] = "running"}
AllComplete    == \A s \in Steps : stepStatus[s] \in Complete

(* Mutation: the dispatch mark is not consulted.                              *)
RetrySafeUnmarked(r) == r[1] \in Contracted

(* retry_safe_run: a frozen contract, and never dispatched or only reading.   *)
RetrySafe(r) == r[1] \in Contracted /\ (r \notin dispatched \/ r[1] \in ReadOnly)

(* _unreconciled_step_ids for one step.                                       *)
UncertainRun(r) ==
    r \in unknown
    \/ (runStatus[r] \in {"failed", "interrupted", "running"} /\ ~RetrySafe(r))
Unreconciled(s) ==
    \/ /\ stepErr[s] = "reconcile" \/ (HasRun(s) /\ UncertainRun(Last(s)))
       /\ ~(HasRun(s) /\ Last(s) \in fenced)
    \/ wfPending

(* _exact_parent_result_bindings: the versions the parents hold now.          *)
ParentVersions(s) == [d \in Deps[s] |-> outRef[d]]

(* _load_step_result_binding: the version belongs to a succeeded run and was  *)
(* produced from the versions the parents still hold.                         *)
Authentic(s, v) ==
    /\ v # 0
    /\ runStatus[<<s, v>>] = "succeeded"
    /\ output[<<s, v>>] = ParentVersions(s)

(* The steps a reset of S invalidates: S and everything downstream of it.     *)
Closed(C)  == \A s \in Steps : Deps[s] \cap C # {} => s \in C
Closure(S) == {s \in Steps : \A C \in SUBSET Steps : (S \subseteq C /\ Closed(C)) => s \in C}

(* Mutation: only the plan's own completion is asserted.                      *)
ResettableUnasserted(C) == ~wfPending /\ \A s \in C : attempts[s] < MaxAttempts

(* _assert_no_unreconciled_step_effects; the second conjunct is the bound.    *)
Resettable(C) ==
    /\ \A s \in C : ~Unreconciled(s)
    /\ ~wfPending
    /\ \A s \in C : attempts[s] < MaxAttempts

(* Mutation: a reset keeps every confirmation.                                *)
ResetConfirmed(C, keep, revised) ==
    /\ stepStatus' = [s \in Steps |-> IF s \in C THEN "pending" ELSE stepStatus[s]]
    /\ stepErr' = [s \in Steps |-> IF s \in C THEN "none" ELSE stepErr[s]]
    /\ outRef' = [s \in Steps |-> IF s \in C THEN 0 ELSE outRef[s]]
    /\ UNCHANGED <<confirmed, attempts, runStatus, dispatched, unknown, output, verdict, fenced>>

(* One UPDATE per step of the closure: back to pending, result and review     *)
(* cleared, confirmations kept only for the steps of keep.  New inputs for    *)
(* the steps of revised unbind the reviews frozen for their old outputs.      *)
Reset(C, keep, revised) ==
    /\ stepStatus' = [s \in Steps |-> IF s \in C THEN "pending" ELSE stepStatus[s]]
    /\ stepErr' = [s \in Steps |-> IF s \in C THEN "none" ELSE stepErr[s]]
    /\ outRef' = [s \in Steps |-> IF s \in C THEN 0 ELSE outRef[s]]
    /\ confirmed' = confirmed \ (C \ keep)
    /\ verdict' = [r \in Runs |-> IF r[1] \in revised /\ verdict[r] # "none"
                                  THEN "rebound" ELSE verdict[r]]
    /\ UNCHANGED <<attempts, runStatus, dispatched, unknown, output, fenced>>

(* finish_step_run: only a running row is ever closed.                        *)
Close(r, status, effectUnknown) ==
    /\ runStatus[r] = "running"
    /\ runStatus' = [runStatus EXCEPT ![r] = status]
    /\ unknown' = IF effectUnknown THEN unknown \cup {r} ELSE unknown

(* The process moves to label l; everything else in memory is kept.           *)
Goto(l) == pc' = l /\ UNCHANGED <<cur, mode, note>>
GotoNote(l, n) == pc' = l /\ note' = n /\ UNCHANGED <<cur, mode>>
(* The job row is closed and the process forgets the plan.                    *)
Finish == pc' = "idle" /\ cur' = NoStep /\ mode' = "none" /\ note' = "none"

(* Where a step's completion or failure returns to.                           *)
Return ==
    /\ pc' = CASE mode = "run" -> "loop"
               [] mode = "reconcile" -> "settle"
               [] OTHER -> "recover"
    /\ cur' = IF mode = "reconcile" THEN cur ELSE NoStep
    /\ note' = "none" /\ UNCHANGED mode
=============================================================================
