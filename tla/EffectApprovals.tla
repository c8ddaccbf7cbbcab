--------------------------- MODULE EffectApprovals ---------------------------
(* The adoption of a strategy under a human approval: decisions, one-shot     *)
(* approvals, the ledger of effect executions and its reconciliation          *)
(* (marvis/governance/repository.py), the governed path of the tool runner    *)
(* (marvis/plugins/runner.py) and the adoption that a worker commits          *)
(* (marvis/repositories/strategy.py).  One governed step and one frozen       *)
(* binding; the job of the task keeps to one executor.                        *)
EXTENDS Naturals

CONSTANTS
    Sessions,       \* local principals
    MaxDecisions,   \* bound: decisions about the step
    MaxRuns,        \* bound: runs of the step
    CrashLimit,     \* bound: crashes of the server process
    Nobody          \* no principal

ASSUME ApprovalBounds ==
    /\ MaxDecisions \in Nat \ {0} /\ MaxRuns \in Nat \ {0} /\ CrashLimit \in Nat
    /\ Nobody \notin Sessions

Decisions == 1..MaxDecisions
Runs == 1..MaxRuns

VARIABLES
    session,    \* local_principals.status; lapsed: expires_at passed, nobody looked
    decided,    \* how many decision_records there are, numbered by age
    verdict, author,
    approval,   \* approval_records.status, of the decision that issued it
    stale,      \* approvals whose expires_at has passed
    holder,     \* approval_records.reservation_id: the run that reserved it, or 0
    step,       \* plan_steps: status and confirmed
    runs,       \* how many plan_step_runs the step has
    marked,     \* runs with dispatch_started_at
    effect,     \* effect_executions of a run: its status, or released
    uses,       \* the approval of that execution, or 0
    proof,      \* what reconciliation recorded about a run
    pc, ctx,    \* the executor: where it is, the decision in its ExecutionContext
    workers,    \* (world) runs whose worker process is alive
    target,     \* the strategy and its champions: as bound, adopted, or changed by others
    applied,    \* (world) runs that adopted it
    crashes

decisionVars == <<session, decided, verdict, author>>
approvalVars == <<approval, stale, holder>>
runVars == <<step, runs, marked, proof>>
effectVars == <<effect, uses>>
targetVars == <<target, applied>>
vars == <<decisionVars, approvalVars, runVars, effectVars, targetVars, pc, ctx, workers, crashes>>

Busy == {"resolve", "runner", "reserve", "reserved", "worker", "settle", "fail", "succeed"}
Down == {"down", "recover"}

TypeOK ==
    /\ session \in [Sessions -> {"active", "lapsed", "expired"}]
    /\ decided \in 0..MaxDecisions
    /\ verdict \in [Decisions -> {"none", "approve", "reject"}]
    /\ author \in [Decisions -> Sessions \cup {Nobody}]
    /\ approval \in [Decisions -> {"none", "issued", "reserved", "consumed", "revoked", "expired"}]
    /\ stale \subseteq Decisions
    /\ holder \in [Decisions -> 0..MaxRuns]
    /\ step \in {"awaiting", "ready", "running", "failed", "checking", "skipped"}
    /\ runs \in 0..MaxRuns /\ marked \subseteq Runs
    /\ effect \in [Runs -> {"none", "prepared", "released", "dispatched", "committed", "uncertain"}]
    /\ uses \in [Runs -> 0..MaxDecisions]
    /\ proof \in [Runs -> {"none", "applied", "fenced"}]
    /\ pc \in {"idle"} \cup Busy \cup Down
    /\ ctx \in 0..MaxDecisions
    /\ workers \subseteq Runs
    /\ target \in {"draft", "adopted", "drifted"} /\ applied \subseteq Runs
    /\ crashes \in 0..CrashLimit

(* The step has come to its gate.                                             *)
Init ==
    /\ session = [p \in Sessions |-> "active"]
    /\ decided = 0
    /\ verdict = [n \in Decisions |-> "none"]
    /\ author = [n \in Decisions |-> Nobody]
    /\ approval = [n \in Decisions |-> "none"]
    /\ stale = {} /\ holder = [n \in Decisions |-> 0]
    /\ step = "awaiting" /\ runs = 0 /\ marked = {}
    /\ effect = [r \in Runs |-> "none"] /\ uses = [r \in Runs |-> 0]
    /\ proof = [r \in Runs |-> "none"]
    /\ pc = "idle" /\ ctx = 0 /\ workers = {}
    /\ target = "draft" /\ applied = {} /\ crashes = 0

-----------------------------------------------------------------------------
(* Sessions and clocks.                                                       *)
SessionLapses(p) ==
    /\ session[p] = "active"
    /\ session' = [session EXCEPT ![p] = "lapsed"]
    /\ UNCHANGED <<decided, verdict, author, approvalVars, runVars, effectVars, targetVars>>
    /\ UNCHANGED <<pc, ctx, workers, crashes>>

(* resolve_local_session: the row is closed, its approvals are not.           *)
SessionRefused(p) ==
    /\ pc \notin Down /\ session[p] = "lapsed"
    /\ session' = [session EXCEPT ![p] = "expired"]
    /\ UNCHANGED <<decided, verdict, author, approvalVars, runVars, effectVars, targetVars>>
    /\ UNCHANGED <<pc, ctx, workers, crashes>>

(* Mutation: the revocation does not look at the status.                      *)
RevocableAlways(n) == approval[n] # "none"
Revocable(n) == approval[n] \in {"issued", "reserved"}

(* A decision, of whatever step, that was resolved just before its session    *)
(* lapsed (_require_active_principal_id).                                     *)
DecisionTooLate(p) ==
    /\ pc \notin Down /\ session[p] = "lapsed"
    /\ session' = [session EXCEPT ![p] = "expired"]
    /\ approval' = [n \in Decisions |-> IF author[n] = p /\ Revocable(n)
                                        THEN "revoked" ELSE approval[n]]
    /\ UNCHANGED <<decided, verdict, author, stale, holder, runVars, effectVars, targetVars>>
    /\ UNCHANGED <<pc, ctx, workers, crashes>>

ApprovalLapses(n) ==
    /\ approval[n] # "none" /\ n \notin stale
    /\ stale' = stale \cup {n}
    /\ UNCHANGED <<approval, holder, decisionVars, runVars, effectVars, targetVars>>
    /\ UNCHANGED <<pc, ctx, workers, crashes>>

(* Another plan adopts a champion, or the strategy is edited.                 *)
TargetDrifts ==
    /\ target = "draft" /\ target' = "drifted"
    /\ UNCHANGED <<applied, decisionVars, approvalVars, runVars, effectVars>>
    /\ UNCHANGED <<pc, ctx, workers, crashes>>

-----------------------------------------------------------------------------
(* The human.                                                                 *)
Decide(p, which) ==
    /\ pc = "idle" /\ step = "awaiting" /\ target = "draft"
    /\ session[p] = "active" /\ decided < MaxDecisions
    /\ decided' = decided + 1
    /\ verdict' = [verdict EXCEPT ![decided + 1] = which]
    /\ author' = [author EXCEPT ![decided + 1] = p]
    /\ UNCHANGED <<session, stale, holder, runs, marked, proof, effectVars, targetVars>>
    /\ UNCHANGED <<pc, ctx, workers, crashes>>

(* authorize_step: decision, approval and confirmation in one transaction.    *)
Authorize(p) ==
    /\ Decide(p, "approve")
    /\ approval' = [approval EXCEPT ![decided + 1] = "issued"]
    /\ step' = "ready"

(* reject_step: what is still live for the binding is revoked with it.        *)
Reject(p) ==
    /\ Decide(p, "reject")
    /\ approval' = [n \in Decisions |-> IF Revocable(n) THEN "revoked" ELSE approval[n]]
    /\ step' = "skipped"

(* Mutation: a failed governed step may always be tried again.                *)
RetryUnreconciled ==
    /\ pc = "idle" /\ step = "failed"
    /\ step' \in {"awaiting", "ready"}
    /\ UNCHANGED <<runs, marked, proof, decisionVars, approvalVars, effectVars, targetVars>>
    /\ UNCHANGED <<pc, ctx, workers, crashes>>

(* retry_failed_step: the last run was not dispatched or is proved fenced.    *)
(* The driver asks again; without a principal the confirmation may be kept.   *)
Settled(r) == r \notin marked \/ proof[r] = "fenced"
Retry ==
    /\ pc = "idle" /\ step = "failed" /\ Settled(runs)
    /\ step' \in {"awaiting", "ready"}
    /\ UNCHANGED <<runs, marked, proof, decisionVars, approvalVars, effectVars, targetVars>>
    /\ UNCHANGED <<pc, ctx, workers, crashes>>

-----------------------------------------------------------------------------
(* The executor, up to the runner.                                            *)
StartRun ==
    /\ pc = "idle" /\ step = "ready" /\ runs < MaxRuns
    /\ runs' = runs + 1 /\ step' = "running" /\ pc' = "resolve"
    /\ UNCHANGED <<marked, proof, decisionVars, approvalVars, effectVars, targetVars>>
    /\ UNCHANGED <<ctx, workers, crashes>>

(* Mutation: any approval of a live principal will do.                        *)
LatestAny(n) == n \in 1..decided /\ session[author[n]] = "active"

(* The newest decision of a principal whose session is live.                  *)
Latest(n) ==
    /\ n \in 1..decided /\ session[author[n]] = "active"
    /\ \A m \in 1..decided : m > n => session[author[m]] # "active"

(* _execution_context_for_binding_tx; its update of stale rows is WithoutStale. *)
Usable(n) ==
    /\ Latest(n) /\ verdict[n] = "approve"
    /\ approval[n] = "issued" /\ n \notin stale
    /\ target = "draft"
WithoutStale ==
    [n \in Decisions |-> IF approval[n] = "issued" /\ n \in stale THEN "expired" ELSE approval[n]]

ResolveContext ==
    /\ pc = "resolve"
    /\ \/ \E n \in Decisions : Usable(n) /\ ctx' = n /\ pc' = "runner"
       \/ (\A n \in Decisions : ~Usable(n)) /\ pc' = "fail" /\ UNCHANGED ctx
    /\ approval' = WithoutStale
    /\ UNCHANGED <<stale, holder, decisionVars, runVars, effectVars, targetVars>>
    /\ UNCHANGED <<workers, crashes>>

(* The runner refuses before its dispatch checkpoint, or is cancelled.        *)
RefusedEarly ==
    /\ pc = "runner" /\ pc' = "fail"
    /\ UNCHANGED <<decisionVars, approvalVars, runVars, effectVars, targetVars>>
    /\ UNCHANGED <<ctx, workers, crashes>>

MarkDispatch ==
    /\ pc = "runner" /\ pc' = "reserve"
    /\ marked' = marked \cup {runs}
    /\ UNCHANGED <<step, runs, proof, decisionVars, approvalVars, effectVars, targetVars>>
    /\ UNCHANGED <<ctx, workers, crashes>>

-----------------------------------------------------------------------------
(* reserve_effect.                                                            *)
Reserve ==
    /\ pc = "reserve" /\ Usable(ctx)
    /\ approval' = [WithoutStale EXCEPT ![ctx] = "reserved"]
    /\ holder' = [holder EXCEPT ![ctx] = runs]
    /\ effect' = [effect EXCEPT ![runs] = "prepared"]
    /\ uses' = [uses EXCEPT ![runs] = ctx]
    /\ pc' = "reserved"
    /\ UNCHANGED <<stale, decisionVars, runVars, targetVars, ctx, workers, crashes>>

(* The context is no longer the one of the binding, or the binding changed.   *)
ReserveRefused ==
    /\ pc = "reserve" /\ pc' = "fail"
    /\ approval' = IF approval[ctx] = "issued" /\ ctx \in stale
                   THEN [approval EXCEPT ![ctx] = "expired"] ELSE approval
    /\ UNCHANGED <<stale, holder, decisionVars, runVars, effectVars, targetVars>>
    /\ UNCHANGED <<ctx, workers, crashes>>

HeldBy(r) == approval[uses[r]] = "reserved" /\ holder[uses[r]] = r

(* The capability is not admitted, or the dispatch checkpoint fails: the      *)
(* preparation is released, unless its approval changed meanwhile.            *)
Released(n) == IF n \in stale THEN "expired" ELSE "issued"
DispatchRefused ==
    /\ pc = "reserved" /\ pc' = "fail"
    /\ IF HeldBy(runs)
       THEN /\ effect' = [effect EXCEPT ![runs] = "released"]
            /\ approval' = [approval EXCEPT ![uses[runs]] = Released(uses[runs])]
            /\ holder' = [holder EXCEPT ![uses[runs]] = 0]
       ELSE UNCHANGED <<effect, approval, holder>>
    /\ UNCHANGED <<uses, stale, decisionVars, runVars, targetVars, ctx, workers, crashes>>

(* mark_effect_dispatched, and the worker is launched.                        *)
MarkEffectDispatched ==
    /\ pc = "reserved" /\ HeldBy(runs) /\ Latest(uses[runs])
    /\ effect' = [effect EXCEPT ![runs] = "dispatched"]
    /\ workers' = workers \cup {runs}
    /\ pc' = "worker"
    /\ UNCHANGED <<uses, approvalVars, decisionVars, runVars, targetVars, ctx, crashes>>

(* The sandbox refuses to launch it; releasing a dispatched effect fails.     *)
LaunchRefused ==
    /\ pc = "worker" /\ effect[runs] = "dispatched" /\ runs \in workers
    /\ workers' = workers \ {runs} /\ pc' = "fail"
    /\ UNCHANGED <<decisionVars, approvalVars, runVars, effectVars, targetVars, ctx, crashes>>

-----------------------------------------------------------------------------
(* Mutation: the worker looks at the strategy and not at the ledger.          *)
MayCommitUnchecked(r) == r \in workers /\ target = "draft"

(* The transaction of a worker (adopt_strategy): the receipt, the approval    *)
(* and the strategy change together.                                          *)
MayCommit(r) ==
    /\ r \in workers /\ target = "draft"
    /\ effect[r] = "dispatched" /\ HeldBy(r)
WorkerCommits(r) ==
    /\ MayCommit(r)
    /\ effect' = [effect EXCEPT ![r] = "committed"]
    /\ approval' = [approval EXCEPT ![uses[r]] = "consumed"]
    /\ target' = "adopted" /\ applied' = applied \cup {r}
    /\ UNCHANGED <<uses, stale, holder, decisionVars, runVars, pc, ctx, workers, crashes>>

(* The worker answers, and mark_effect_committed finds the receipt.           *)
ToolSucceeds ==
    /\ pc = "worker" /\ effect[runs] = "committed"
    /\ workers' = workers \ {runs} /\ pc' = "succeed"
    /\ UNCHANGED <<decisionVars, approvalVars, runVars, effectVars, targetVars, ctx, crashes>>

(* It fails, is killed, or its answer is refused, committed or not.           *)
ToolFails ==
    /\ pc = "worker"
    /\ workers' = workers \ {runs} /\ pc' = "settle"
    /\ UNCHANGED <<decisionVars, approvalVars, runVars, effectVars, targetVars, ctx, crashes>>

(* Mutation: a committed effect is not looked for.                            *)
MarkUncertainBlindly ==
    /\ pc = "settle" /\ pc' = "fail"
    /\ effect' = [effect EXCEPT ![runs] = "uncertain"]
    /\ approval' = [approval EXCEPT ![uses[runs]] = "revoked"]
    /\ UNCHANGED <<uses, stale, holder, decisionVars, runVars, targetVars, ctx, workers, crashes>>

(* mark_effect_uncertain: not for a committed effect, and without effect when *)
(* the approval is no longer reserved.                                        *)
MarkUncertain ==
    /\ pc = "settle" /\ pc' = "fail"
    /\ IF effect[runs] = "dispatched" /\ HeldBy(runs)
       THEN /\ effect' = [effect EXCEPT ![runs] = "uncertain"]
            /\ approval' = [approval EXCEPT ![uses[runs]] = "revoked"]
       ELSE UNCHANGED <<effect, approval>>
    /\ UNCHANGED <<uses, stale, holder, decisionVars, runVars, targetVars, ctx, workers, crashes>>

EndRun(place, status) ==
    /\ pc = place /\ pc' = "idle" /\ ctx' = 0
    /\ step' = status
    /\ UNCHANGED <<runs, marked, proof, decisionVars, approvalVars, effectVars, targetVars>>
    /\ UNCHANGED <<workers, crashes>>
FailRun == EndRun("fail", "failed")
StoreOutput == EndRun("succeed", "checking")

-----------------------------------------------------------------------------
(* The server process stops; a worker may outlive it.                         *)
Crash ==
    /\ pc # "down" /\ crashes < CrashLimit
    /\ crashes' = crashes + 1
    /\ pc' = "down" /\ ctx' = 0
    /\ workers' \in SUBSET workers
    /\ UNCHANGED <<decisionVars, approvalVars, runVars, effectVars, targetVars>>

(* reconcile_startup, then the recovery of the plan.                          *)
ReconcileStartup ==
    /\ pc = "down" /\ pc' = "recover"
    /\ effect' = [r \in Runs |-> CASE effect[r] = "prepared"   -> "released"
                                   [] effect[r] = "dispatched" -> "uncertain"
                                   [] OTHER                    -> effect[r]]
    /\ approval' = [n \in Decisions |->
                        IF approval[n] # "reserved" THEN approval[n]
                        ELSE IF effect[holder[n]] = "prepared" THEN Released(n) ELSE "revoked"]
    /\ holder' = [n \in Decisions |->
                        IF approval[n] = "reserved" /\ effect[holder[n]] = "prepared"
                        THEN 0 ELSE holder[n]]
    /\ UNCHANGED <<uses, stale, decisionVars, runVars, targetVars, ctx, workers, crashes>>

RecoverPlan ==
    /\ pc = "recover" /\ pc' = "idle"
    /\ step' = IF step = "running" THEN "failed" ELSE step
    /\ UNCHANGED <<runs, marked, proof, decisionVars, approvalVars, effectVars, targetVars>>
    /\ UNCHANGED <<ctx, workers, crashes>>

(* The human has the failed run reconciled (verify_producer_outcome, _apply). *)
Reconcile(outcome, next) ==
    /\ pc = "idle" /\ step = "failed" /\ runs \in marked
    /\ proof' = [proof EXCEPT ![runs] = outcome]
    /\ step' = next
    /\ UNCHANGED <<runs, marked, decisionVars, approvalVars, effectVars, targetVars>>
    /\ UNCHANGED <<pc, ctx, workers, crashes>>

ProveApplied ==
    /\ Reconcile("applied", "checking")
    /\ effect[runs] = "committed" /\ approval[uses[runs]] = "consumed"

ProveFenced ==
    /\ Reconcile("fenced", "failed")
    /\ effect[runs] = "uncertain" /\ approval[uses[runs]] = "revoked"
    /\ target = "draft"

-----------------------------------------------------------------------------
World ==
    \/ \E p \in Sessions : SessionLapses(p) \/ SessionRefused(p) \/ DecisionTooLate(p)
    \/ (\E n \in Decisions : ApprovalLapses(n)) \/ TargetDrifts
    \/ (\E r \in Runs : WorkerCommits(r)) \/ Crash

Human == (\E p \in Sessions : Authorize(p) \/ Reject(p)) \/ Retry \/ ProveApplied \/ ProveFenced

Executor ==
    \/ StartRun \/ ResolveContext \/ RefusedEarly \/ MarkDispatch
    \/ Reserve \/ ReserveRefused \/ DispatchRefused \/ MarkEffectDispatched \/ LaunchRefused
    \/ ToolSucceeds \/ ToolFails \/ MarkUncertain \/ FailRun \/ StoreOutput
    \/ ReconcileStartup \/ RecoverPlan

Next == World \/ Human \/ Executor

Spec == Init /\ [][Next]_vars

-----------------------------------------------------------------------------
(* What holds between the tables, and between them and the executor.          *)
DecisionsOK ==
    \A n \in Decisions :
        /\ n > decided => verdict[n] = "none" /\ approval[n] = "none"
        /\ n <= decided =>
               /\ author[n] \in Sessions /\ verdict[n] # "none"
               /\ verdict[n] = "approve" <=> approval[n] # "none"

ReservationsOK ==
    \A n \in Decisions : approval[n] \in {"reserved", "consumed"} =>
        /\ holder[n] \in 1..runs /\ uses[holder[n]] = n
        /\ approval[n] = "reserved" => effect[holder[n]] \in {"prepared", "dispatched"}
        /\ approval[n] = "consumed" => effect[holder[n]] = "committed"

EffectsOK ==
    \A r \in Runs :
        /\ r > runs => r \notin marked
        /\ effect[r] = "none" => proof[r] = "none" /\ r \notin workers
        /\ effect[r] # "none" =>
               r \in marked /\ uses[r] \in 1..decided /\ verdict[uses[r]] = "approve"
        /\ effect[r] \in {"prepared", "dispatched"} =>
               HeldBy(r) \/ approval[uses[r]] = "revoked"
        /\ effect[r] = "uncertain" => approval[uses[r]] = "revoked"
        /\ effect[r] = "committed" => approval[uses[r]] = "consumed" /\ holder[uses[r]] = r

AdoptionOK ==
    /\ \A r \in Runs : r \in applied <=> effect[r] = "committed"
    /\ \A r, t \in applied : r = t
    /\ applied # {} <=> target = "adopted"

(* A worker that could still adopt belongs to the run that is on.             *)
WorkersOK ==
    \A r \in workers :
        /\ effect[r] \in {"dispatched", "committed", "uncertain"}
        /\ effect[r] = "dispatched" => r = runs /\ pc \in {"worker", "down"} /\ step = "running"

ProofsOK ==
    \A r \in Runs : /\ proof[r] = "fenced" => effect[r] = "uncertain"
                    /\ proof[r] = "applied" => effect[r] = "committed"

(* What a new run leaves behind is settled.                                   *)
HistoryOK ==
    \A r \in 1..runs : r < runs \/ step \in {"awaiting", "ready", "skipped"} => Settled(r)

ControlOK ==
    /\ pc \in Busy => step = "running"
    /\ pc = "idle" => step # "running"
    /\ step \in {"running", "failed", "checking"} => runs > 0
    /\ step = "checking" => effect[runs] = "committed"
    /\ pc \in {"resolve", "runner"} => runs \notin marked
    /\ pc \in {"runner", "reserve"} => ctx \in 1..decided /\ verdict[ctx] = "approve"
    /\ pc = "reserve" => runs \in marked /\ effect[runs] = "none"
    /\ pc = "reserved" => effect[runs] = "prepared"
    /\ pc \in {"worker", "settle"} => effect[runs] \in {"dispatched", "committed"}
    /\ pc = "succeed" => effect[runs] = "committed"

(* The tables, the executor and the adoption agree in every state: a          *)
(* reservation has its live effect and a revocation never reaches a committed *)
(* one, a worker that could still adopt belongs to the run that is on, and    *)
(* what a retry leaves behind is settled.                                     *)
ApprovalInv ==
    /\ TypeOK /\ DecisionsOK /\ ReservationsOK /\ EffectsOK /\ AdoptionOK
    /\ WorkersOK /\ ProofsOK /\ HistoryOK /\ ControlOK

(* An approval is good for one adoption: whatever sessions, rejections,       *)
(* crashes and late workers do, the strategy is adopted at most once, the run *)
(* that did it still holds its approval as consumed, and an approval is       *)
(* consumed only for an adoption that happened.                               *)
OneShot ==
    /\ \A r, t \in applied : r = t
    /\ \A r \in applied : approval[uses[r]] = "consumed" /\ holder[uses[r]] = r
    /\ \A n \in Decisions : approval[n] = "consumed" => holder[n] \in applied

(* What reconciliation recorded about a run stays true, also while a worker   *)
(* that outlived its server is still running: a run proved fenced never       *)
(* adopts and one proved applied did.                                         *)
ProofsHold ==
    \A r \in Runs : /\ proof[r] = "fenced" => r \notin applied
                    /\ proof[r] = "applied" => r \in applied

(* "Never fall back to an older approval after a reject" (repository.py:987): *)
(* the strategy is adopted under an older approval only past newer approvals  *)
(* whose sessions had all ended.  A rejection, or a newer decision of anyone  *)
(* still there, always wins, also over a worker that outlived its server.     *)
Yields(n) ==
    \A m \in n+1..decided : verdict[m] = "approve" /\ session[author[m]] # "active"
OverruledNeverActs == \A r \in applied : Yields(uses[r])

(* What makes it inductive: it holds from the dispatch on, and nothing runs   *)
(* after a rejection.                                                         *)
NewestOK ==
    /\ \A r \in Runs : effect[r] \in {"dispatched", "committed"} => Yields(uses[r])
    /\ \A m \in 1..decided : verdict[m] = "reject" => step = "skipped"

-----------------------------------------------------------------------------
(* Human approval as a permit for one effect, see GovernedEffect.             *)
Permit(n) ==
    CASE approval[n] = "none"                    -> "none"
      [] approval[n] \in {"issued", "reserved"}  -> "granted"
      [] approval[n] = "consumed"                -> "spent"
      [] approval[n] \in {"revoked", "expired"}  -> "void"
PhaseOf ==
    CASE step = "awaiting"                       -> "asking"
      [] step \in {"ready", "running", "failed"} -> "allowed"
      [] step = "checking"                       -> "closed"
      [] step = "skipped"                        -> "rejected"

Promise == INSTANCE GovernedEffect WITH
    Permits <- Decisions,
    permit  <- [n \in Decisions |-> Permit(n)],
    phase   <- PhaseOf,
    applied <- {uses[r] : r \in applied}

(* The tables, the runner and the worker together keep that promise: the      *)
(* effect happens once, under a live permit of a step that was allowed, and   *)
(* nobody is asked again about a step whose effect has happened.              *)
ImplementsGovernedEffect == Promise!Spec
=============================================================================
