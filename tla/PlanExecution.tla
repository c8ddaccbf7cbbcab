---------------------------- MODULE PlanExecution ----------------------------
(* One plan of a task: the executor, crash recovery, reconciliation and the   *)
(* commands of its user, over the durable state of PlanLedger.                *)
EXTENDS StepExecutor, StepRecovery, PlanCommands

Init ==
    /\ planStatus = "validated"
    /\ wfEvent = FALSE /\ wfVerdict = "none" /\ wfPending = FALSE
    /\ stepStatus = [s \in Steps |-> "pending"]
    /\ stepErr = [s \in Steps |-> "none"]
    /\ confirmed = {}
    /\ outRef = [s \in Steps |-> 0]
    /\ attempts = [s \in Steps |-> 0]
    /\ runStatus = [r \in Runs |-> "none"]
    /\ dispatched = {} /\ unknown = {} /\ fenced = {}
    /\ output = [r \in Runs |-> NoOutput]
    /\ verdict = [r \in Runs |-> "none"]
    /\ invoked = {} /\ applied = {} /\ workers = {}
    /\ pc = "idle" /\ cur = NoStep /\ mode = "none" /\ note = "none"
    /\ crashes = 0

ServerNext == ExecutorNext \/ RecoveryNext \/ ReconcilerNext

Next == ServerNext \/ UserNext \/ ToolApplies \/ Crash

Spec == Init /\ [][Next]_vars

(* A started job keeps running and a called tool ends, in success or not; the *)
(* service is restarted after a crash.  Users and crashes are free.           *)
FairSpec == Spec /\ WF_vars(ServerNext)

-----------------------------------------------------------------------------
Labels == {"idle", "queued", "down", "enter", "loop", "gated", "execute", "start",
           "ready", "dispatched", "tool", "store", "seal", "bind", "complete",
           "publish", "mark", "fail", "stopStep", "stopPlan", "finalize",
           "checkpoint", "wfReview", "wfPublish", "wfFinal", "wfError", "wfFail",
           "recover", "adopt", "authenticate", "interrupt", "reopen", "settle", "record"}

PlanTypeOK ==
    /\ planStatus \in PlanStatuses
    /\ wfEvent \in BOOLEAN /\ wfPending \in BOOLEAN
    /\ wfVerdict \in {"none", "done", "failed"}
StepTypeOK ==
    /\ stepStatus \in [Steps -> StepStatuses]
    /\ stepErr \in [Steps -> {"none", "plain", "reconcile"}]
    /\ confirmed \subseteq Steps
    /\ outRef \in [Steps -> Versions]
RunTypeOK ==
    /\ attempts \in [Steps -> Versions]
    /\ runStatus \in [Runs -> RunStatuses]
    /\ dispatched \subseteq Runs /\ unknown \subseteq Runs /\ fenced \subseteq Runs
    /\ output \in [Runs -> OutputValues]
    /\ verdict \in [Runs -> {"none", "pass", "fail", "rebound"}]
WorldTypeOK == invoked \subseteq Runs /\ applied \subseteq Runs /\ workers \subseteq Runs
ProcTypeOK ==
    /\ pc \in Labels
    /\ cur \in Steps \cup {NoStep}
    /\ mode \in {"none", "run", "resume", "startup", "reconcile"}
    /\ note \in {"none", "plain", "reconcile", "skip", "resume"}
TypeOK ==
    /\ PlanTypeOK /\ StepTypeOK /\ RunTypeOK /\ WorldTypeOK /\ ProcTypeOK
    /\ crashes \in 0..CrashLimit

(* The process is where its step and the ledger say it is: what each label    *)
(* relies on when the next transaction runs.                                  *)
Waiting(s) == stepStatus[s] \in {"pending", "awaiting"}
ControlOK ==
    /\ pc \in {"execute", "start", "ready", "dispatched", "tool", "store", "seal", "bind",
              "complete", "publish", "mark", "fail", "stopStep", "adopt", "authenticate",
              "interrupt", "settle"} => cur \in Steps
    /\ pc \in {"ready", "dispatched", "tool", "store", "seal", "bind"} => HasRun(cur)
    /\ pc = "execute" => Waiting(cur)
    /\ pc \in {"start", "ready", "dispatched"} => stepStatus[cur] = "running"
    /\ pc \in {"ready", "dispatched"} =>
        runStatus[Last(cur)] = "running" /\ Last(cur) \notin invoked \cup fenced
    /\ pc = "dispatched" => Last(cur) \in dispatched
    /\ pc \in {"fail", "stopStep", "interrupt"} => note \in {"plain", "reconcile", "skip"}
    /\ pc \in {"stopStep", "interrupt"} => note # "skip"
    /\ pc \in {"wfReview", "wfPublish", "wfFinal"} => wfVerdict # "none"

-----------------------------------------------------------------------------
(* An attempt is settled when nothing it may have done is unknown: never      *)
(* called, only reading, applied and recorded, or proved not applied.         *)
Settled(r) ==
    r \in invoked => r[1] \in ReadOnly \/ runStatus[r] = "succeeded" \/ r \in fenced

(* A tool with side effects is called again only when every earlier call of   *)
(* its step is settled (the retry, adjustment and rollback gates of           *)
(* plans.py:97, recovery's markers and the dispatch mark, taken together).    *)
NoBlindReexecution ==
    \A r \in invoked : \A a \in 1..MaxAttempts : a < r[2] => Settled(<<r[1], a>>)

(* What makes it inductive: calls and fences belong to attempts that exist,   *)
(* a contracted call was marked first, and the last attempt of a step that    *)
(* waits or is being started is settled.                                      *)
SettledLedger ==
    /\ \A r \in invoked \cup fenced : r[2] <= attempts[r[1]]
    /\ \A r \in invoked : r[1] \in Contracted => r \in dispatched
    /\ \A r \in Runs : r[2] <= attempts[r[1]] <=> runStatus[r] # "none"
    /\ \A r \in Runs : r[2] < attempts[r[1]] => Settled(r)
    /\ \A s \in Steps : Waiting(s) /\ HasRun(s) => Settled(Last(s))
    /\ pc = "start" /\ HasRun(cur) => Settled(Last(cur))
LedgerInv == TypeOK /\ ControlOK /\ SettledLedger

(* A succeeded row is evidence: its output is stored and the tool really did  *)
(* its work; a fence never covers a call that was applied.                    *)
LedgerTellsTheTruth ==
    \A r \in Runs :
        /\ runStatus[r] = "succeeded" => output[r] # NoOutput /\ r \in applied
        /\ r \in fenced => r \notin applied /\ runStatus[r] # "succeeded"

(* The result of a completed step was computed from the results its parents   *)
(* hold now, and it is sealed; no retry, rollback, adjustment or recovery     *)
(* leaves a result downstream of a replaced one.                              *)
LineageCurrent ==
    \A s \in Steps : stepStatus[s] = "done" => Authentic(s, outRef[s])

(* No gated step is past its gate without a confirmation, and a confirmation  *)
(* never outlives the upstream results the human looked at.                   *)
ConfirmationCurrent ==
    /\ \A s \in Gated : stepStatus[s] \in InFlight \cup {"done"} => s \in confirmed
    /\ \A s \in confirmed : \A d \in Deps[s] : stepStatus[d] \in Complete

(* One tool call at a time, whatever crashes and cancels leave behind: one    *)
(* step in flight and one open run in the plan.                               *)
OneInFlight ==
    /\ Cardinality({s \in Steps : stepStatus[s] \in InFlight}) <= 1
    /\ Cardinality({r \in Runs : runStatus[r] = "running"}) <= 1

(* Once the workflow's completion is frozen its steps are complete for good,  *)
(* so the binding it was frozen under cannot change (completion.py:257-289).  *)
FrozenCompletionStable == wfEvent => AllComplete

(* Only a request made while no process holds the plan leaves the cancelled   *)
(* status: no executor, recovery or reconciliation write undoes a cancel.     *)
CancelKept ==
    planStatus = "cancelled" /\ planStatus' # "cancelled" =>
        pc = "idle" \/ (pc = "reopen" /\ note = "resume")
CancelSticks == [][CancelKept]_vars

(* What makes it provable: startup works on a plan nobody can cancel, and the *)
(* workflow is published and finished from review, which refuses a cancel.    *)
CancelInv ==
    /\ mode = "startup" => ~Cancelled
    /\ pc \in {"wfPublish", "wfFinal"} => planStatus = "review"

(* Evidence is append-only: an open row is closed once, a stored output, a    *)
(* frozen review and a fence are never replaced, and a closed row is only     *)
(* ever turned into succeeded, by the receipt of its own producer.  The       *)
(* completion of the workflow is frozen under its steps and their results     *)
(* (completion.py:257-289): none of them changes any more and none runs       *)
(* again, and a plan that is done stays done.                                 *)
DoneKept == planStatus = "done" => planStatus' = "done"
CompletionKept == wfEvent => wfEvent' /\ UNCHANGED <<stepStatus, outRef, invoked>>
LedgerKept ==
    \A r \in Runs :
        /\ output[r] # NoOutput => output'[r] = output[r]
        /\ verdict[r] \in {"pass", "fail"} => verdict'[r] \in {verdict[r], "rebound"}
        /\ runStatus[r] = "succeeded" => runStatus'[r] = "succeeded"
        /\ runStatus[r] \in {"failed", "interrupted"} /\ runStatus'[r] # runStatus[r]
            => runStatus'[r] = "succeeded" /\ r \in applied
        /\ r \in fenced => r \in fenced'
EvidenceImmutable == [][DoneKept /\ CompletionKept /\ LedgerKept]_vars

(* What makes the properties above provable.  A step in flight is the one the *)
(* process is at, and at most one step is unfinished: the loop takes a step   *)
(* only when none is.                                                         *)
StepLabels == {"start", "ready", "dispatched", "tool", "store", "seal", "bind", "complete",
               "publish", "mark", "fail", "stopStep", "adopt", "authenticate", "interrupt"}
Unfinished(s) == stepStatus[s] \in InFlight \cup {"failed"}
PlaceOK ==
    /\ pc \in StepLabels => stepStatus[cur] \in InFlight
    /\ pc = "reopen" /\ cur # NoStep => Unfinished(cur)
    /\ pc \in {"loop", "gated", "execute"} => NoneInFlight
    /\ pc = "execute" => ~AnyFailed /\ cur \notin Gated \ confirmed
    /\ \A s, t \in Steps : Unfinished(s) /\ Unfinished(t) => s = t
    /\ planStatus = "awaiting" => NoneInFlight /\ pc \in {"idle", "queued", "enter", "down"}

(* What a step has begun with is still there: its parents' completion and its *)
(* confirmation.                                                              *)
ParentsComplete(s) == \A d \in Deps[s] : stepStatus[d] \in Complete
GraphOK ==
    /\ \A s \in Steps : stepStatus[s] # "pending" => ParentsComplete(s)
    /\ \A s \in confirmed : ParentsComplete(s)
    /\ \A s \in Gated : ~Waiting(s) => s \in confirmed
    /\ pc = "execute" => ParentsComplete(cur)

(* Only the last attempt of a step in flight is open, and none is before the  *)
(* next attempt starts or once its outcome is known.                          *)
RunsOK ==
    /\ \A r \in Runs : runStatus[r] = "running" => r = Last(r[1]) /\ stepStatus[r[1]] \in InFlight
    /\ pc \in {"start", "bind", "complete", "publish", "mark", "fail", "stopStep", "authenticate"}
       \/ (pc = "reopen" /\ cur # NoStep) => \A r \in Runs : runStatus[r] # "running"

(* An output comes from a call that was applied, and what a step shows is an  *)
(* output.                                                                    *)
OutputsOK ==
    /\ \A r \in Runs : output[r] # NoOutput => r \in applied
    /\ \A s \in Steps : outRef[s] # 0 => output[<<s, outRef[s]>>] # NoOutput
    /\ pc \in {"store", "seal"} => Last(cur) \in applied
    /\ pc = "bind" => output[Last(cur)] # NoOutput
    /\ pc \in {"publish", "mark"} => Authentic(cur, outRef[cur])

(* A frozen checkpoint follows its obligation; a plan is done by its verdict  *)
(* and is then only reconciled.                                               *)
FrozenOK ==
    /\ wfVerdict # "none" \/ pc = "checkpoint" => wfEvent
    /\ pc \in {"idle", "down"} => cur = NoStep
    /\ planStatus = "done" => wfVerdict = "done" /\ pc \in {"idle", "down", "reopen", "record"}

EvidenceInv ==
    /\ PlaceOK /\ GraphOK /\ RunsOK /\ OutputsOK /\ FrozenOK
    /\ LedgerTellsTheTruth /\ LineageCurrent /\ FrozenCompletionStable

(* Startup looks at running and review plans only (recovery.py:572), and      *)
(* still nothing is left hanging: when no process holds a plan, no call of it *)
(* is open, and a step left in flight has its sealed result and can be        *)
(* completed by reconciliation without its tool.  Cancelled plans are the     *)
(* exception: they are never looked at again.                                 *)
Completable(s) ==
    stepStatus[s] = "checking" /\ Authentic(s, outRef[s]) /\ outRef[s] = attempts[s]
InterruptedIsCompletable ==
    pc = "idle" /\ planStatus # "cancelled" =>
        /\ \A r \in Runs : runStatus[r] # "running"
        /\ \A s \in Steps : stepStatus[s] \in InFlight => Completable(s) /\ Reconcilable

(* What makes it inductive, by the plan's status: a failed plan's step went   *)
(* into flight again by a receipt only, a plan under review is complete, and  *)
(* a job starts a running plan with no step in flight.                        *)
InterruptOK ==
    /\ planStatus = "failed" =>
        /\ pc \in {"idle", "down", "queued", "enter", "reopen", "record"}
        /\ \A s \in Steps : stepStatus[s] \in InFlight => Completable(s)
    /\ planStatus \in {"validated", "confirmed"} =>
        NoneInFlight /\ pc \in {"idle", "down", "queued", "enter"}
    /\ planStatus = "running" /\ pc \in {"idle", "queued", "enter"} => NoneInFlight
    /\ planStatus = "review" => AllComplete
    /\ pc \in {"finalize", "settle", "record"} => NoneInFlight
    /\ wfPending \/ pc \in {"wfError", "wfFail"} \/ (pc = "finalize" /\ mode = "reconcile")
       \/ (pc = "reopen" /\ cur = NoStep) => AllComplete

(* The step-run ledger implements the abstract effect ledger.                 *)
Ledger == INSTANCE EffectLedger WITH
    Effectful <- Steps \ ReadOnly,
    called <- invoked,
    known <- {r \in Runs : runStatus[r] = "succeeded" \/ r \in fenced}
RefinesEffectLedger == Ledger!Spec

(* Every job ends: the one active job of the task is released whatever fails, *)
(* is cancelled or crashes meanwhile.                                         *)
JobEnds == pc # "idle" ~> pc = "idle"

(* Why it does: the labels are passed in one direction but for the returns to *)
(* the heads of the loops, and nobody comes back there with as many steps to  *)
(* do.                                                                        *)
Todo == {s \in Steps : Waiting(s) \/ stepStatus[s] \in InFlight}
Distance(l) ==
    CASE l = "idle" -> 0
      [] l \in {"record", "wfFail", "stopPlan", "gated"} -> 1
      [] l \in {"wfError", "wfFinal", "stopStep"} -> 2
      [] l = "wfPublish" -> 3     [] l = "wfReview" -> 4
      [] l = "checkpoint" -> 5    [] l = "finalize" -> 6      [] l = "settle" -> 7
      [] l \in {"mark", "fail"} -> 8
      [] l \in {"publish", "interrupt"} -> 9
      [] l = "complete" -> 10
      [] l \in {"bind", "authenticate"} -> 11
      [] l \in {"seal", "adopt"} -> 12
      [] l = "store" -> 13        [] l = "tool" -> 14
      [] l = "dispatched" -> 15   [] l = "ready" -> 16        [] l = "start" -> 17
      [] l = "execute" -> 18      [] l = "loop" -> 19         [] l = "recover" -> 20
      [] l \in {"enter", "reopen"} -> 21
      [] l \in {"queued", "down"} -> 22
Nearer ==
    \/ Todo' \subseteq Todo /\ Todo' # Todo /\ Distance(pc') <= Distance("recover")
    \/ (Todo' \subseteq Todo \/ pc = "reopen") /\ Distance(pc') < Distance(pc)

(* Every step of the process, in the executor, in recovery and in             *)
(* reconciliation, brings its job nearer to its end; cancels and late workers *)
(* do not delay it, so only a crash can.                                      *)
StepAdvances ==
    IF ServerNext THEN Nearer
    ELSE pc = "idle" \/ pc' = "down" \/ UNCHANGED <<pc, Todo>>
JobAdvances == [][StepAdvances]_vars

-----------------------------------------------------------------------------
(* What a comment of the code promises and the code does not keep.            *)

(* "All Tools have durable results.  A crash before the workflow checkpoint   *)
(* must expose completion-only recovery, never a dead end": a failed plan     *)
(* whose steps are all complete was judged failed or can be reconciled.       *)
CompletePlanIsRecoverable ==
    pc = "idle" /\ planStatus = "failed" /\ AllComplete => wfVerdict = "failed" \/ wfEvent
=============================================================================
