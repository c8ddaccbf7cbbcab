---------------------------- MODULE StepExecutor ----------------------------
(* PlanExecutor.run and the completion protocol it ends in                    *)
(* (marvis/orchestrator/executor.py, completion.py).  Every action is at most *)
(* one write transaction, so a crash can fall between any two of them.  Only  *)
(* the cancel route writes the plan while this process runs.                  *)
EXTENDS PlanLedger

Executing(label) == pc = label /\ mode = "run"
Cancelled == planStatus = "cancelled"

(* Mutation: the transition is not checked against the stored status.         *)
SetPlanUnchecked(status) == planStatus' = status

(* _set_plan_status: an illegal transition (the plan was cancelled meanwhile) *)
(* escapes run() and ends the job without a write.                            *)
SetPlan(status) == planStatus' = IF Cancelled THEN "cancelled" ELSE status

-----------------------------------------------------------------------------
(* _run_plan_job: the queued job starts and the executor loads the plan.      *)
MarkJobRunning ==
    /\ pc = "queued"
    /\ pc' = "enter" /\ mode' = "run" /\ UNCHANGED <<cur, note>>
    /\ UNCHANGED <<planVars, stepVars, runVars, worldVars, crashes>>

Runnable == planStatus \in {"confirmed", "awaiting", "running"}

(* A frozen workflow checkpoint is completed, never recomputed; a terminal    *)
(* plan, or a review nobody has answered, ends the job at once.               *)
Frozen == planStatus \in {"running", "review"} /\ wfVerdict # "none"

EnterEnded ==
    /\ Executing("enter")
    /\ ~Runnable \/ Frozen
    /\ IF Frozen THEN Goto("wfReview") ELSE Finish
    /\ UNCHANGED <<planVars, stepVars, runVars, worldVars, crashes>>

(* _validate_capabilities refuses the pinned tool versions at entry.          *)
EnterRejected ==
    /\ Executing("enter")
    /\ Runnable \/ planStatus = "review"
    /\ planStatus' = IF planStatus \in {"confirmed", "awaiting"} THEN "cancelled" ELSE "failed"
    /\ Finish
    /\ UNCHANGED <<wfEvent, wfVerdict, wfPending>>
    /\ UNCHANGED <<stepVars, runVars, worldVars, crashes>>

(* _cancel_plan: the user's stop is noticed at entry or at the loop head.     *)
StopBetweenSteps ==
    /\ \/ Executing("enter") /\ Runnable /\ ~Frozen
       \/ Executing("loop")
    /\ planStatus' = "cancelled"
    /\ Finish
    /\ UNCHANGED <<wfEvent, wfVerdict, wfPending>>
    /\ UNCHANGED <<stepVars, runVars, worldVars, crashes>>

EnterRun ==
    /\ Executing("enter")
    /\ Runnable /\ ~Frozen
    /\ planStatus' = "running"
    /\ pc' = "recover" /\ mode' = "resume" /\ UNCHANGED <<cur, note>>
    /\ UNCHANGED <<wfEvent, wfVerdict, wfPending>>
    /\ UNCHANGED <<stepVars, runVars, worldVars, crashes>>

-----------------------------------------------------------------------------
(* The loop head: externally applied cancel, failed steps, the next step.     *)
AnyFailed == \E s \in Steps : stepStatus[s] = "failed"
Ready(s) ==
    /\ stepStatus[s] \in {"pending", "awaiting"}
    /\ \A d \in Deps[s] : stepStatus[d] \in Complete
NextReady(s) == Ready(s) /\ \A t \in Steps : t < s => ~Ready(t)

LoopCancelled ==
    /\ Executing("loop") /\ Cancelled
    /\ Finish
    /\ UNCHANGED <<planVars, stepVars, runVars, worldVars, crashes>>

(* A failed step ends the plan; so does a capability rejected between steps.  *)
FailPlan ==
    /\ Executing("loop") /\ ~Cancelled
    /\ AnyFailed \/ \E s \in Steps : NextReady(s) /\ s \notin Gated \ confirmed
    /\ planStatus' = "failed"
    /\ Finish
    /\ UNCHANGED <<wfEvent, wfVerdict, wfPending>>
    /\ UNCHANGED <<stepVars, runVars, worldVars, crashes>>

LoopFinalize ==
    /\ Executing("loop") /\ ~Cancelled
    /\ ~AnyFailed /\ \A s \in Steps : ~Ready(s)
    /\ Goto("finalize")
    /\ UNCHANGED <<planVars, stepVars, runVars, worldVars, crashes>>

(* An unconfirmed gate parks the step, then the plan.                         *)
GateStep ==
    /\ Executing("loop") /\ ~Cancelled /\ ~AnyFailed
    /\ \E s \in Steps :
        /\ NextReady(s) /\ s \in Gated \ confirmed
        /\ stepStatus' = [stepStatus EXCEPT ![s] = "awaiting"]
    /\ Goto("gated")
    /\ UNCHANGED <<stepErr, confirmed, outRef>>
    /\ UNCHANGED <<planVars, runVars, worldVars, crashes>>

GatePlan ==
    /\ Executing("gated")
    /\ SetPlan("awaiting")
    /\ Finish
    /\ UNCHANGED <<wfEvent, wfVerdict, wfPending>>
    /\ UNCHANGED <<stepVars, runVars, worldVars, crashes>>

(* The decision is taken on the loaded plan; a cancel may land before the     *)
(* step is written.                                                           *)
ChooseStep ==
    /\ Executing("loop") /\ ~Cancelled /\ ~AnyFailed
    /\ \E s \in Steps : NextReady(s) /\ s \notin Gated \ confirmed /\ cur' = s
    /\ pc' = "execute" /\ UNCHANGED <<mode, note>>
    /\ UNCHANGED <<planVars, stepVars, runVars, worldVars, crashes>>

-----------------------------------------------------------------------------
(* _execute_step.                                                             *)
SetRunning ==
    /\ Executing("execute")
    /\ stepStatus' = [stepStatus EXCEPT ![cur] = "running"]
    /\ Goto("start")
    /\ UNCHANGED <<stepErr, confirmed, outRef>>
    /\ UNCHANGED <<planVars, runVars, worldVars, crashes>>

(* An input reference or the invocation contract cannot be resolved.          *)
StartFails ==
    /\ Executing("start")
    /\ GotoNote("fail", "plain")
    /\ UNCHANGED <<planVars, stepVars, runVars, worldVars, crashes>>

(* start_step_run: only for a step that is running; the next attempt.         *)
StartRun ==
    /\ Executing("start")
    /\ stepStatus[cur] = "running"
    /\ attempts[cur] < MaxAttempts
    /\ attempts' = [attempts EXCEPT ![cur] = @ + 1]
    /\ runStatus' = [runStatus EXCEPT ![<<cur, attempts[cur] + 1>>] = "running"]
    /\ Goto("ready")
    /\ UNCHANGED <<dispatched, unknown, output, verdict, fenced>>
    /\ UNCHANGED <<planVars, stepVars, worldVars, crashes>>

(* Preflight admission or a missing governance context refuses the inputs:    *)
(* the step fails whatever the tool's failure policy is.                      *)
RejectBeforeDispatch ==
    /\ Executing("ready") /\ cur \in Contracted
    /\ Close(Last(cur), "failed", FALSE)
    /\ GotoNote("fail", "plain")
    /\ UNCHANGED <<attempts, dispatched, output, verdict, fenced>>
    /\ UNCHANGED <<planVars, stepVars, worldVars, crashes>>

(* Mutation: the handshake is acknowledged without its write.                 *)
DispatchUnmarked ==
    /\ Executing("ready") /\ cur \in Contracted
    /\ runStatus[Last(cur)] = "running"
    /\ Goto("dispatched")
    /\ UNCHANGED <<planVars, stepVars, runVars, worldVars, crashes>>

(* mark_step_run_dispatched, called by the runner before anything can act.    *)
Dispatch ==
    /\ Executing("ready") /\ cur \in Contracted
    /\ runStatus[Last(cur)] = "running"
    /\ dispatched' = dispatched \cup {Last(cur)}
    /\ Goto("dispatched")
    /\ UNCHANGED <<attempts, runStatus, unknown, output, verdict, fenced>>
    /\ UNCHANGED <<planVars, stepVars, worldVars, crashes>>

(* The worker (or the sub-agent, which has no dispatch handshake) starts.     *)
Invoke ==
    /\ Executing("dispatched") \/ (Executing("ready") /\ cur \notin Contracted)
    /\ invoked' = invoked \cup {Last(cur)}
    /\ workers' = workers \cup {Last(cur)}
    /\ Goto("tool")
    /\ UNCHANGED applied
    /\ UNCHANGED <<planVars, stepVars, runVars, crashes>>

(* The tool does its work.  After a crash an orphaned worker may still do so, *)
(* unless its producer fenced the invocation.                                 *)
ToolApplies ==
    /\ \E r \in workers \ (applied \cup fenced) : applied' = applied \cup {r}
    /\ UNCHANGED <<invoked, workers>>
    /\ UNCHANGED <<planVars, stepVars, runVars, procVars, crashes>>

WorkerGone == workers' = workers \ {Last(cur)} /\ UNCHANGED <<invoked, applied>>

(* A successful result arrives; the step moves to checking.                   *)
ToolSucceeds ==
    /\ Executing("tool") /\ Last(cur) \in applied
    /\ WorkerGone
    /\ stepStatus' = [stepStatus EXCEPT ![cur] = "checking"]
    /\ Goto("store")
    /\ UNCHANGED <<stepErr, confirmed, outRef>>
    /\ UNCHANGED <<planVars, runVars, crashes>>

(* A successful result without its invocation receipt is never trusted.       *)
ReceiptMissing ==
    /\ Executing("tool") /\ Last(cur) \in applied
    /\ WorkerGone
    /\ Close(Last(cur), "failed", FALSE)
    /\ GotoNote("fail", "reconcile")
    /\ UNCHANGED <<attempts, dispatched, output, verdict, fenced>>
    /\ UNCHANGED <<planVars, stepVars, crashes>>

(* A failed result: retry-safe failures follow the tool's policy, any other   *)
(* becomes unknown_effect.                                                    *)
ToolFails ==
    /\ Executing("ready") \/ Executing("dispatched") \/ Executing("tool")
    /\ WorkerGone
    /\ LET safe == RetrySafe(Last(cur)) IN
        /\ Close(Last(cur), "failed", ~safe)
        /\ GotoNote("fail", IF ~safe THEN "reconcile"
                            ELSE IF cur \in Skippable THEN "skip" ELSE "plain")
    /\ UNCHANGED <<attempts, dispatched, output, verdict, fenced>>
    /\ UNCHANGED <<planVars, stepVars, crashes>>

(* An exception instead of a result: the run keeps the exception's name as    *)
(* its error kind and the marker goes to the step.                            *)
ToolRaises ==
    /\ Executing("ready") \/ Executing("dispatched") \/ Executing("tool")
    /\ WorkerGone
    /\ Close(Last(cur), "failed", FALSE)
    /\ GotoNote("fail", IF RetrySafe(Last(cur)) THEN "plain" ELSE "reconcile")
    /\ UNCHANGED <<attempts, dispatched, output, verdict, fenced>>
    /\ UNCHANGED <<planVars, stepVars, crashes>>

(* _finish_cancelled_step: the user stops the current action.                 *)
StopDuringStep ==
    /\ Executing("ready") \/ Executing("dispatched") \/ Executing("tool")
    /\ WorkerGone
    /\ LET safe == RetrySafe(Last(cur)) IN
        /\ Close(Last(cur), "interrupted", ~safe)
        /\ GotoNote("stopStep", IF safe THEN "plain" ELSE "reconcile")
    /\ UNCHANGED <<attempts, dispatched, output, verdict, fenced>>
    /\ UNCHANGED <<planVars, stepVars, crashes>>

StopStep ==
    /\ Executing("stopStep")
    /\ stepStatus' = [stepStatus EXCEPT ![cur] = "failed"]
    /\ stepErr' = [stepErr EXCEPT ![cur] = note]
    /\ Goto("stopPlan")
    /\ UNCHANGED <<confirmed, outRef>>
    /\ UNCHANGED <<planVars, runVars, worldVars, crashes>>

StopPlan ==
    /\ Executing("stopPlan")
    /\ planStatus' = "cancelled"
    /\ Finish
    /\ UNCHANGED <<wfEvent, wfVerdict, wfPending>>
    /\ UNCHANGED <<stepVars, runVars, worldVars, crashes>>

-----------------------------------------------------------------------------
(* store_step_output: the version, its evidence and its binding to the run    *)
(* commit together.                                                           *)
StoreOutput ==
    /\ Executing("store")
    /\ runStatus[Last(cur)] = "running" /\ output[Last(cur)] = NoOutput
    /\ output' = [output EXCEPT ![Last(cur)] = ParentVersions(cur)]
    /\ Goto("seal")
    /\ UNCHANGED <<attempts, runStatus, dispatched, unknown, verdict, fenced>>
    /\ UNCHANGED <<planVars, stepVars, worldVars, crashes>>

(* The output or its evidence is refused: the run fails, the step will carry  *)
(* a marker because the tool did succeed.                                     *)
StoreFails ==
    /\ Executing("store")
    /\ Close(Last(cur), "failed", FALSE)
    /\ GotoNote("fail", "reconcile")
    /\ UNCHANGED <<attempts, dispatched, output, verdict, fenced>>
    /\ UNCHANGED <<planVars, stepVars, worldVars, crashes>>

(* finish_step_run(succeeded): only with a matching immutable binding.        *)
SealRun ==
    /\ Executing("seal") /\ output[Last(cur)] # NoOutput
    /\ Close(Last(cur), "succeeded", FALSE)
    /\ Goto("bind")
    /\ UNCHANGED <<attempts, dispatched, output, verdict, fenced>>
    /\ UNCHANGED <<planVars, stepVars, worldVars, crashes>>

BindOutput ==
    /\ Executing("bind")
    /\ outRef' = [outRef EXCEPT ![cur] = attempts[cur]]
    /\ Goto("complete")
    /\ UNCHANGED <<stepStatus, stepErr, confirmed>>
    /\ UNCHANGED <<planVars, runVars, worldVars, crashes>>

-----------------------------------------------------------------------------
(* complete_step, called by the executor, by recovery and by reconciliation.  *)
Bound == <<cur, outRef[cur]>>

(* Mutation: a retried completion reviews the output again.                   *)
ReviewAgain ==
    /\ pc = "complete" /\ Authentic(cur, outRef[cur])
    /\ \E v \in {"pass", "fail"} :
        /\ verdict' = [verdict EXCEPT ![Bound] = v]
        /\ IF v = "pass" THEN Goto("publish") ELSE GotoNote("fail", "plain")
    /\ UNCHANGED <<attempts, runStatus, dispatched, unknown, output, fenced>>
    /\ UNCHANGED <<planVars, stepVars, worldVars, crashes>>

(* The review of an output is made once and frozen before any event is        *)
(* published; a retry of the completion reads the frozen one.                 *)
Review ==
    /\ pc = "complete" /\ Authentic(cur, outRef[cur])
    /\ \E v \in {"pass", "fail"} :
        /\ verdict[Bound] \in {"none", v}
        /\ verdict' = [verdict EXCEPT ![Bound] = v]
        /\ IF v = "pass" THEN Goto("publish") ELSE GotoNote("fail", "plain")
    /\ UNCHANGED <<attempts, runStatus, dispatched, unknown, output, fenced>>
    /\ UNCHANGED <<planVars, stepVars, worldVars, crashes>>

(* Binding checks or the reviewer raise; a checkpoint frozen for other inputs *)
(* always does.                                                               *)
ReviewRaises ==
    /\ pc = "complete"
    /\ GotoNote("fail", "reconcile")
    /\ UNCHANGED <<planVars, stepVars, runVars, worldVars, crashes>>

(* step.completed reaches every required hook; claims are refused once the    *)
(* plan is cancelled.                                                         *)
Publish ==
    /\ pc = "publish" /\ ~(cur \in Hooked /\ Cancelled)
    /\ Goto("mark")
    /\ UNCHANGED <<planVars, stepVars, runVars, worldVars, crashes>>

PublishFails ==
    /\ pc = "publish" /\ cur \in Hooked
    /\ GotoNote("fail", "reconcile")
    /\ UNCHANGED <<planVars, stepVars, runVars, worldVars, crashes>>

MarkDone ==
    /\ pc = "mark"
    /\ stepStatus' = [stepStatus EXCEPT ![cur] = "done"]
    /\ stepErr' = [stepErr EXCEPT ![cur] = "none"]
    /\ Return
    /\ UNCHANGED <<confirmed, outRef>>
    /\ UNCHANGED <<planVars, runVars, worldVars, crashes>>

(* Mutation: a failed completion leaves the step in checking.                 *)
FailStepChecking ==
    /\ pc = "fail"
    /\ stepStatus' = [stepStatus EXCEPT ![cur] = IF @ = "checking" THEN @ ELSE "failed"]
    /\ stepErr' = [stepErr EXCEPT ![cur] = IF note = "skip" THEN "plain" ELSE note]
    /\ Return
    /\ UNCHANGED <<confirmed, outRef>>
    /\ UNCHANGED <<planVars, runVars, worldVars, crashes>>

(* The step is written with the error in note.                                *)
FailStep ==
    /\ pc = "fail"
    /\ stepStatus' = [stepStatus EXCEPT ![cur] = IF note = "skip" THEN "skipped" ELSE "failed"]
    /\ stepErr' = [stepErr EXCEPT ![cur] = IF note = "skip" THEN "plain" ELSE note]
    /\ Return
    /\ UNCHANGED <<confirmed, outRef>>
    /\ UNCHANGED <<planVars, runVars, worldVars, crashes>>

-----------------------------------------------------------------------------
(* _finalize and complete_workflow, for the executor and for reconciliation.  *)
(* An incomplete plan fails; a final review that doubts the goal leaves the   *)
(* plan to a human.                                                           *)
FinalizeUnpublished ==
    /\ pc = "finalize"
    /\ SetPlan(IF AllComplete THEN "review" ELSE "failed")
    /\ IF Cancelled /\ mode = "reconcile" THEN Goto("wfError") ELSE Finish
    /\ UNCHANGED <<wfEvent, wfVerdict, wfPending>>
    /\ UNCHANGED <<stepVars, runVars, worldVars, crashes>>

(* prepare_workflow_completion: the obligation, then the checkpoint.          *)
FreezeEvent ==
    /\ pc = "finalize" /\ AllComplete
    /\ wfEvent' = TRUE
    /\ Goto("checkpoint")
    /\ UNCHANGED <<planStatus, wfVerdict, wfPending>>
    /\ UNCHANGED <<stepVars, runVars, worldVars, crashes>>

FreezeCheckpoint ==
    /\ pc = "checkpoint"
    /\ \E v \in {"done", "failed"} :
        wfVerdict' = IF wfVerdict = "none" THEN v ELSE wfVerdict
    /\ Goto("wfReview")
    /\ UNCHANGED <<planStatus, wfEvent, wfPending>>
    /\ UNCHANGED <<stepVars, runVars, worldVars, crashes>>

(* running -> review; a plan cancelled meanwhile makes the completion fail.   *)
WorkflowReview ==
    /\ pc = "wfReview"
    /\ IF Cancelled THEN UNCHANGED planStatus /\ Goto("wfError")
                    ELSE planStatus' = "review" /\ Goto("wfPublish")
    /\ UNCHANGED <<wfEvent, wfVerdict, wfPending>>
    /\ UNCHANGED <<stepVars, runVars, worldVars, crashes>>

WorkflowPublish ==
    /\ pc = "wfPublish"
    /\ Goto("wfFinal") \/ (WorkflowHooked /\ Goto("wfError"))
    /\ UNCHANGED <<planVars, stepVars, runVars, worldVars, crashes>>

(* review -> the frozen status.                                               *)
WorkflowFinal ==
    /\ pc = "wfFinal"
    /\ planStatus' = wfVerdict
    /\ IF mode = "reconcile" THEN Goto("record") ELSE Finish
    /\ UNCHANGED <<wfEvent, wfVerdict, wfPending>>
    /\ UNCHANGED <<stepVars, runVars, worldVars, crashes>>

(* hook_completion_failed is recorded, then the plan fails.                   *)
WorkflowError ==
    /\ pc = "wfError"
    /\ wfPending' = TRUE
    /\ Goto("wfFail")
    /\ UNCHANGED <<planStatus, wfEvent, wfVerdict>>
    /\ UNCHANGED <<stepVars, runVars, worldVars, crashes>>

WorkflowFail ==
    /\ pc = "wfFail"
    /\ SetPlan("failed")
    /\ Finish
    /\ UNCHANGED <<wfEvent, wfVerdict, wfPending>>
    /\ UNCHANGED <<stepVars, runVars, worldVars, crashes>>

ExecutorNext ==
    \/ MarkJobRunning \/ EnterEnded \/ EnterRejected
    \/ StopBetweenSteps \/ EnterRun \/ LoopCancelled \/ FailPlan \/ LoopFinalize
    \/ GateStep \/ GatePlan \/ ChooseStep \/ SetRunning \/ StartFails \/ StartRun
    \/ RejectBeforeDispatch \/ Dispatch \/ Invoke \/ ToolSucceeds \/ ReceiptMissing
    \/ ToolFails \/ ToolRaises \/ StopDuringStep \/ StopStep \/ StopPlan
    \/ StoreOutput \/ StoreFails \/ SealRun \/ BindOutput
    \/ Review \/ ReviewRaises \/ Publish \/ PublishFails \/ MarkDone \/ FailStep
    \/ FinalizeUnpublished \/ FreezeEvent \/ FreezeCheckpoint
    \/ WorkflowReview \/ WorkflowPublish \/ WorkflowFinal \/ WorkflowError \/ WorkflowFail
=============================================================================
