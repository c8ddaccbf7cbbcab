---------------------------- MODULE PlanCommands ----------------------------
(* What a user does to a plan (marvis/routers/plans.py, the plan repository's *)
(* guarded writes, marvis/orchestrator/reconciliation.py).  Every command but *)
(* cancel takes the one active job of the task, so it starts when no process  *)
(* holds it.                                                                  *)
EXTENDS PlanLedger

JobFree == pc = "idle"
Queue   == pc' = "queued" /\ UNCHANGED <<cur, mode, note>>

ConfirmPlan ==
    /\ JobFree /\ planStatus = "validated"
    /\ planStatus' = "confirmed"
    /\ UNCHANGED <<wfEvent, wfVerdict, wfPending>>
    /\ UNCHANGED <<stepVars, runVars, worldVars, procVars, crashes>>

RunPlan ==
    /\ JobFree /\ planStatus \in {"confirmed", "awaiting", "running"}
    /\ Queue
    /\ UNCHANGED <<planVars, stepVars, runVars, worldVars, crashes>>

(* Takes no job: the running process only notices it at its next look.        *)
CancelPlan ==
    /\ pc # "down" /\ mode # "startup"
    /\ planStatus \in {"validated", "confirmed", "running", "awaiting"}
    /\ planStatus' = "cancelled"
    /\ UNCHANGED <<wfEvent, wfVerdict, wfPending>>
    /\ UNCHANGED <<stepVars, runVars, worldVars, procVars, crashes>>

(* One-shot: the step waits and is not confirmed yet.                         *)
ConfirmStep ==
    /\ JobFree
    /\ \E s \in Steps \ confirmed :
        stepStatus[s] = "awaiting" /\ confirmed' = confirmed \cup {s}
    /\ Queue
    /\ UNCHANGED <<stepStatus, stepErr, outRef>>
    /\ UNCHANGED <<planVars, runVars, worldVars, crashes>>

-----------------------------------------------------------------------------
Resume ==
    /\ planStatus' = "running"
    /\ UNCHANGED <<wfEvent, wfVerdict, wfPending>>

(* retry_failed_step: the target's confirmation survives only on request and  *)
(* with unchanged inputs.                                                     *)
RetryStep ==
    /\ JobFree /\ planStatus \in {"failed", "cancelled"}
    /\ \E s \in Steps, preserve, revise \in BOOLEAN :
        /\ stepStatus[s] = "failed"
        /\ Resettable(Closure({s}))
        /\ Reset(Closure({s}), IF preserve /\ ~revise THEN {s} ELSE {},
                 IF revise THEN {s} ELSE {})
    /\ Resume /\ Queue
    /\ UNCHANGED <<worldVars, crashes>>

(* apply_gate_adjustment: an earlier step is revised from a waiting gate; the *)
(* replacement inputs may equal the old ones.                                 *)
GateAdjust ==
    /\ JobFree /\ planStatus = "awaiting"
    /\ \E gate, root \in Steps, revise \in BOOLEAN :
        /\ stepStatus[gate] = "awaiting"
        /\ stepStatus[root] = "done" /\ gate \in Closure({root})
        /\ Resettable(Closure({root}))
        /\ Reset(Closure({root}), {}, IF revise THEN {root} ELSE {})
    /\ Queue
    /\ UNCHANGED <<planVars, worldVars, crashes>>

(* Mutation: no failed step is required below the rollback.                   *)
RollbackAnyFailedPlan ==
    /\ JobFree /\ planStatus = "failed"
    /\ \E root \in Steps :
        /\ stepStatus[root] = "done"
        /\ Resettable(Closure({root}))
        /\ Reset(Closure({root}), {}, {root})
    /\ Resume /\ Queue
    /\ UNCHANGED <<worldVars, crashes>>

(* rollback_failed_plan_from_step: a completed ancestor of the failed step is *)
(* revised.                                                                   *)
Rollback ==
    /\ JobFree /\ planStatus = "failed"
    /\ \E root, s \in Steps :
        /\ stepStatus[root] = "done" /\ stepStatus[s] = "failed"
        /\ s \in Closure({root})
        /\ Resettable(Closure({root}))
        /\ Reset(Closure({root}), {}, {root})
    /\ Resume /\ Queue
    /\ UNCHANGED <<worldVars, crashes>>

-----------------------------------------------------------------------------
(* ExecutionReconciler: targets exist for these plans only.                   *)
Reconcilable ==
    /\ JobFree
    /\ planStatus \in {"failed", "running", "review", "cancelled"}

(* Steps the reconciler offers: an uncertain one, or one left in checking.    *)
Offered(s) ==
    \/ stepStatus[s] \in {"failed", "running"} /\ Unreconciled(s)
    \/ stepStatus[s] = "checking"

(* Mutation: a fence is taken from an invocation whose worker has ended.      *)
ReconcileFencedEnded ==
    /\ Reconcilable
    /\ \E s \in Steps :
        /\ Offered(s) /\ HasRun(s) /\ outRef[s] = 0
        /\ Last(s) \notin workers
        /\ fenced' = fenced \cup {Last(s)}
        /\ stepErr' = [stepErr EXCEPT ![s] = "plain"]
    /\ UNCHANGED <<attempts, runStatus, dispatched, unknown, output, verdict>>
    /\ UNCHANGED <<stepStatus, confirmed, outRef>>
    /\ UNCHANGED <<planVars, worldVars, procVars, crashes>>

(* The producer's receipt proves the call was not applied and cannot be any   *)
(* more: the run is fenced and the marker is replaced.                        *)
ReconcileFenced ==
    /\ Reconcilable
    /\ \E s \in Steps :
        /\ Offered(s) /\ HasRun(s) /\ outRef[s] = 0
        /\ Last(s) \notin applied
        /\ fenced' = fenced \cup {Last(s)}
        /\ stepErr' = [stepErr EXCEPT ![s] = "plain"]
    /\ UNCHANGED <<attempts, runStatus, dispatched, unknown, output, verdict>>
    /\ UNCHANGED <<stepStatus, confirmed, outRef>>
    /\ UNCHANGED <<planVars, worldVars, procVars, crashes>>

(* The receipt proves the call was applied: its original output is stored for *)
(* the run, without running the tool.  A cancelled plan keeps the step failed.*)
ReconcileApplied ==
    /\ Reconcilable
    /\ \E s \in Steps :
        /\ Offered(s) /\ HasRun(s) /\ outRef[s] = 0
        /\ s \in Contracted /\ Last(s) \in applied
        /\ runStatus[Last(s)] \in {"failed", "interrupted", "running"}
        /\ output[Last(s)] = NoOutput
        /\ runStatus' = [runStatus EXCEPT ![Last(s)] = "succeeded"]
        /\ unknown' = unknown \ {Last(s)}
        /\ output' = [output EXCEPT ![Last(s)] = ParentVersions(s)]
        /\ outRef' = [outRef EXCEPT ![s] = attempts[s]]
        /\ IF planStatus = "cancelled"
           THEN /\ stepStatus' = [stepStatus EXCEPT ![s] = "failed"]
                /\ stepErr' = [stepErr EXCEPT ![s] = "reconcile"]
                /\ UNCHANGED procVars
           ELSE /\ stepStatus' = [stepStatus EXCEPT ![s] = "checking"]
                /\ stepErr' = [stepErr EXCEPT ![s] = "none"]
                /\ pc' = "reopen" /\ cur' = s /\ mode' = "reconcile" /\ note' = "none"
    /\ UNCHANGED <<attempts, dispatched, verdict, fenced, confirmed>>
    /\ UNCHANGED <<planVars, worldVars, crashes>>

(* A completion that stopped after the output was bound; for a cancelled plan *)
(* the user asks for resume_completion explicitly.                            *)
Resumed == IF planStatus = "cancelled" THEN "resume" ELSE "none"

ReconcileCompletion ==
    /\ Reconcilable
    /\ \E s \in Steps :
        /\ Offered(s) /\ HasRun(s) /\ outRef[s] # 0
        /\ Authentic(s, outRef[s]) /\ outRef[s] = attempts[s]
        /\ cur' = s
    /\ pc' = "reopen" /\ mode' = "reconcile" /\ note' = Resumed
    /\ UNCHANGED <<planVars, stepVars, runVars, worldVars, crashes>>

(* A workflow completion that failed, or froze its obligation and no          *)
(* checkpoint.                                                                *)
ReconcileWorkflow ==
    /\ Reconcilable \/ (JobFree /\ planStatus = "done" /\ wfPending)
    /\ wfPending \/ (wfEvent /\ AllComplete /\ wfVerdict = "none")
    /\ pc' = "reopen" /\ mode' = "reconcile" /\ note' = Resumed /\ UNCHANGED cur
    /\ UNCHANGED <<planVars, stepVars, runVars, worldVars, crashes>>

-----------------------------------------------------------------------------
(* _finish_completion: one transaction reopens the plan and the step, unless  *)
(* the plan was cancelled after the request was read.                         *)
Closing == planStatus \in {"failed", "cancelled"}
Refused == planStatus = "cancelled" /\ note # "resume"

ReopenStep ==
    /\ pc = "reopen" /\ cur # NoStep
    /\ IF Refused
       THEN Finish /\ UNCHANGED <<planStatus, stepStatus, stepErr>>
       ELSE /\ stepStatus' = [stepStatus EXCEPT ![cur] = IF @ = "failed" THEN "checking" ELSE @]
            /\ stepErr' = [stepErr EXCEPT ![cur] = IF stepStatus[cur] = "failed" THEN "none" ELSE @]
            /\ planStatus' = IF Closing THEN "running" ELSE planStatus
            /\ GotoNote("complete", "none")
    /\ UNCHANGED <<wfEvent, wfVerdict, wfPending, confirmed, outRef>>
    /\ UNCHANGED <<runVars, worldVars, crashes>>

ReopenWorkflow ==
    /\ pc = "reopen" /\ cur = NoStep
    /\ IF Refused
       THEN Finish /\ UNCHANGED planStatus
       ELSE /\ planStatus' = IF Closing THEN "review" ELSE planStatus
            /\ GotoNote(IF wfVerdict = "none" THEN "finalize"
                        ELSE IF planStatus = "done" THEN "record" ELSE "wfReview", "none")
    /\ UNCHANGED <<wfEvent, wfVerdict, wfPending>>
    /\ UNCHANGED <<stepVars, runVars, worldVars, crashes>>

(* The step's completion failed or was rejected: the plan fails too.          *)
SettleFailed ==
    /\ pc = "settle" /\ stepStatus[cur] = "failed"
    /\ IF planStatus = "cancelled"
       THEN UNCHANGED planStatus /\ stepErr' = [stepErr EXCEPT ![cur] = "reconcile"]
       ELSE planStatus' = "failed" /\ UNCHANGED stepErr
    /\ Finish
    /\ UNCHANGED <<wfEvent, wfVerdict, wfPending, stepStatus, confirmed, outRef>>
    /\ UNCHANGED <<runVars, worldVars, crashes>>

(* The step is done; the last one goes on to the workflow's completion.       *)
SettleDone ==
    /\ pc = "settle" /\ stepStatus[cur] = "done"
    /\ Goto(IF ~AllComplete THEN "record"
            ELSE IF wfVerdict = "none" THEN "finalize" ELSE "wfReview")
    /\ UNCHANGED <<planVars, stepVars, runVars, worldVars, crashes>>

(* _record_completion: this resolution covers the failures recorded so far.   *)
RecordCompletion ==
    /\ pc = "record"
    /\ wfPending' = FALSE
    /\ Finish
    /\ UNCHANGED <<planStatus, wfEvent, wfVerdict>>
    /\ UNCHANGED <<stepVars, runVars, worldVars, crashes>>

ReconcilerNext ==
    ReopenStep \/ ReopenWorkflow \/ SettleFailed \/ SettleDone \/ RecordCompletion

UserNext ==
    \/ ConfirmPlan \/ RunPlan \/ CancelPlan \/ ConfirmStep
    \/ RetryStep \/ GateAdjust \/ Rollback
    \/ ReconcileFenced \/ ReconcileApplied \/ ReconcileCompletion \/ ReconcileWorkflow
=============================================================================
