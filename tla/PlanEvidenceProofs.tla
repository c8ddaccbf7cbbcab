--------------------------- MODULE PlanEvidenceProofs ---------------------------
(* What the ledger and the results of a plan say is true, for every plan: the *)
(* invariant EvidenceInv and the properties that follow from it.              *)
EXTENDS PlanExecutionProofs, FiniteSetTheorems

(* Executor: it works on the one step it took when none was unfinished.       *)
LEMMA ExecutorPlace ==
    ASSUME TypeOK, ControlOK, PlaceOK, FrozenOK, ExecutorNext
    PROVE  PlaceOK'
<1> USE DEF PlaceOK, StepLabels, Unfinished, InFlight, NoneInFlight, AnyFailed,
     TypeOK, StepTypeOK, NoStep, planVars, stepVars, procVars
<1>1. CASE MarkJobRunning
    BY <1>1 DEF MarkJobRunning
<1>2. CASE EnterEnded
    BY <1>2 DEF EnterEnded, Executing, Goto, Finish, Frozen, Runnable
<1>3. CASE EnterRejected
    BY <1>3 DEF EnterRejected, Executing, Finish, Runnable
<1>4. CASE StopBetweenSteps
    BY <1>4 DEF StopBetweenSteps, Executing, Finish, Frozen, Runnable
<1>5. CASE EnterRun
    BY <1>5 DEF EnterRun, Executing, Frozen, Runnable
<1>6. CASE LoopCancelled
    BY <1>6 DEF LoopCancelled, Executing, Finish, Cancelled
<1>7. CASE FailPlan
    BY <1>7 DEF FailPlan, Executing, Finish, Cancelled, NextReady, Ready
<1>8. CASE LoopFinalize
    BY <1>8 DEF LoopFinalize, Executing, Goto, Cancelled, Ready
<1>9. CASE GateStep
    BY <1>9 DEF GateStep, Executing, Goto, Cancelled, NextReady, Ready
<1>10. CASE GatePlan
    BY <1>10 DEF GatePlan, Executing, Finish, SetPlan, Cancelled
<1>11. CASE ChooseStep
    BY <1>11 DEF ChooseStep, Executing, Cancelled, NextReady, Ready
<1>12. CASE SetRunning
    BY <1>12 DEF SetRunning, Executing, Goto, ControlOK, Waiting
<1>13. CASE StartFails
    BY <1>13 DEF StartFails, Executing, GotoNote
<1>14. CASE StartRun
    BY <1>14 DEF StartRun, Executing, Goto
<1>15. CASE RejectBeforeDispatch
    BY <1>15 DEF RejectBeforeDispatch, Executing, GotoNote, Close
<1>16. CASE Dispatch
    BY <1>16 DEF Dispatch, Executing, Goto
<1>17. CASE Invoke
    BY <1>17 DEF Invoke, Executing, Goto
<1>18. CASE ToolSucceeds
    BY <1>18 DEF ToolSucceeds, Executing, Goto, WorkerGone
<1>19. CASE ReceiptMissing
    BY <1>19 DEF ReceiptMissing, Executing, GotoNote, Close, WorkerGone
<1>20. CASE ToolFails
    BY <1>20 DEF ToolFails, Executing, GotoNote, Close, WorkerGone
<1>21. CASE ToolRaises
    BY <1>21 DEF ToolRaises, Executing, GotoNote, Close, WorkerGone
<1>22. CASE StopDuringStep
    BY <1>22 DEF StopDuringStep, Executing, GotoNote, Close, WorkerGone
<1>23. CASE StopStep
    BY <1>23 DEF StopStep, Executing, Goto
<1>24. CASE StopPlan
    BY <1>24 DEF StopPlan, Executing, Finish
<1>25. CASE StoreOutput
    BY <1>25 DEF StoreOutput, Executing, Goto
<1>26. CASE StoreFails
    BY <1>26 DEF StoreFails, Executing, GotoNote, Close
<1>27. CASE SealRun
    BY <1>27 DEF SealRun, Executing, Goto, Close
<1>28. CASE BindOutput
    BY <1>28 DEF BindOutput, Executing, Goto
<1>29. CASE Review
    BY <1>29 DEF Review, Goto, GotoNote, Bound
<1>30. CASE ReviewRaises
    BY <1>30 DEF ReviewRaises, GotoNote
<1>31. CASE Publish
    BY <1>31 DEF Publish, Goto, Cancelled
<1>32. CASE PublishFails
    BY <1>32 DEF PublishFails, GotoNote
<1>33. CASE MarkDone
    BY <1>33 DEF MarkDone, Return, ControlOK
<1>34. CASE FailStep
    BY <1>34 DEF FailStep, Return, ControlOK
<1>35. CASE FinalizeUnpublished
    BY <1>35 DEF FinalizeUnpublished, Goto, Finish, SetPlan, Cancelled
<1>36. CASE FreezeEvent
    BY <1>36 DEF FreezeEvent, Goto
<1>37. CASE FreezeCheckpoint
    BY <1>37 DEF FreezeCheckpoint, Goto
<1>38. CASE WorkflowReview
    BY <1>38 DEF WorkflowReview, Goto, Cancelled
<1>39. CASE WorkflowPublish
    BY <1>39 DEF WorkflowPublish, Goto
<1>40. CASE WorkflowFinal
    BY <1>40 DEF WorkflowFinal, Goto, Finish, ControlOK, PlanTypeOK
<1>41. CASE WorkflowError
    BY <1>41 DEF WorkflowError, Goto
<1>42. CASE WorkflowFail
    BY <1>42 DEF WorkflowFail, Finish, SetPlan, Cancelled
<1> QED BY <1>1, <1>2, <1>3, <1>4, <1>5, <1>6, <1>7, <1>8, <1>9, <1>10, <1>11,
     <1>12, <1>13, <1>14, <1>15, <1>16, <1>17, <1>18, <1>19, <1>20, <1>21,
     <1>22, <1>23, <1>24, <1>25, <1>26, <1>27, <1>28, <1>29, <1>30, <1>31,
     <1>32, <1>33, <1>34, <1>35, <1>36, <1>37, <1>38, <1>39, <1>40, <1>41,
     <1>42 DEF ExecutorNext

(* Recovery: it works on the step it found in flight.                         *)
LEMMA RecoveryPlace ==
    ASSUME TypeOK, ControlOK, PlaceOK, FrozenOK, RecoveryNext
    PROVE  PlaceOK'
<1> USE DEF PlaceOK, StepLabels, Unfinished, InFlight, NoneInFlight, AnyFailed,
     TypeOK, StepTypeOK, NoStep, planVars, stepVars, procVars
<1>1. CASE Restart
    BY <1>1 DEF Restart
<1>2. CASE RecoverStep
    BY <1>2 DEF RecoverStep, Recovering
<1>3. CASE CloseRunsForOutput
    BY <1>3 DEF CloseRunsForOutput, Goto
<1>4. CASE Authenticate
    BY <1>4 DEF Authenticate, Goto, GotoNote
<1>5. CASE InterruptRuns
    BY <1>5 DEF InterruptRuns, Goto
<1>6. CASE RecoveryEnds
    BY <1>6 DEF RecoveryEnds
<1>7. CASE ReclaimCompletion
    BY <1>7 DEF ReclaimCompletion, Goto
<1>8. CASE Reclaim
    BY <1>8 DEF Reclaim, Finish
<1> QED BY <1>1, <1>2, <1>3, <1>4, <1>5, <1>6, <1>7, <1>8 DEF RecoveryNext

(* Reconciler: its step is unfinished from the request on.                    *)
LEMMA ReconcilerPlace ==
    ASSUME TypeOK, ControlOK, PlaceOK, FrozenOK, ReconcilerNext
    PROVE  PlaceOK'
<1> USE DEF PlaceOK, StepLabels, Unfinished, InFlight, NoneInFlight, AnyFailed,
     TypeOK, StepTypeOK, NoStep, planVars, stepVars, procVars
<1>1. CASE ReopenStep
    BY <1>1 DEF ReopenStep, GotoNote, Finish, Closing, Refused, ProcTypeOK
<1>2. CASE ReopenWorkflow
    BY <1>2 DEF ReopenWorkflow, GotoNote, Finish, Closing, Refused
<1>3. CASE SettleFailed
    BY <1>3 DEF SettleFailed, Finish
<1>4. CASE SettleDone
    BY <1>4 DEF SettleDone, Goto
<1>5. CASE RecordCompletion
    BY <1>5 DEF RecordCompletion, Finish
<1> QED BY <1>1, <1>2, <1>3, <1>4, <1>5 DEF ReconcilerNext

(* A user: a command that takes the job starts with no step in flight but the *)
(* one it names; a reset only takes steps out of flight.                      *)
LEMMA UserPlace ==
    ASSUME TypeOK, ControlOK, PlaceOK, FrozenOK, UserNext
    PROVE  PlaceOK'
<1> USE DEF PlaceOK, StepLabels, Unfinished, InFlight, NoneInFlight, AnyFailed,
     TypeOK, StepTypeOK, NoStep, planVars, stepVars, procVars
<1>1. CASE ConfirmPlan
    BY <1>1 DEF ConfirmPlan, JobFree
<1>2. CASE RunPlan
    BY <1>2 DEF RunPlan, Queue, JobFree
<1>3. CASE CancelPlan
    BY <1>3 DEF CancelPlan
<1>4. CASE ConfirmStep
    BY <1>4 DEF ConfirmStep, Queue, JobFree
<1>5. CASE RetryStep
    BY <1>5 DEF RetryStep, Queue, JobFree, Resume, Reset
<1>6. CASE GateAdjust
    BY <1>6 DEF GateAdjust, Queue, JobFree, Reset
<1>7. CASE Rollback
    BY <1>7 DEF Rollback, Queue, JobFree, Resume, Reset
<1>8. CASE ReconcileFenced
    BY <1>8 DEF ReconcileFenced, Reconcilable, Offered, JobFree
<1>9. CASE ReconcileApplied
    BY <1>9 DEF ReconcileApplied, Reconcilable, Offered, JobFree
<1>10. CASE ReconcileCompletion
    BY <1>10 DEF ReconcileCompletion, Resumed, Reconcilable, Offered, JobFree
<1>11. CASE ReconcileWorkflow
    BY <1>11 DEF ReconcileWorkflow, JobFree, Resumed, Reconcilable, FrozenOK
<1> QED BY <1>1, <1>2, <1>3, <1>4, <1>5, <1>6, <1>7, <1>8, <1>9, <1>10, <1>11 DEF UserNext

-----------------------------------------------------------------------------
(* Executor: a step it writes is unfinished or waits, so nothing is frozen    *)
(* yet; the checkpoint follows the obligation, and a done plan is out of its  *)
(* reach.                                                                     *)
LEMMA ExecutorFrozen ==
    ASSUME TypeOK, ControlOK, PlaceOK, FrozenOK, FrozenCompletionStable, ExecutorNext
    PROVE  FrozenOK' /\ FrozenCompletionStable' /\ DoneKept
<1> USE DEF FrozenOK, FrozenCompletionStable, AllComplete, Complete, InFlight,
     TypeOK, PlanTypeOK, StepTypeOK, NoStep, planVars, stepVars, procVars,
     DoneKept, worldVars
<1>1. CASE MarkJobRunning
    BY <1>1 DEF MarkJobRunning
<1>2. CASE EnterEnded
    BY <1>2 DEF EnterEnded, Executing, Goto, Finish, Frozen, Runnable
<1>3. CASE EnterRejected
    BY <1>3 DEF EnterRejected, Executing, Finish, Runnable
<1>4. CASE StopBetweenSteps
    BY <1>4 DEF StopBetweenSteps, Executing, Finish, Frozen, Runnable
<1>5. CASE EnterRun
    BY <1>5 DEF EnterRun, Executing, Frozen, Runnable
<1>6. CASE LoopCancelled
    BY <1>6 DEF LoopCancelled, Executing, Finish, Cancelled
<1>7. CASE FailPlan
    BY <1>7 DEF FailPlan, Executing, Finish, Cancelled, NextReady, AnyFailed,
       Ready
<1>8. CASE LoopFinalize
    BY <1>8 DEF LoopFinalize, Executing, Goto, Cancelled, Ready, AnyFailed
<1>9. CASE GateStep
    BY <1>9 DEF GateStep, Executing, Goto, Cancelled, NextReady, AnyFailed,
       Ready
<1>10. CASE GatePlan
    BY <1>10 DEF GatePlan, Executing, Finish, SetPlan, Cancelled
<1>11. CASE ChooseStep
    BY <1>11 DEF ChooseStep, Executing, Cancelled, NextReady, AnyFailed, Ready
<1>12. CASE SetRunning
    BY <1>12 DEF SetRunning, Executing, Goto, ControlOK, Waiting
<1>13. CASE StartFails
    BY <1>13 DEF StartFails, Executing, GotoNote
<1>14. CASE StartRun
    BY <1>14 DEF StartRun, Executing, Goto
<1>15. CASE RejectBeforeDispatch
    BY <1>15 DEF RejectBeforeDispatch, Executing, GotoNote, Close
<1>16. CASE Dispatch
    BY <1>16 DEF Dispatch, Executing, Goto
<1>17. CASE Invoke
    BY <1>17 DEF Invoke, Executing, Goto
<1>18. CASE ToolSucceeds
    BY <1>18 DEF ToolSucceeds, Executing, Goto, WorkerGone, ControlOK, PlaceOK,
       StepLabels
<1>19. CASE ReceiptMissing
    BY <1>19 DEF ReceiptMissing, Executing, GotoNote, Close, WorkerGone
<1>20. CASE ToolFails
    BY <1>20 DEF ToolFails, Executing, GotoNote, Close, WorkerGone
<1>21. CASE ToolRaises
    BY <1>21 DEF ToolRaises, Executing, GotoNote, Close, WorkerGone
<1>22. CASE StopDuringStep
    BY <1>22 DEF StopDuringStep, Executing, GotoNote, Close, WorkerGone
<1>23. CASE StopStep
    BY <1>23 DEF StopStep, Executing, Goto, ControlOK, PlaceOK, StepLabels
<1>24. CASE StopPlan
    BY <1>24 DEF StopPlan, Executing, Finish
<1>25. CASE StoreOutput
    BY <1>25 DEF StoreOutput, Executing, Goto
<1>26. CASE StoreFails
    BY <1>26 DEF StoreFails, Executing, GotoNote, Close
<1>27. CASE SealRun
    BY <1>27 DEF SealRun, Executing, Goto, Close
<1>28. CASE BindOutput
    BY <1>28 DEF BindOutput, Executing, Goto
<1>29. CASE Review
    BY <1>29 DEF Review, Goto, GotoNote, Bound
<1>30. CASE ReviewRaises
    BY <1>30 DEF ReviewRaises, GotoNote
<1>31. CASE Publish
    BY <1>31 DEF Publish, Goto, Cancelled
<1>32. CASE PublishFails
    BY <1>32 DEF PublishFails, GotoNote
<1>33. CASE MarkDone
    BY <1>33 DEF MarkDone, Return, ControlOK
<1>34. CASE FailStep
    BY <1>34 DEF FailStep, Return, ControlOK, PlaceOK, StepLabels
<1>35. CASE FinalizeUnpublished
    BY <1>35 DEF FinalizeUnpublished, Goto, Finish, SetPlan, Cancelled
<1>36. CASE FreezeEvent
    BY <1>36 DEF FreezeEvent, Goto
<1>37. CASE FreezeCheckpoint
    BY <1>37 DEF FreezeCheckpoint, Goto
<1>38. CASE WorkflowReview
    BY <1>38 DEF WorkflowReview, Goto, Cancelled
<1>39. CASE WorkflowPublish
    BY <1>39 DEF WorkflowPublish, Goto
<1>40. CASE WorkflowFinal
    BY <1>40 DEF WorkflowFinal, Goto, Finish, ControlOK
<1>41. CASE WorkflowError
    BY <1>41 DEF WorkflowError, Goto
<1>42. CASE WorkflowFail
    BY <1>42 DEF WorkflowFail, Finish, SetPlan, Cancelled
<1> QED BY <1>1, <1>2, <1>3, <1>4, <1>5, <1>6, <1>7, <1>8, <1>9, <1>10, <1>11,
     <1>12, <1>13, <1>14, <1>15, <1>16, <1>17, <1>18, <1>19, <1>20, <1>21,
     <1>22, <1>23, <1>24, <1>25, <1>26, <1>27, <1>28, <1>29, <1>30, <1>31,
     <1>32, <1>33, <1>34, <1>35, <1>36, <1>37, <1>38, <1>39, <1>40, <1>41,
     <1>42 DEF ExecutorNext

(* Recovery: the steps it settles are in flight, so nothing is frozen yet.    *)
LEMMA RecoveryFrozen ==
    ASSUME TypeOK, ControlOK, PlaceOK, FrozenOK, FrozenCompletionStable, RecoveryNext
    PROVE  FrozenOK' /\ FrozenCompletionStable' /\ DoneKept
<1> USE DEF FrozenOK, FrozenCompletionStable, AllComplete, Complete, InFlight,
     TypeOK, PlanTypeOK, StepTypeOK, NoStep, planVars, stepVars, procVars,
     DoneKept, worldVars
<1>1. CASE Restart
    BY <1>1 DEF Restart
<1>2. CASE RecoverStep
    BY <1>2 DEF RecoverStep, Recovering
<1>3. CASE CloseRunsForOutput
    BY <1>3 DEF CloseRunsForOutput, Goto
<1>4. CASE Authenticate
    BY <1>4 DEF Authenticate, Goto, GotoNote, ControlOK, PlaceOK, StepLabels
<1>5. CASE InterruptRuns
    BY <1>5 DEF InterruptRuns, Goto
<1>6. CASE RecoveryEnds
    BY <1>6 DEF RecoveryEnds, NoneInFlight
<1>7. CASE ReclaimCompletion
    BY <1>7 DEF ReclaimCompletion, Goto, NoneInFlight
<1>8. CASE Reclaim
    BY <1>8 DEF Reclaim, Finish, NoneInFlight
<1> QED BY <1>1, <1>2, <1>3, <1>4, <1>5, <1>6, <1>7, <1>8 DEF RecoveryNext

(* Reconciler: a step it reopens is unfinished, so the plan is not frozen; a  *)
(* frozen workflow is only completed, and a done one only recorded.           *)
LEMMA ReconcilerFrozen ==
    ASSUME TypeOK, ControlOK, PlaceOK, FrozenOK, FrozenCompletionStable, ReconcilerNext
    PROVE  FrozenOK' /\ FrozenCompletionStable' /\ DoneKept
<1> USE DEF FrozenOK, FrozenCompletionStable, AllComplete, Complete, InFlight,
     TypeOK, PlanTypeOK, StepTypeOK, NoStep, planVars, stepVars, procVars,
     DoneKept, worldVars
<1>1. CASE ReopenStep
    BY <1>1 DEF ReopenStep, GotoNote, Finish, Closing, Refused, ProcTypeOK,
       PlaceOK, Unfinished
<1>2. CASE ReopenWorkflow
    BY <1>2 DEF ReopenWorkflow, GotoNote, Finish, Closing, Refused
<1>3. CASE SettleFailed
    BY <1>3 DEF SettleFailed, Finish
<1>4. CASE SettleDone
    BY <1>4 DEF SettleDone, Goto, ControlOK
<1>5. CASE RecordCompletion
    BY <1>5 DEF RecordCompletion, Finish
<1> QED BY <1>1, <1>2, <1>3, <1>4, <1>5 DEF ReconcilerNext

(* A user: every reset needs a failed or a waiting step, which a frozen plan  *)
(* does not have; a done plan is only reconciled.                             *)
LEMMA UserFrozen ==
    ASSUME TypeOK, ControlOK, PlaceOK, FrozenOK, FrozenCompletionStable, UserNext
    PROVE  FrozenOK' /\ FrozenCompletionStable' /\ DoneKept
<1> USE DEF FrozenOK, FrozenCompletionStable, AllComplete, Complete, InFlight,
     TypeOK, PlanTypeOK, StepTypeOK, NoStep, planVars, stepVars, procVars,
     DoneKept, worldVars
<1>1. CASE ConfirmPlan
    BY <1>1 DEF ConfirmPlan, JobFree
<1>2. CASE RunPlan
    BY <1>2 DEF RunPlan, Queue, JobFree
<1>3. CASE CancelPlan
    BY <1>3 DEF CancelPlan
<1>4. CASE ConfirmStep
    BY <1>4 DEF ConfirmStep, Queue, JobFree
<1>5. CASE RetryStep
    BY <1>5 DEF RetryStep, Queue, JobFree, Resume, Reset
<1>6. CASE GateAdjust
    BY <1>6 DEF GateAdjust, Queue, JobFree, Reset
<1>7. CASE Rollback
    BY <1>7 DEF Rollback, Queue, JobFree, Resume, Reset
<1>8. CASE ReconcileFenced
    BY <1>8 DEF ReconcileFenced, Reconcilable, Offered, JobFree
<1>9. CASE ReconcileApplied
    BY <1>9 DEF ReconcileApplied, Reconcilable, Offered, JobFree
<1>10. CASE ReconcileCompletion
    BY <1>10 DEF ReconcileCompletion, Resumed, Reconcilable, Offered, JobFree
<1>11. CASE ReconcileWorkflow
    BY <1>11 DEF ReconcileWorkflow, JobFree, Resumed, Reconcilable
<1> QED BY <1>1, <1>2, <1>3, <1>4, <1>5, <1>6, <1>7, <1>8, <1>9, <1>10, <1>11 DEF UserNext

-----------------------------------------------------------------------------
(* A closure contains what it closes, and everything that depends on it.      *)
LEMMA ClosureClosed ==
    ASSUME NEW S \in SUBSET Steps
    PROVE  S \subseteq Closure(S) /\ Closure(S) \subseteq Steps /\ Closed(Closure(S))
<1>1. S \subseteq Closure(S) /\ Closure(S) \subseteq Steps
    BY DEF Closure
<1>2. ASSUME NEW s \in Steps, Deps[s] \cap Closure(S) # {} PROVE s \in Closure(S)
  <2>1. PICK d \in Deps[s] : d \in Closure(S)
      BY <1>2
  <2>2. ASSUME NEW C \in SUBSET Steps, S \subseteq C, Closed(C) PROVE s \in C
      BY <2>1, <2>2 DEF Closure, Closed
  <2> QED BY <2>2 DEF Closure
<1> QED BY <1>1, <1>2 DEF Closed

(* The closure of one step holds no earlier step.                             *)
LEMMA ClosureAbove ==
    ASSUME NEW s \in Steps
    PROVE  \A t \in Closure({s}) : ~ (t < s)
<1> DEFINE C == {t \in Steps : ~ (t < s)}
<1>1. {s} \subseteq C
    BY StepsAssumption
<1>2. ASSUME NEW t \in Steps, Deps[t] \cap C # {} PROVE t \in C
  <2>1. PICK d \in Deps[t] : d \in C
      BY <1>2
  <2>2. d \in Nat /\ t \in Nat /\ s \in Nat /\ d < t
      BY <2>1, StepsAssumption, DepsAssumption
  <2> QED BY <2>1, <2>2
<1>3. Closed(C) /\ C \in SUBSET Steps
    BY <1>2 DEF Closed
<1>4. Closure({s}) \subseteq C
  <2> HIDE DEF C
  <2> QED BY <1>1, <1>3 DEF Closure
<1> QED BY <1>4

(* What a reset leaves behind: a step outside the closure keeps its parents,  *)
(* and the confirmation of a kept step stands on earlier ones.                *)
LEMMA ResetGraph ==
    ASSUME TypeOK, GraphOK, NEW s \in Steps, NEW K, K \subseteq {s}, NEW V,
           Reset(Closure({s}), K, V), pc' # "execute"
    PROVE  GraphOK'
<1> DEFINE C == Closure({s})
<1>1. s \in C /\ C \subseteq Steps /\ Closed(C)
    BY ClosureClosed
<1>2. \A t \in Steps \ C : \A d \in Deps[t] : d \in Steps \ C
    BY <1>1, DepsAssumption DEF Closed
<1>3. \A d \in Deps[s] : d \in Steps \ C
  <2> SUFFICES ASSUME NEW d \in Deps[s] PROVE d \in Steps \ C
      OBVIOUS
  <2>1. d \in Steps /\ d < s
      BY DepsAssumption
  <2> QED BY <2>1, ClosureAbove
<1> HIDE DEF C
<1>4. /\ stepStatus' = [t \in Steps |-> IF t \in C THEN "pending" ELSE stepStatus[t]]
      /\ confirmed' = confirmed \ (C \ K)
    BY DEF Reset, C
<1>5. \A t \in Steps : t \notin C \/ t = s =>
          (ParentsComplete(t) => ParentsComplete(t)')
    BY <1>2, <1>3, <1>4 DEF ParentsComplete
<1>6. \A t \in Steps : stepStatus'[t] # "pending" => ParentsComplete(t)'
    BY <1>4, <1>5 DEF GraphOK
<1>7. \A t \in confirmed' : ParentsComplete(t)'
    BY <1>4, <1>5 DEF GraphOK, TypeOK, StepTypeOK
<1>8. \A t \in Gated : ~ Waiting(t)' => t \in confirmed'
    BY <1>4, KindAssumption DEF GraphOK, Waiting
<1> QED BY <1>6, <1>7, <1>8 DEF GraphOK

(* An unfinished step may move: no step that has begun waits for it.          *)
LEMMA UnfinishedGraph ==
    ASSUME TypeOK, GraphOK, NEW s \in Steps, Unfinished(s), NEW v \in StepStatuses,
           stepStatus' = [stepStatus EXCEPT ![s] = v], v # "pending", confirmed' = confirmed,
           pc' # "execute"
    PROVE  GraphOK'
<1>1. stepStatus[s] \notin Complete /\ ~ Waiting(s) /\ stepStatus[s] # "pending"
    BY DEF Unfinished, InFlight, Complete, Waiting
<1>2. \A t \in Steps : ParentsComplete(t) => ParentsComplete(t)'
    BY <1>1, DepsAssumption DEF ParentsComplete, TypeOK, StepTypeOK
<1>3. \A t \in Steps : ~ Waiting(t)' => ~ Waiting(t)
    BY <1>1 DEF TypeOK, StepTypeOK, Waiting
<1>4. \A t \in Steps : stepStatus'[t] # "pending" => stepStatus[t] # "pending"
    BY <1>1 DEF TypeOK, StepTypeOK
<1>5. confirmed \subseteq Steps /\ Gated \subseteq Steps
    BY KindAssumption DEF TypeOK, StepTypeOK
<1> QED BY <1>2, <1>3, <1>4, <1>5 DEF GraphOK

(* Executor: it begins a step whose parents are complete and which is         *)
(* confirmed, and a step it ends was unfinished.                              *)
LEMMA ExecutorGraph ==
    ASSUME TypeOK, ControlOK, PlaceOK, GraphOK, ExecutorNext
    PROVE  GraphOK'
<1> USE DEF GraphOK, ParentsComplete, Waiting, Complete, TypeOK, StepTypeOK,
     stepVars, procVars
<1>1. CASE MarkJobRunning
    BY <1>1 DEF MarkJobRunning
<1>2. CASE EnterEnded
    BY <1>2 DEF EnterEnded, Executing, Goto, Finish, Frozen, Runnable
<1>3. CASE EnterRejected
    BY <1>3 DEF EnterRejected, Executing, Finish, Runnable
<1>4. CASE StopBetweenSteps
    BY <1>4 DEF StopBetweenSteps, Executing, Finish, Frozen, Runnable
<1>5. CASE EnterRun
    BY <1>5 DEF EnterRun, Executing, Frozen, Runnable
<1>6. CASE LoopCancelled
    BY <1>6 DEF LoopCancelled, Executing, Finish, Cancelled
<1>7. CASE FailPlan
    BY <1>7 DEF FailPlan, Executing, Finish, Cancelled, NextReady, AnyFailed,
       Ready
<1>8. CASE LoopFinalize
    BY <1>8 DEF LoopFinalize, Executing, Goto, Cancelled, Ready, AnyFailed
<1>9. CASE GateStep
    BY <1>9 DEF GateStep, Executing, Goto, Cancelled, NextReady, AnyFailed,
       Ready, Ready
<1>10. CASE GatePlan
    BY <1>10 DEF GatePlan, Executing, Finish, SetPlan, Cancelled
<1>11. CASE ChooseStep
    BY <1>11 DEF ChooseStep, Executing, Cancelled, NextReady, AnyFailed, Ready
<1>12. CASE SetRunning
    BY <1>12 DEF SetRunning, Executing, Goto, ControlOK, PlaceOK, StepLabels,
       InFlight
<1>13. CASE StartFails
    BY <1>13 DEF StartFails, Executing, GotoNote
<1>14. CASE StartRun
    BY <1>14 DEF StartRun, Executing, Goto
<1>15. CASE RejectBeforeDispatch
    BY <1>15 DEF RejectBeforeDispatch, Executing, GotoNote, Close
<1>16. CASE Dispatch
    BY <1>16 DEF Dispatch, Executing, Goto
<1>17. CASE Invoke
    BY <1>17 DEF Invoke, Executing, Goto
<1>18. CASE ToolSucceeds
    BY <1>18 DEF ToolSucceeds, Executing, Goto, WorkerGone, ControlOK, PlaceOK,
       StepLabels, InFlight
<1>19. CASE ReceiptMissing
    BY <1>19 DEF ReceiptMissing, Executing, GotoNote, Close, WorkerGone
<1>20. CASE ToolFails
    BY <1>20 DEF ToolFails, Executing, GotoNote, Close, WorkerGone
<1>21. CASE ToolRaises
    BY <1>21 DEF ToolRaises, Executing, GotoNote, Close, WorkerGone
<1>22. CASE StopDuringStep
    BY <1>22 DEF StopDuringStep, Executing, GotoNote, Close, WorkerGone
<1>23. CASE StopStep
    BY <1>23 DEF StopStep, Executing, Goto, ControlOK, PlaceOK, StepLabels,
       InFlight
<1>24. CASE StopPlan
    BY <1>24 DEF StopPlan, Executing, Finish
<1>25. CASE StoreOutput
    BY <1>25 DEF StoreOutput, Executing, Goto
<1>26. CASE StoreFails
    BY <1>26 DEF StoreFails, Executing, GotoNote, Close
<1>27. CASE SealRun
    BY <1>27 DEF SealRun, Executing, Goto, Close
<1>28. CASE BindOutput
    BY <1>28 DEF BindOutput, Executing, Goto
<1>29. CASE Review
    BY <1>29 DEF Review, Goto, GotoNote, Bound
<1>30. CASE ReviewRaises
    BY <1>30 DEF ReviewRaises, GotoNote
<1>31. CASE Publish
    BY <1>31 DEF Publish, Goto, Cancelled
<1>32. CASE PublishFails
    BY <1>32 DEF PublishFails, GotoNote
<1>33. CASE MarkDone
    BY <1>33 DEF MarkDone, Return, ControlOK, PlaceOK, StepLabels, InFlight
<1>34. CASE FailStep
    BY <1>34 DEF FailStep, Return, ControlOK, PlaceOK, StepLabels, InFlight
<1>35. CASE FinalizeUnpublished
    BY <1>35 DEF FinalizeUnpublished, Goto, Finish, SetPlan, Cancelled
<1>36. CASE FreezeEvent
    BY <1>36 DEF FreezeEvent, Goto
<1>37. CASE FreezeCheckpoint
    BY <1>37 DEF FreezeCheckpoint, Goto
<1>38. CASE WorkflowReview
    BY <1>38 DEF WorkflowReview, Goto, Cancelled
<1>39. CASE WorkflowPublish
    BY <1>39 DEF WorkflowPublish, Goto
<1>40. CASE WorkflowFinal
    BY <1>40 DEF WorkflowFinal, Goto, Finish
<1>41. CASE WorkflowError
    BY <1>41 DEF WorkflowError, Goto
<1>42. CASE WorkflowFail
    BY <1>42 DEF WorkflowFail, Finish, SetPlan, Cancelled
<1> QED BY <1>1, <1>2, <1>3, <1>4, <1>5, <1>6, <1>7, <1>8, <1>9, <1>10, <1>11,
     <1>12, <1>13, <1>14, <1>15, <1>16, <1>17, <1>18, <1>19, <1>20, <1>21,
     <1>22, <1>23, <1>24, <1>25, <1>26, <1>27, <1>28, <1>29, <1>30, <1>31,
     <1>32, <1>33, <1>34, <1>35, <1>36, <1>37, <1>38, <1>39, <1>40, <1>41,
     <1>42 DEF ExecutorNext

(* Recovery: the step it moves to checking was in flight.                     *)
LEMMA RecoveryGraph ==
    ASSUME TypeOK, ControlOK, PlaceOK, GraphOK, RecoveryNext
    PROVE  GraphOK'
<1> USE DEF GraphOK, ParentsComplete, Waiting, Complete, TypeOK, StepTypeOK,
     stepVars, procVars
<1>1. CASE Restart
    BY <1>1 DEF Restart
<1>2. CASE RecoverStep
    BY <1>2 DEF RecoverStep, Recovering
<1>3. CASE CloseRunsForOutput
    BY <1>3 DEF CloseRunsForOutput, Goto
<1>4. CASE Authenticate
  <2>1. cur \in Steps /\ Unfinished(cur)
      BY <1>4 DEF Authenticate, ControlOK, PlaceOK, StepLabels, Unfinished
  <2>2. CASE Authentic(cur, outRef[cur])
      BY <1>4, <2>1, <2>2, UnfinishedGraph DEF Authenticate, Goto, StepStatuses
  <2>3. CASE ~ Authentic(cur, outRef[cur])
      BY <1>4, <2>3 DEF Authenticate, GotoNote
  <2> QED BY <2>2, <2>3
<1>5. CASE InterruptRuns
    BY <1>5 DEF InterruptRuns, Goto
<1>6. CASE RecoveryEnds
    BY <1>6 DEF RecoveryEnds, NoneInFlight
<1>7. CASE ReclaimCompletion
    BY <1>7 DEF ReclaimCompletion, Goto, NoneInFlight
<1>8. CASE Reclaim
    BY <1>8 DEF Reclaim, Finish, NoneInFlight
<1> QED BY <1>1, <1>2, <1>3, <1>4, <1>5, <1>6, <1>7, <1>8 DEF RecoveryNext

(* Reconciler: the step it moves to checking was unfinished.                  *)
LEMMA ReconcilerGraph ==
    ASSUME TypeOK, ControlOK, PlaceOK, GraphOK, ReconcilerNext
    PROVE  GraphOK'
<1> USE DEF GraphOK, ParentsComplete, Waiting, Complete, TypeOK, StepTypeOK,
     stepVars, procVars
<1>1. CASE ReopenStep
  <2>1. cur \in Steps /\ Unfinished(cur)
      BY <1>1 DEF ReopenStep, ProcTypeOK, PlaceOK
  <2>2. CASE Refused
      BY <1>1, <2>2 DEF ReopenStep, Finish
  <2>3. CASE ~ Refused
    <3>1. PICK v \in {"checking", stepStatus[cur]} : stepStatus' = [stepStatus EXCEPT ![cur] = v]
        BY <1>1, <2>3 DEF ReopenStep
    <3>2. v \in StepStatuses /\ v # "pending"
        BY <2>1, <3>1 DEF StepStatuses, Unfinished, InFlight
    <3> QED BY <1>1, <2>1, <2>3, <3>1, <3>2, UnfinishedGraph DEF ReopenStep, GotoNote
  <2> QED BY <2>2, <2>3
<1>2. CASE ReopenWorkflow
    BY <1>2 DEF ReopenWorkflow, GotoNote, Finish, Closing, Refused
<1>3. CASE SettleFailed
    BY <1>3 DEF SettleFailed, Finish
<1>4. CASE SettleDone
    BY <1>4 DEF SettleDone, Goto
<1>5. CASE RecordCompletion
    BY <1>5 DEF RecordCompletion, Finish
<1> QED BY <1>1, <1>2, <1>3, <1>4, <1>5 DEF ReconcilerNext

(* A user: a confirmation is given to a step that waits, and a reset          *)
(* invalidates a whole closure.                                               *)
LEMMA UserGraph ==
    ASSUME TypeOK, ControlOK, PlaceOK, GraphOK, UserNext
    PROVE  GraphOK'
<1> USE DEF GraphOK, ParentsComplete, Waiting, Complete, TypeOK, StepTypeOK,
     stepVars, procVars
<1>1. CASE ConfirmPlan
    BY <1>1 DEF ConfirmPlan, JobFree
<1>2. CASE RunPlan
    BY <1>2 DEF RunPlan, Queue, JobFree
<1>3. CASE CancelPlan
    BY <1>3 DEF CancelPlan
<1>4. CASE ConfirmStep
    BY <1>4 DEF ConfirmStep, Queue, JobFree
<1>5. CASE RetryStep
    BY <1>5, ResetGraph DEF RetryStep, Queue
<1>6. CASE GateAdjust
    BY <1>6, ResetGraph DEF GateAdjust, Queue
<1>7. CASE Rollback
    BY <1>7, ResetGraph DEF Rollback, Queue
<1>8. CASE ReconcileFenced
    BY <1>8 DEF ReconcileFenced, Reconcilable, Offered, JobFree
<1>9. CASE ReconcileApplied
  <2>1. PICK s \in Steps :
            /\ Offered(s)
            /\ stepStatus' \in {[stepStatus EXCEPT ![s] = "failed"],
                               [stepStatus EXCEPT ![s] = "checking"]}
      BY <1>9 DEF ReconcileApplied
  <2>2. Unfinished(s) /\ pc' # "execute" /\ confirmed' = confirmed
      BY <1>9, <2>1 DEF ReconcileApplied, Offered, Unfinished, InFlight, Reconcilable, JobFree
  <2> QED BY <2>1, <2>2, UnfinishedGraph DEF StepStatuses
<1>10. CASE ReconcileCompletion
    BY <1>10 DEF ReconcileCompletion, Resumed, Reconcilable, Offered, JobFree
<1>11. CASE ReconcileWorkflow
    BY <1>11 DEF ReconcileWorkflow, JobFree, Resumed, Reconcilable
<1> QED BY <1>1, <1>2, <1>3, <1>4, <1>5, <1>6, <1>7, <1>8, <1>9, <1>10, <1>11 DEF UserNext

-----------------------------------------------------------------------------
(* An open run is the last one of the unfinished step.                        *)
LEMMA OpenRunIsLast ==
    ASSUME PlaceOK, RunsOK, NEW s \in Steps, Unfinished(s),
           NEW r \in Runs, runStatus[r] = "running"
    PROVE  r = Last(s)
<1>1. r[1] \in Steps
    BY DEF Runs
<1>2. Unfinished(r[1]) /\ r = Last(r[1])
    BY <1>1 DEF RunsOK, Unfinished
<1> QED BY <1>1, <1>2 DEF PlaceOK

(* So closing that run leaves no run open.                                    *)
LEMMA ClosedRuns ==
    ASSUME TypeOK, PlaceOK, RunsOK, NEW s \in Steps, Unfinished(s),
           NEW status \in RunStatuses \ {"running"},
           runStatus' = [runStatus EXCEPT ![Last(s)] = status]
    PROVE  RunsOK'
<1>1. \A r \in Runs : runStatus'[r] # "running"
    BY OpenRunIsLast DEF TypeOK, RunTypeOK
<1> QED BY <1>1 DEF RunsOK

(* A failed step, or no step in flight, means no open run.                    *)
LEMMA NoOpenRun ==
    ASSUME PlaceOK, RunsOK, NoneInFlight \/ AnyFailed
    PROVE  \A r \in Runs : runStatus[r] # "running"
<1> SUFFICES ASSUME NEW r \in Runs, runStatus[r] = "running" PROVE FALSE
    OBVIOUS
<1>1. r[1] \in Steps /\ stepStatus[r[1]] \in InFlight
    BY DEF Runs, RunsOK
<1>2. CASE NoneInFlight
    BY <1>1, <1>2 DEF NoneInFlight
<1>3. CASE AnyFailed
  <2>1. PICK s \in Steps : stepStatus[s] = "failed"
      BY <1>3 DEF AnyFailed
  <2>2. s = r[1]
      BY <1>1, <2>1 DEF PlaceOK, Unfinished
  <2> QED BY <1>1, <2>1, <2>2 DEF InFlight
<1> QED BY <1>2, <1>3

(* Executor: it opens a run when none is open, and no step leaves flight      *)
(* before its run is closed.                                                  *)
LEMMA ExecutorRuns ==
    ASSUME TypeOK, ControlOK, PlaceOK, FrozenOK, RunsOK, ExecutorNext
    PROVE  RunsOK'
<1> USE DEF RunsOK, Last, InFlight, planVars, stepVars, runVars, procVars
<1>1. CASE MarkJobRunning
    BY <1>1 DEF MarkJobRunning
<1>2. CASE EnterEnded
    BY <1>2 DEF EnterEnded, Executing, Goto, Finish, Frozen, Runnable
<1>3. CASE EnterRejected
    BY <1>3 DEF EnterRejected, Executing, Finish, Runnable
<1>4. CASE StopBetweenSteps
    BY <1>4 DEF StopBetweenSteps, Executing, Finish, Frozen, Runnable
<1>5. CASE EnterRun
    BY <1>5 DEF EnterRun, Executing, Frozen, Runnable
<1>6. CASE LoopCancelled
    BY <1>6 DEF LoopCancelled, Executing, Finish, Cancelled
<1>7. CASE FailPlan
    BY <1>7 DEF FailPlan, Executing, Finish, Cancelled, NextReady, AnyFailed,
       Ready
<1>8. CASE LoopFinalize
    BY <1>8 DEF LoopFinalize, Executing, Goto, Cancelled, Ready, AnyFailed
<1>9. CASE GateStep
  <2>1. \A r \in Runs : runStatus[r] # "running"
      BY <1>9, NoOpenRun DEF GateStep, Executing, PlaceOK
  <2> QED BY <1>9, <2>1 DEF GateStep, Goto
<1>10. CASE GatePlan
    BY <1>10 DEF GatePlan, Executing, Finish, SetPlan, Cancelled
<1>11. CASE ChooseStep
    BY <1>11 DEF ChooseStep, Executing, Cancelled, NextReady, AnyFailed, Ready
<1>12. CASE SetRunning
  <2>1. \A r \in Runs : runStatus[r] # "running"
      BY <1>12, NoOpenRun DEF SetRunning, Executing, PlaceOK
  <2> QED BY <1>12, <2>1 DEF SetRunning, Goto
<1>13. CASE StartFails
    BY <1>13 DEF StartFails, Executing, GotoNote
<1>14. CASE StartRun
    BY <1>14 DEF StartRun, Executing, Goto, ControlOK, PlaceOK, StepLabels,
       TypeOK, RunTypeOK
<1>15. CASE RejectBeforeDispatch
  <2>1. cur \in Steps /\ Unfinished(cur)
      BY <1>15 DEF RejectBeforeDispatch, Executing, ControlOK, PlaceOK, StepLabels, Unfinished
  <2> QED BY <1>15, <2>1, ClosedRuns DEF RejectBeforeDispatch, Close, RunStatuses
<1>16. CASE Dispatch
    BY <1>16 DEF Dispatch, Executing, Goto
<1>17. CASE Invoke
    BY <1>17 DEF Invoke, Executing, Goto
<1>18. CASE ToolSucceeds
    BY <1>18 DEF ToolSucceeds, Executing, Goto, WorkerGone, ControlOK, PlaceOK,
       StepLabels, TypeOK, StepTypeOK
<1>19. CASE ReceiptMissing
  <2>1. cur \in Steps /\ Unfinished(cur)
      BY <1>19 DEF ReceiptMissing, Executing, ControlOK, PlaceOK, StepLabels, Unfinished
  <2> QED BY <1>19, <2>1, ClosedRuns DEF ReceiptMissing, Close, RunStatuses
<1>20. CASE ToolFails
  <2>1. cur \in Steps /\ Unfinished(cur)
      BY <1>20 DEF ToolFails, Executing, ControlOK, PlaceOK, StepLabels, Unfinished
  <2> QED BY <1>20, <2>1, ClosedRuns DEF ToolFails, Close, RunStatuses
<1>21. CASE ToolRaises
  <2>1. cur \in Steps /\ Unfinished(cur)
      BY <1>21 DEF ToolRaises, Executing, ControlOK, PlaceOK, StepLabels, Unfinished
  <2> QED BY <1>21, <2>1, ClosedRuns DEF ToolRaises, Close, RunStatuses
<1>22. CASE StopDuringStep
  <2>1. cur \in Steps /\ Unfinished(cur)
      BY <1>22 DEF StopDuringStep, Executing, ControlOK, PlaceOK, StepLabels, Unfinished
  <2> QED BY <1>22, <2>1, ClosedRuns DEF StopDuringStep, Close, RunStatuses
<1>23. CASE StopStep
    BY <1>23 DEF StopStep, Executing, Goto
<1>24. CASE StopPlan
    BY <1>24 DEF StopPlan, Executing, Finish
<1>25. CASE StoreOutput
    BY <1>25 DEF StoreOutput, Executing, Goto
<1>26. CASE StoreFails
  <2>1. cur \in Steps /\ Unfinished(cur)
      BY <1>26 DEF StoreFails, Executing, ControlOK, PlaceOK, StepLabels, Unfinished
  <2> QED BY <1>26, <2>1, ClosedRuns DEF StoreFails, Close, RunStatuses
<1>27. CASE SealRun
  <2>1. cur \in Steps /\ Unfinished(cur)
      BY <1>27 DEF SealRun, Executing, ControlOK, PlaceOK, StepLabels, Unfinished
  <2> QED BY <1>27, <2>1, ClosedRuns DEF SealRun, Close, RunStatuses
<1>28. CASE BindOutput
    BY <1>28 DEF BindOutput, Executing, Goto
<1>29. CASE Review
    BY <1>29 DEF Review, Goto, GotoNote, Bound
<1>30. CASE ReviewRaises
    BY <1>30 DEF ReviewRaises, GotoNote
<1>31. CASE Publish
    BY <1>31 DEF Publish, Goto, Cancelled
<1>32. CASE PublishFails
    BY <1>32 DEF PublishFails, GotoNote
<1>33. CASE MarkDone
    BY <1>33 DEF MarkDone, Return
<1>34. CASE FailStep
    BY <1>34 DEF FailStep, Return
<1>35. CASE FinalizeUnpublished
    BY <1>35 DEF FinalizeUnpublished, Goto, Finish, SetPlan, Cancelled
<1>36. CASE FreezeEvent
    BY <1>36 DEF FreezeEvent, Goto
<1>37. CASE FreezeCheckpoint
    BY <1>37 DEF FreezeCheckpoint, Goto
<1>38. CASE WorkflowReview
    BY <1>38 DEF WorkflowReview, Goto, Cancelled
<1>39. CASE WorkflowPublish
    BY <1>39 DEF WorkflowPublish, Goto
<1>40. CASE WorkflowFinal
    BY <1>40 DEF WorkflowFinal, Goto, Finish
<1>41. CASE WorkflowError
    BY <1>41 DEF WorkflowError, Goto
<1>42. CASE WorkflowFail
    BY <1>42 DEF WorkflowFail, Finish, SetPlan, Cancelled
<1> QED BY <1>1, <1>2, <1>3, <1>4, <1>5, <1>6, <1>7, <1>8, <1>9, <1>10, <1>11,
     <1>12, <1>13, <1>14, <1>15, <1>16, <1>17, <1>18, <1>19, <1>20, <1>21,
     <1>22, <1>23, <1>24, <1>25, <1>26, <1>27, <1>28, <1>29, <1>30, <1>31,
     <1>32, <1>33, <1>34, <1>35, <1>36, <1>37, <1>38, <1>39, <1>40, <1>41,
     <1>42 DEF ExecutorNext

(* Recovery: it closes every run of the step in flight before the step is     *)
(* settled.                                                                   *)
LEMMA RecoveryRuns ==
    ASSUME TypeOK, ControlOK, PlaceOK, FrozenOK, RunsOK, RecoveryNext
    PROVE  RunsOK'
<1> USE DEF RunsOK, Last, InFlight, planVars, stepVars, runVars, procVars
<1>1. CASE Restart
    BY <1>1 DEF Restart
<1>2. CASE RecoverStep
    BY <1>2 DEF RecoverStep, Recovering
<1>3. CASE CloseRunsForOutput
  <2>1. cur \in Steps /\ Unfinished(cur)
      BY <1>3 DEF CloseRunsForOutput, ControlOK, PlaceOK, StepLabels, Unfinished
  <2>2. \A r \in Runs : runStatus[r] = "running" => r \in RunningRuns(cur)
      BY <2>1, OpenRunIsLast DEF RunningRuns
  <2>3. \A r \in Runs : runStatus'[r] # "running"
      BY <1>3, <2>2 DEF CloseRunsForOutput
  <2> QED BY <2>3
<1>4. CASE Authenticate
    BY <1>4 DEF Authenticate, Goto, GotoNote
<1>5. CASE InterruptRuns
  <2>1. cur \in Steps /\ Unfinished(cur)
      BY <1>5 DEF InterruptRuns, ControlOK, PlaceOK, StepLabels, Unfinished
  <2>2. \A r \in Runs : runStatus[r] = "running" => r \in RunningRuns(cur)
      BY <2>1, OpenRunIsLast DEF RunningRuns
  <2>3. \A r \in Runs : runStatus'[r] # "running"
      BY <1>5, <2>2 DEF InterruptRuns
  <2> QED BY <2>3
<1>6. CASE RecoveryEnds
    BY <1>6 DEF RecoveryEnds, NoneInFlight
<1>7. CASE ReclaimCompletion
    BY <1>7 DEF ReclaimCompletion, Goto, NoneInFlight
<1>8. CASE Reclaim
    BY <1>8 DEF Reclaim, Finish, NoneInFlight
<1> QED BY <1>1, <1>2, <1>3, <1>4, <1>5, <1>6, <1>7, <1>8 DEF RecoveryNext

(* Reconciler: its step has no open run.                                      *)
LEMMA ReconcilerRuns ==
    ASSUME TypeOK, ControlOK, PlaceOK, FrozenOK, RunsOK, ReconcilerNext
    PROVE  RunsOK'
<1> USE DEF RunsOK, Last, InFlight, planVars, stepVars, runVars, procVars
<1>1. CASE ReopenStep
    BY <1>1 DEF ReopenStep, GotoNote, Finish, Closing, Refused
<1>2. CASE ReopenWorkflow
    BY <1>2 DEF ReopenWorkflow, GotoNote, Finish, Closing, Refused
<1>3. CASE SettleFailed
    BY <1>3 DEF SettleFailed, Finish
<1>4. CASE SettleDone
    BY <1>4 DEF SettleDone, Goto
<1>5. CASE RecordCompletion
    BY <1>5 DEF RecordCompletion, Finish
<1> QED BY <1>1, <1>2, <1>3, <1>4, <1>5 DEF ReconcilerNext

(* A user: a reset happens with no run open, and a reconciled run is closed   *)
(* with its step.                                                             *)
LEMMA UserRuns ==
    ASSUME TypeOK, ControlOK, PlaceOK, FrozenOK, RunsOK, UserNext
    PROVE  RunsOK'
<1> USE DEF RunsOK, Last, InFlight, planVars, stepVars, runVars, procVars
<1>1. CASE ConfirmPlan
    BY <1>1 DEF ConfirmPlan, JobFree
<1>2. CASE RunPlan
    BY <1>2 DEF RunPlan, Queue, JobFree
<1>3. CASE CancelPlan
    BY <1>3 DEF CancelPlan
<1>4. CASE ConfirmStep
    BY <1>4 DEF ConfirmStep, Queue, JobFree
<1>5. CASE RetryStep
  <2>1. \A r \in Runs : runStatus[r] # "running"
      BY <1>5, NoOpenRun DEF RetryStep, AnyFailed, PlaceOK
  <2> QED BY <1>5, <2>1 DEF RetryStep, Reset
<1>6. CASE GateAdjust
  <2>1. \A r \in Runs : runStatus[r] # "running"
      BY <1>6, NoOpenRun DEF GateAdjust, AnyFailed, PlaceOK
  <2> QED BY <1>6, <2>1 DEF GateAdjust, Reset
<1>7. CASE Rollback
  <2>1. \A r \in Runs : runStatus[r] # "running"
      BY <1>7, NoOpenRun DEF Rollback, AnyFailed, PlaceOK
  <2> QED BY <1>7, <2>1 DEF Rollback, Reset
<1>8. CASE ReconcileFenced
    BY <1>8 DEF ReconcileFenced, Reconcilable, Offered, JobFree
<1>9. CASE ReconcileApplied
  <2>1. PICK s \in Steps :
            /\ Offered(s)
            /\ runStatus' = [runStatus EXCEPT ![Last(s)] = "succeeded"]
      BY <1>9 DEF ReconcileApplied
  <2>2. Unfinished(s)
      BY <2>1 DEF Offered, Unfinished
  <2> QED BY <2>1, <2>2, ClosedRuns DEF RunStatuses
<1>10. CASE ReconcileCompletion
  <2>1. PICK s \in Steps : Offered(s) /\ runStatus[Last(s)] = "succeeded"
      BY <1>10 DEF ReconcileCompletion, Authentic
  <2>2. Unfinished(s)
      BY <2>1 DEF Offered, Unfinished
  <2>3. \A r \in Runs : runStatus[r] # "running"
      BY <2>1, <2>2, OpenRunIsLast
  <2> QED BY <1>10, <2>3 DEF ReconcileCompletion
<1>11. CASE ReconcileWorkflow
    BY <1>11 DEF ReconcileWorkflow, JobFree, Resumed, Reconcilable, FrozenOK
<1> QED BY <1>1, <1>2, <1>3, <1>4, <1>5, <1>6, <1>7, <1>8, <1>9, <1>10, <1>11 DEF UserNext

-----------------------------------------------------------------------------
(* What recovery takes as the evidence of a step is a stored output.          *)
LEMMA EvidenceStored ==
    ASSUME TypeOK, OutputsOK, LedgerTellsTheTruth, NEW s \in Steps, Evidence(s) # 0
    PROVE  output[<<s, Evidence(s)>>] # NoOutput
<1>1. \A V \in SUBSET (1..MaxAttempts) : V # {} => Newest(V) \in V
    BY NewestIn
<1>2. CASE outRef[s] # 0
    BY <1>2 DEF Evidence, OutputsOK
<1>3. CASE outRef[s] = 0 /\ Evidence(s) = Newest(SucceededVersions(s))
  <2>1. SucceededVersions(s) \in SUBSET (1..MaxAttempts) /\ SucceededVersions(s) # {}
      BY <1>3 DEF SucceededVersions, Newest
  <2>2. Evidence(s) \in SucceededVersions(s)
      BY <1>1, <1>3, <2>1
  <2>3. <<s, Evidence(s)>> \in Runs /\ runStatus[<<s, Evidence(s)>>] = "succeeded"
      BY <2>2 DEF SucceededVersions, Runs
  <2> QED BY <2>3 DEF LedgerTellsTheTruth
<1>4. CASE outRef[s] = 0 /\ Evidence(s) = Newest(OpenVersions(s))
  <2>1. OpenVersions(s) \in SUBSET (1..MaxAttempts) /\ OpenVersions(s) # {}
      BY <1>4 DEF OpenVersions, Newest
  <2>2. Evidence(s) \in OpenVersions(s)
      BY <1>1, <1>4, <2>1
  <2> QED BY <2>2 DEF OpenVersions
<1> QED BY <1>2, <1>3, <1>4 DEF Evidence

(* The versions a step's parents hold are an output.                          *)
LEMMA ParentVersionsStored ==
    ASSUME TypeOK, NEW s \in Steps
    PROVE  ParentVersions(s) # NoOutput
<1>1. ParentVersions(s) \in [Deps[s] -> Nat]
    BY DepsAssumption, BoundAssumption DEF TypeOK, StepTypeOK, ParentVersions, Versions
<1> QED BY <1>1, KindAssumption

(* A reset forgets what steps show, and nothing of the ledger.                *)
LEMMA ResetOutputs ==
    ASSUME TypeOK, OutputsOK, LedgerTellsTheTruth, NEW C, NEW K, NEW V, Reset(C, K, V),
           pc' = "queued", UNCHANGED worldVars
    PROVE  OutputsOK' /\ LedgerTellsTheTruth'
<1>1. \A s \in Steps : outRef'[s] # 0 => outRef'[s] = outRef[s]
    BY DEF Reset
<1>2. UNCHANGED <<runStatus, output, fenced, applied>>
    BY DEF Reset, worldVars
<1>3. OutputsOK'
    BY <1>1, <1>2 DEF OutputsOK
<1> QED BY <1>2, <1>3 DEF LedgerTellsTheTruth

(* Executor: an output is stored for an applied call, and a run is sealed     *)
(* with its output.                                                           *)
LEMMA ExecutorOutputs ==
    ASSUME TypeOK, ControlOK, OutputsOK, LedgerTellsTheTruth, ExecutorNext
    PROVE  OutputsOK' /\ LedgerTellsTheTruth'
<1> USE DEF OutputsOK, LedgerTellsTheTruth, Authentic, ParentVersions, Last,
     stepVars, runVars, worldVars, procVars
<1>1. CASE MarkJobRunning
    BY <1>1 DEF MarkJobRunning
<1>2. CASE EnterEnded
    BY <1>2 DEF EnterEnded, Executing, Goto, Finish, Frozen, Runnable
<1>3. CASE EnterRejected
    BY <1>3 DEF EnterRejected, Executing, Finish, Runnable
<1>4. CASE StopBetweenSteps
    BY <1>4 DEF StopBetweenSteps, Executing, Finish, Frozen, Runnable
<1>5. CASE EnterRun
    BY <1>5 DEF EnterRun, Executing, Frozen, Runnable
<1>6. CASE LoopCancelled
    BY <1>6 DEF LoopCancelled, Executing, Finish, Cancelled
<1>7. CASE FailPlan
    BY <1>7 DEF FailPlan, Executing, Finish, Cancelled, NextReady, AnyFailed,
       Ready
<1>8. CASE LoopFinalize
    BY <1>8 DEF LoopFinalize, Executing, Goto, Cancelled, Ready, AnyFailed
<1>9. CASE GateStep
    BY <1>9 DEF GateStep, Executing, Goto, Cancelled, NextReady, AnyFailed,
       Ready
<1>10. CASE GatePlan
    BY <1>10 DEF GatePlan, Executing, Finish, SetPlan, Cancelled
<1>11. CASE ChooseStep
    BY <1>11 DEF ChooseStep, Executing, Cancelled, NextReady, AnyFailed, Ready
<1>12. CASE SetRunning
    BY <1>12 DEF SetRunning, Executing, Goto
<1>13. CASE StartFails
    BY <1>13 DEF StartFails, Executing, GotoNote
<1>14. CASE StartRun
    BY <1>14 DEF StartRun, Executing, Goto
<1>15. CASE RejectBeforeDispatch
    BY <1>15 DEF RejectBeforeDispatch, Executing, GotoNote, Close
<1>16. CASE Dispatch
    BY <1>16 DEF Dispatch, Executing, Goto
<1>17. CASE Invoke
    BY <1>17 DEF Invoke, Executing, Goto
<1>18. CASE ToolSucceeds
    BY <1>18 DEF ToolSucceeds, Executing, Goto, WorkerGone
<1>19. CASE ReceiptMissing
    BY <1>19 DEF ReceiptMissing, Executing, GotoNote, Close, WorkerGone
<1>20. CASE ToolFails
    BY <1>20 DEF ToolFails, Executing, GotoNote, Close, WorkerGone
<1>21. CASE ToolRaises
    BY <1>21 DEF ToolRaises, Executing, GotoNote, Close, WorkerGone
<1>22. CASE StopDuringStep
    BY <1>22 DEF StopDuringStep, Executing, GotoNote, Close, WorkerGone
<1>23. CASE StopStep
    BY <1>23 DEF StopStep, Executing, Goto
<1>24. CASE StopPlan
    BY <1>24 DEF StopPlan, Executing, Finish
<1>25. CASE StoreOutput
    BY <1>25 DEF StoreOutput, Executing, Goto
<1>26. CASE StoreFails
    BY <1>26 DEF StoreFails, Executing, GotoNote, Close
<1>27. CASE SealRun
    BY <1>27 DEF SealRun, Executing, Goto, Close
<1>28. CASE BindOutput
    BY <1>28 DEF BindOutput, Executing, Goto
<1>29. CASE Review
    BY <1>29 DEF Review, Goto, GotoNote, Bound
<1>30. CASE ReviewRaises
    BY <1>30 DEF ReviewRaises, GotoNote
<1>31. CASE Publish
    BY <1>31 DEF Publish, Goto, Cancelled
<1>32. CASE PublishFails
    BY <1>32 DEF PublishFails, GotoNote
<1>33. CASE MarkDone
    BY <1>33 DEF MarkDone, Return
<1>34. CASE FailStep
    BY <1>34 DEF FailStep, Return
<1>35. CASE FinalizeUnpublished
    BY <1>35 DEF FinalizeUnpublished, Goto, Finish, SetPlan, Cancelled
<1>36. CASE FreezeEvent
    BY <1>36 DEF FreezeEvent, Goto
<1>37. CASE FreezeCheckpoint
    BY <1>37 DEF FreezeCheckpoint, Goto
<1>38. CASE WorkflowReview
    BY <1>38 DEF WorkflowReview, Goto, Cancelled
<1>39. CASE WorkflowPublish
    BY <1>39 DEF WorkflowPublish, Goto
<1>40. CASE WorkflowFinal
    BY <1>40 DEF WorkflowFinal, Goto, Finish
<1>41. CASE WorkflowError
    BY <1>41 DEF WorkflowError, Goto
<1>42. CASE WorkflowFail
    BY <1>42 DEF WorkflowFail, Finish, SetPlan, Cancelled
<1> QED BY <1>1, <1>2, <1>3, <1>4, <1>5, <1>6, <1>7, <1>8, <1>9, <1>10, <1>11,
     <1>12, <1>13, <1>14, <1>15, <1>16, <1>17, <1>18, <1>19, <1>20, <1>21,
     <1>22, <1>23, <1>24, <1>25, <1>26, <1>27, <1>28, <1>29, <1>30, <1>31,
     <1>32, <1>33, <1>34, <1>35, <1>36, <1>37, <1>38, <1>39, <1>40, <1>41,
     <1>42 DEF ExecutorNext

(* Recovery: what it adopts is stored, and only the run bound to it succeeds. *)
LEMMA RecoveryOutputs ==
    ASSUME TypeOK, ControlOK, OutputsOK, LedgerTellsTheTruth, RecoveryNext
    PROVE  OutputsOK' /\ LedgerTellsTheTruth'
<1> USE DEF OutputsOK, LedgerTellsTheTruth, Authentic, ParentVersions, Last,
     stepVars, runVars, worldVars, procVars
<1>1. CASE Restart
    BY <1>1 DEF Restart
<1>2. CASE RecoverStep
  <2>1. \A s \in Steps : Evidence(s) # 0 => output[<<s, Evidence(s)>>] # NoOutput
      BY EvidenceStored
  <2> QED BY <1>2, <2>1 DEF RecoverStep, TypeOK, StepTypeOK
<1>3. CASE CloseRunsForOutput
  <2>1. cur \in Steps
      BY <1>3 DEF CloseRunsForOutput, ControlOK
  <2>2. ASSUME NEW r \in Runs, runStatus'[r] = "succeeded"
        PROVE  runStatus[r] = "succeeded" \/ (output[r] # NoOutput /\ r \in applied)
    <3>1. CASE r = <<cur, outRef[cur]>>
      <4>1. outRef[cur] # 0
          BY <3>1, BoundAssumption DEF Runs
      <4> QED BY <2>1, <3>1, <4>1
    <3>2. CASE r # <<cur, outRef[cur]>>
        BY <1>3, <2>2, <3>2 DEF CloseRunsForOutput
    <3> QED BY <3>1, <3>2
  <2>3. pc' = "authenticate" /\ UNCHANGED <<output, applied, fenced, stepVars>>
      BY <1>3 DEF CloseRunsForOutput, Goto
  <2> QED BY <2>2, <2>3
<1>4. CASE Authenticate
    BY <1>4 DEF Authenticate, Goto, GotoNote
<1>5. CASE InterruptRuns
    BY <1>5 DEF InterruptRuns, Goto
<1>6. CASE RecoveryEnds
    BY <1>6 DEF RecoveryEnds, NoneInFlight
<1>7. CASE ReclaimCompletion
    BY <1>7 DEF ReclaimCompletion, Goto, NoneInFlight
<1>8. CASE Reclaim
    BY <1>8 DEF Reclaim, Finish, NoneInFlight
<1> QED BY <1>1, <1>2, <1>3, <1>4, <1>5, <1>6, <1>7, <1>8 DEF RecoveryNext

(* Reconciler: it writes no output and no run.                                *)
LEMMA ReconcilerOutputs ==
    ASSUME TypeOK, ControlOK, OutputsOK, LedgerTellsTheTruth, ReconcilerNext
    PROVE  OutputsOK' /\ LedgerTellsTheTruth'
<1> USE DEF OutputsOK, LedgerTellsTheTruth, Authentic, ParentVersions, Last,
     stepVars, runVars, worldVars, procVars
<1>1. CASE ReopenStep
    BY <1>1 DEF ReopenStep, GotoNote, Finish, Closing, Refused
<1>2. CASE ReopenWorkflow
    BY <1>2 DEF ReopenWorkflow, GotoNote, Finish, Closing, Refused
<1>3. CASE SettleFailed
    BY <1>3 DEF SettleFailed, Finish
<1>4. CASE SettleDone
    BY <1>4 DEF SettleDone, Goto
<1>5. CASE RecordCompletion
    BY <1>5 DEF RecordCompletion, Finish
<1> QED BY <1>1, <1>2, <1>3, <1>4, <1>5 DEF ReconcilerNext

(* A user: a fence needs a call that was not applied, an original output one  *)
(* that was; a reset only forgets what steps show.                            *)
LEMMA UserOutputs ==
    ASSUME TypeOK, ControlOK, OutputsOK, LedgerTellsTheTruth, UserNext
    PROVE  OutputsOK' /\ LedgerTellsTheTruth'
<1> USE DEF OutputsOK, LedgerTellsTheTruth, Authentic, ParentVersions, Last,
     stepVars, runVars, worldVars, procVars
<1>1. CASE ConfirmPlan
    BY <1>1 DEF ConfirmPlan, JobFree
<1>2. CASE RunPlan
    BY <1>2 DEF RunPlan, Queue, JobFree
<1>3. CASE CancelPlan
    BY <1>3 DEF CancelPlan
<1>4. CASE ConfirmStep
    BY <1>4 DEF ConfirmStep, Queue, JobFree
<1>5. CASE RetryStep
    BY <1>5, ResetOutputs DEF RetryStep, Queue
<1>6. CASE GateAdjust
    BY <1>6, ResetOutputs DEF GateAdjust, Queue
<1>7. CASE Rollback
    BY <1>7, ResetOutputs DEF Rollback, Queue
<1>8. CASE ReconcileFenced
    BY <1>8 DEF ReconcileFenced, Reconcilable, Offered, JobFree
<1>9. CASE ReconcileApplied
  <2>1. PICK s \in Steps :
            /\ HasRun(s) /\ Last(s) \in applied
            /\ runStatus' = [runStatus EXCEPT ![Last(s)] = "succeeded"]
            /\ output' = [output EXCEPT ![Last(s)] = ParentVersions(s)]
            /\ outRef' = [outRef EXCEPT ![s] = attempts[s]]
      BY <1>9 DEF ReconcileApplied
  <2>2. Last(s) \in Runs /\ ParentVersions(s) # NoOutput
      BY <2>1, LastRun, ParentVersionsStored
  <2>3. /\ pc' \notin {"store", "seal", "bind", "publish", "mark"}
        /\ UNCHANGED <<applied, fenced>>
      BY <1>9 DEF ReconcileApplied, Reconcilable, JobFree
  <2> HIDE DEF ParentVersions
  <2>4. \A r \in Runs : output'[r] # NoOutput => r \in applied
      BY <2>1, <2>2 DEF TypeOK, RunTypeOK
  <2>5. \A t \in Steps : outRef'[t] # 0 => output'[<<t, outRef'[t]>>] # NoOutput
      BY <2>1, <2>2 DEF TypeOK, RunTypeOK, StepTypeOK
  <2>6. \A r \in Runs : runStatus'[r] = "succeeded" => output'[r] # NoOutput /\ r \in applied
      BY <2>1, <2>2 DEF TypeOK, RunTypeOK
  <2>7. \A r \in Runs : r \in fenced => r \notin applied /\ runStatus'[r] # "succeeded"
      BY <2>1, <2>2 DEF TypeOK, RunTypeOK
  <2> QED BY <2>3, <2>4, <2>5, <2>6, <2>7
<1>10. CASE ReconcileCompletion
    BY <1>10 DEF ReconcileCompletion, Resumed, Reconcilable, Offered, JobFree
<1>11. CASE ReconcileWorkflow
    BY <1>11 DEF ReconcileWorkflow, JobFree, Resumed, Reconcilable
<1> QED BY <1>1, <1>2, <1>3, <1>4, <1>5, <1>6, <1>7, <1>8, <1>9, <1>10, <1>11 DEF UserNext

-----------------------------------------------------------------------------
(* Executor: a new attempt takes a row that does not exist, and only an open  *)
(* row is closed.                                                             *)
LEMMA ExecutorLedger ==
    ASSUME TypeOK, ControlOK, SettledLedger, ExecutorNext
    PROVE  LedgerKept
<1> USE DEF LedgerKept, Last, runVars
<1>1. CASE MarkJobRunning
    BY <1>1 DEF MarkJobRunning
<1>2. CASE EnterEnded
    BY <1>2 DEF EnterEnded, Executing, Goto, Finish, Frozen, Runnable
<1>3. CASE EnterRejected
    BY <1>3 DEF EnterRejected, Executing, Finish, Runnable
<1>4. CASE StopBetweenSteps
    BY <1>4 DEF StopBetweenSteps, Executing, Finish, Frozen, Runnable
<1>5. CASE EnterRun
    BY <1>5 DEF EnterRun, Executing, Frozen, Runnable
<1>6. CASE LoopCancelled
    BY <1>6 DEF LoopCancelled, Executing, Finish, Cancelled
<1>7. CASE FailPlan
    BY <1>7 DEF FailPlan, Executing, Finish, Cancelled, NextReady, AnyFailed,
       Ready
<1>8. CASE LoopFinalize
    BY <1>8 DEF LoopFinalize, Executing, Goto, Cancelled, Ready, AnyFailed
<1>9. CASE GateStep
    BY <1>9 DEF GateStep, Executing, Goto, Cancelled, NextReady, AnyFailed,
       Ready
<1>10. CASE GatePlan
    BY <1>10 DEF GatePlan, Executing, Finish, SetPlan, Cancelled
<1>11. CASE ChooseStep
    BY <1>11 DEF ChooseStep, Executing, Cancelled, NextReady, AnyFailed, Ready
<1>12. CASE SetRunning
    BY <1>12 DEF SetRunning, Executing, Goto
<1>13. CASE StartFails
    BY <1>13 DEF StartFails, Executing, GotoNote
<1>14. CASE StartRun
    BY <1>14 DEF StartRun, Executing, Goto, TypeOK, RunTypeOK, Runs, ControlOK,
       SettledLedger, Versions
<1>15. CASE RejectBeforeDispatch
    BY <1>15 DEF RejectBeforeDispatch, Executing, GotoNote, Close
<1>16. CASE Dispatch
    BY <1>16 DEF Dispatch, Executing, Goto
<1>17. CASE Invoke
    BY <1>17 DEF Invoke, Executing, Goto
<1>18. CASE ToolSucceeds
    BY <1>18 DEF ToolSucceeds, Executing, Goto, WorkerGone
<1>19. CASE ReceiptMissing
    BY <1>19 DEF ReceiptMissing, Executing, GotoNote, Close, WorkerGone
<1>20. CASE ToolFails
    BY <1>20 DEF ToolFails, Executing, GotoNote, Close, WorkerGone
<1>21. CASE ToolRaises
    BY <1>21 DEF ToolRaises, Executing, GotoNote, Close, WorkerGone
<1>22. CASE StopDuringStep
    BY <1>22 DEF StopDuringStep, Executing, GotoNote, Close, WorkerGone
<1>23. CASE StopStep
    BY <1>23 DEF StopStep, Executing, Goto
<1>24. CASE StopPlan
    BY <1>24 DEF StopPlan, Executing, Finish
<1>25. CASE StoreOutput
    BY <1>25 DEF StoreOutput, Executing, Goto
<1>26. CASE StoreFails
    BY <1>26 DEF StoreFails, Executing, GotoNote, Close
<1>27. CASE SealRun
    BY <1>27 DEF SealRun, Executing, Goto, Close
<1>28. CASE BindOutput
    BY <1>28 DEF BindOutput, Executing, Goto
<1>29. CASE Review
    BY <1>29 DEF Review, Goto, GotoNote, Bound
<1>30. CASE ReviewRaises
    BY <1>30 DEF ReviewRaises, GotoNote
<1>31. CASE Publish
    BY <1>31 DEF Publish, Goto, Cancelled
<1>32. CASE PublishFails
    BY <1>32 DEF PublishFails, GotoNote
<1>33. CASE MarkDone
    BY <1>33 DEF MarkDone, Return
<1>34. CASE FailStep
    BY <1>34 DEF FailStep, Return
<1>35. CASE FinalizeUnpublished
    BY <1>35 DEF FinalizeUnpublished, Goto, Finish, SetPlan, Cancelled
<1>36. CASE FreezeEvent
    BY <1>36 DEF FreezeEvent, Goto
<1>37. CASE FreezeCheckpoint
    BY <1>37 DEF FreezeCheckpoint, Goto
<1>38. CASE WorkflowReview
    BY <1>38 DEF WorkflowReview, Goto, Cancelled
<1>39. CASE WorkflowPublish
    BY <1>39 DEF WorkflowPublish, Goto
<1>40. CASE WorkflowFinal
    BY <1>40 DEF WorkflowFinal, Goto, Finish
<1>41. CASE WorkflowError
    BY <1>41 DEF WorkflowError, Goto
<1>42. CASE WorkflowFail
    BY <1>42 DEF WorkflowFail, Finish, SetPlan, Cancelled
<1> QED BY <1>1, <1>2, <1>3, <1>4, <1>5, <1>6, <1>7, <1>8, <1>9, <1>10, <1>11,
     <1>12, <1>13, <1>14, <1>15, <1>16, <1>17, <1>18, <1>19, <1>20, <1>21,
     <1>22, <1>23, <1>24, <1>25, <1>26, <1>27, <1>28, <1>29, <1>30, <1>31,
     <1>32, <1>33, <1>34, <1>35, <1>36, <1>37, <1>38, <1>39, <1>40, <1>41,
     <1>42 DEF ExecutorNext

(* Recovery: only open rows are closed.                                       *)
LEMMA RecoveryLedger ==
    ASSUME TypeOK, ControlOK, SettledLedger, RecoveryNext
    PROVE  LedgerKept
<1> USE DEF LedgerKept, Last, runVars
<1>1. CASE Restart
    BY <1>1 DEF Restart
<1>2. CASE RecoverStep
    BY <1>2 DEF RecoverStep, Recovering
<1>3. CASE CloseRunsForOutput
    BY <1>3 DEF CloseRunsForOutput, Goto, RunningRuns
<1>4. CASE Authenticate
    BY <1>4 DEF Authenticate, Goto, GotoNote
<1>5. CASE InterruptRuns
    BY <1>5 DEF InterruptRuns, Goto, RunningRuns
<1>6. CASE RecoveryEnds
    BY <1>6 DEF RecoveryEnds, NoneInFlight
<1>7. CASE ReclaimCompletion
    BY <1>7 DEF ReclaimCompletion, Goto, NoneInFlight
<1>8. CASE Reclaim
    BY <1>8 DEF Reclaim, Finish, NoneInFlight
<1> QED BY <1>1, <1>2, <1>3, <1>4, <1>5, <1>6, <1>7, <1>8 DEF RecoveryNext

(* Reconciler: the ledger is read, never written.                             *)
LEMMA ReconcilerLedger ==
    ASSUME TypeOK, ControlOK, SettledLedger, ReconcilerNext
    PROVE  LedgerKept
<1> USE DEF LedgerKept, Last, runVars
<1>1. CASE ReopenStep
    BY <1>1 DEF ReopenStep, GotoNote, Finish, Closing, Refused
<1>2. CASE ReopenWorkflow
    BY <1>2 DEF ReopenWorkflow, GotoNote, Finish, Closing, Refused
<1>3. CASE SettleFailed
    BY <1>3 DEF SettleFailed, Finish
<1>4. CASE SettleDone
    BY <1>4 DEF SettleDone, Goto
<1>5. CASE RecordCompletion
    BY <1>5 DEF RecordCompletion, Finish
<1> QED BY <1>1, <1>2, <1>3, <1>4, <1>5 DEF ReconcilerNext

(* A user: a reset unbinds reviews and nothing else; a closed row becomes     *)
(* succeeded only with its own receipt.                                       *)
LEMMA UserLedger ==
    ASSUME TypeOK, ControlOK, SettledLedger, UserNext
    PROVE  LedgerKept
<1> USE DEF LedgerKept, Last, runVars
<1>1. CASE ConfirmPlan
    BY <1>1 DEF ConfirmPlan, JobFree
<1>2. CASE RunPlan
    BY <1>2 DEF RunPlan, Queue, JobFree
<1>3. CASE CancelPlan
    BY <1>3 DEF CancelPlan
<1>4. CASE ConfirmStep
    BY <1>4 DEF ConfirmStep, Queue, JobFree
<1>5. CASE RetryStep
    BY <1>5 DEF RetryStep, Queue, JobFree, Resume, Reset
<1>6. CASE GateAdjust
    BY <1>6 DEF GateAdjust, Queue, JobFree, Reset
<1>7. CASE Rollback
    BY <1>7 DEF Rollback, Queue, JobFree, Resume, Reset
<1>8. CASE ReconcileFenced
    BY <1>8 DEF ReconcileFenced, Reconcilable, Offered, JobFree
<1>9. CASE ReconcileApplied
    BY <1>9 DEF ReconcileApplied, Reconcilable, Offered, JobFree
<1>10. CASE ReconcileCompletion
    BY <1>10 DEF ReconcileCompletion, Resumed, Reconcilable, Offered, JobFree
<1>11. CASE ReconcileWorkflow
    BY <1>11 DEF ReconcileWorkflow, JobFree, Resumed, Reconcilable
<1> QED BY <1>1, <1>2, <1>3, <1>4, <1>5, <1>6, <1>7, <1>8, <1>9, <1>10, <1>11 DEF UserNext

-----------------------------------------------------------------------------
(* An authentic result stays authentic while the ledger only grows and its    *)
(* parents' results stay.                                                     *)
LEMMA StillAuthentic ==
    ASSUME TypeOK, LedgerTellsTheTruth, LedgerKept, NEW s \in Steps, Authentic(s, outRef[s]),
           outRef'[s] = outRef[s], \A d \in Deps[s] : outRef'[d] = outRef[d]
    PROVE  Authentic(s, outRef[s])'
<1> DEFINE r == <<s, outRef[s]>>
<1>1. outRef[s] # 0 /\ runStatus[r] = "succeeded" /\ output[r] = ParentVersions(s)
    BY DEF Authentic
<1>2. r \in Runs
    BY <1>1, BoundAssumption DEF TypeOK, StepTypeOK, Versions, Runs
<1>3. runStatus'[r] = "succeeded" /\ output'[r] = output[r]
    BY <1>1, <1>2 DEF LedgerKept, LedgerTellsTheTruth
<1>4. ParentVersions(s)' = ParentVersions(s)
    BY DEF ParentVersions
<1> QED BY <1>1, <1>3, <1>4 DEF Authentic

(* The result of an unfinished step is nobody's parent version: steps that    *)
(* are done have complete parents.                                            *)
LEMMA LineageKept ==
    ASSUME TypeOK, GraphOK, LedgerTellsTheTruth, LedgerKept, LineageCurrent,
           \A s \in Steps : stepStatus'[s] = "done" => stepStatus[s] = "done",
           \A s \in Steps : stepStatus[s] \in Complete => outRef'[s] = outRef[s]
    PROVE  LineageCurrent'
<1> SUFFICES ASSUME NEW s \in Steps, stepStatus'[s] = "done" PROVE Authentic(s, outRef[s])'
    BY DEF LineageCurrent
<1>1. stepStatus[s] = "done" /\ Authentic(s, outRef[s])
    BY DEF LineageCurrent
<1>2. ParentsComplete(s)
    BY <1>1 DEF GraphOK
<1>3. outRef'[s] = outRef[s] /\ \A d \in Deps[s] : outRef'[d] = outRef[d]
    BY <1>1, <1>2, DepsAssumption DEF ParentsComplete, Complete
<1> QED BY <1>1, <1>3, StillAuthentic

(* A reset takes what it invalidates as a whole: a result it leaves is not    *)
(* downstream of one it forgets.                                              *)
LEMMA ResetLineage ==
    ASSUME TypeOK, LedgerTellsTheTruth, LedgerKept, LineageCurrent,
           NEW s \in Steps, NEW K, NEW V, Reset(Closure({s}), K, V)
    PROVE  LineageCurrent'
<1> SUFFICES ASSUME NEW t \in Steps, stepStatus'[t] = "done" PROVE Authentic(t, outRef[t])'
    BY DEF LineageCurrent
<1>1. Closed(Closure({s}))
    BY ClosureClosed
<1>2. t \notin Closure({s}) /\ stepStatus[t] = "done"
    BY DEF Reset
<1>3. Authentic(t, outRef[t])
    BY <1>2 DEF LineageCurrent
<1>4. outRef'[t] = outRef[t] /\ \A d \in Deps[t] : outRef'[d] = outRef[d]
    BY <1>1, <1>2, DepsAssumption DEF Closed, Reset
<1> QED BY <1>3, <1>4, StillAuthentic

(* Executor: results change while their step is unfinished, and a step is     *)
(* done with an authentic one.                                                *)
LEMMA ExecutorLineage ==
    ASSUME TypeOK, ControlOK, PlaceOK, GraphOK, OutputsOK, LedgerTellsTheTruth,
           LineageCurrent, LedgerKept, ExecutorNext
    PROVE  LineageCurrent'
<1> USE DEF stepVars, TypeOK, StepTypeOK
<1>1. CASE MarkJobRunning
    BY <1>1, LineageKept DEF MarkJobRunning
<1>2. CASE EnterEnded
    BY <1>2, LineageKept DEF EnterEnded
<1>3. CASE EnterRejected
    BY <1>3, LineageKept DEF EnterRejected
<1>4. CASE StopBetweenSteps
    BY <1>4, LineageKept DEF StopBetweenSteps
<1>5. CASE EnterRun
    BY <1>5, LineageKept DEF EnterRun
<1>6. CASE LoopCancelled
    BY <1>6, LineageKept DEF LoopCancelled
<1>7. CASE FailPlan
    BY <1>7, LineageKept DEF FailPlan
<1>8. CASE LoopFinalize
    BY <1>8, LineageKept DEF LoopFinalize
<1>9. CASE GateStep
    BY <1>9, LineageKept DEF GateStep, Executing
<1>10. CASE GatePlan
    BY <1>10, LineageKept DEF GatePlan
<1>11. CASE ChooseStep
    BY <1>11, LineageKept DEF ChooseStep
<1>12. CASE SetRunning
    BY <1>12, LineageKept DEF SetRunning, Executing
<1>13. CASE StartFails
    BY <1>13, LineageKept DEF StartFails
<1>14. CASE StartRun
    BY <1>14, LineageKept DEF StartRun
<1>15. CASE RejectBeforeDispatch
    BY <1>15, LineageKept DEF RejectBeforeDispatch
<1>16. CASE Dispatch
    BY <1>16, LineageKept DEF Dispatch
<1>17. CASE Invoke
    BY <1>17, LineageKept DEF Invoke
<1>18. CASE ToolSucceeds
    BY <1>18, LineageKept DEF ToolSucceeds, Executing, WorkerGone
<1>19. CASE ReceiptMissing
    BY <1>19, LineageKept DEF ReceiptMissing
<1>20. CASE ToolFails
    BY <1>20, LineageKept DEF ToolFails
<1>21. CASE ToolRaises
    BY <1>21, LineageKept DEF ToolRaises
<1>22. CASE StopDuringStep
    BY <1>22, LineageKept DEF StopDuringStep
<1>23. CASE StopStep
    BY <1>23, LineageKept DEF StopStep, Executing
<1>24. CASE StopPlan
    BY <1>24, LineageKept DEF StopPlan
<1>25. CASE StoreOutput
    BY <1>25, LineageKept DEF StoreOutput
<1>26. CASE StoreFails
    BY <1>26, LineageKept DEF StoreFails
<1>27. CASE SealRun
    BY <1>27, LineageKept DEF SealRun
<1>28. CASE BindOutput
    BY <1>28, LineageKept DEF BindOutput, Executing, ControlOK, PlaceOK, StepLabels,
       InFlight, Complete
<1>29. CASE Review
    BY <1>29, LineageKept DEF Review
<1>30. CASE ReviewRaises
    BY <1>30, LineageKept DEF ReviewRaises
<1>31. CASE Publish
    BY <1>31, LineageKept DEF Publish
<1>32. CASE PublishFails
    BY <1>32, LineageKept DEF PublishFails
<1>33. CASE MarkDone
  <2>1. cur \in Steps /\ Authentic(cur, outRef[cur]) /\ UNCHANGED outRef
      BY <1>33 DEF MarkDone, ControlOK, OutputsOK
  <2>2. ASSUME NEW s \in Steps, stepStatus'[s] = "done" PROVE Authentic(s, outRef[s])'
    <3>1. Authentic(s, outRef[s])
        BY <1>33, <2>1, <2>2 DEF MarkDone, LineageCurrent
    <3> QED BY <2>1, <3>1, StillAuthentic
  <2> QED BY <2>2 DEF LineageCurrent
<1>34. CASE FailStep
    BY <1>34, LineageKept DEF FailStep
<1>35. CASE FinalizeUnpublished
    BY <1>35, LineageKept DEF FinalizeUnpublished
<1>36. CASE FreezeEvent
    BY <1>36, LineageKept DEF FreezeEvent
<1>37. CASE FreezeCheckpoint
    BY <1>37, LineageKept DEF FreezeCheckpoint
<1>38. CASE WorkflowReview
    BY <1>38, LineageKept DEF WorkflowReview
<1>39. CASE WorkflowPublish
    BY <1>39, LineageKept DEF WorkflowPublish
<1>40. CASE WorkflowFinal
    BY <1>40, LineageKept DEF WorkflowFinal
<1>41. CASE WorkflowError
    BY <1>41, LineageKept DEF WorkflowError
<1>42. CASE WorkflowFail
    BY <1>42, LineageKept DEF WorkflowFail
<1> QED BY <1>1, <1>2, <1>3, <1>4, <1>5, <1>6, <1>7, <1>8, <1>9, <1>10, <1>11,
     <1>12, <1>13, <1>14, <1>15, <1>16, <1>17, <1>18, <1>19, <1>20, <1>21,
     <1>22, <1>23, <1>24, <1>25, <1>26, <1>27, <1>28, <1>29, <1>30, <1>31,
     <1>32, <1>33, <1>34, <1>35, <1>36, <1>37, <1>38, <1>39, <1>40, <1>41,
     <1>42 DEF ExecutorNext

(* Recovery: the result it adopts is that of a step in flight.                *)
LEMMA RecoveryLineage ==
    ASSUME TypeOK, ControlOK, PlaceOK, GraphOK, OutputsOK, LedgerTellsTheTruth,
           LineageCurrent, LedgerKept, RecoveryNext
    PROVE  LineageCurrent'
<1> USE DEF stepVars, TypeOK, StepTypeOK
<1>1. CASE Restart
    BY <1>1, LineageKept DEF Restart
<1>2. CASE RecoverStep
    BY <1>2, LineageKept DEF RecoverStep, InFlight, Complete
<1>3. CASE CloseRunsForOutput
    BY <1>3, LineageKept DEF CloseRunsForOutput
<1>4. CASE Authenticate
    BY <1>4, LineageKept DEF Authenticate
<1>5. CASE InterruptRuns
    BY <1>5, LineageKept DEF InterruptRuns
<1>6. CASE RecoveryEnds
    BY <1>6, LineageKept DEF RecoveryEnds
<1>7. CASE ReclaimCompletion
    BY <1>7, LineageKept DEF ReclaimCompletion
<1>8. CASE Reclaim
    BY <1>8, LineageKept DEF Reclaim
<1> QED BY <1>1, <1>2, <1>3, <1>4, <1>5, <1>6, <1>7, <1>8 DEF RecoveryNext

(* Reconciler: it replaces no result.                                         *)
LEMMA ReconcilerLineage ==
    ASSUME TypeOK, ControlOK, PlaceOK, GraphOK, OutputsOK, LedgerTellsTheTruth,
           LineageCurrent, LedgerKept, ReconcilerNext
    PROVE  LineageCurrent'
<1> USE DEF stepVars, TypeOK, StepTypeOK
<1>1. CASE ReopenStep
    BY <1>1, LineageKept DEF ReopenStep
<1>2. CASE ReopenWorkflow
    BY <1>2, LineageKept DEF ReopenWorkflow
<1>3. CASE SettleFailed
    BY <1>3, LineageKept DEF SettleFailed
<1>4. CASE SettleDone
    BY <1>4, LineageKept DEF SettleDone
<1>5. CASE RecordCompletion
    BY <1>5, LineageKept DEF RecordCompletion
<1> QED BY <1>1, <1>2, <1>3, <1>4, <1>5 DEF ReconcilerNext

(* A user: an original output is bound to an unfinished step, and a reset     *)
(* takes the whole closure.                                                   *)
LEMMA UserLineage ==
    ASSUME TypeOK, ControlOK, PlaceOK, GraphOK, OutputsOK, LedgerTellsTheTruth,
           LineageCurrent, LedgerKept, UserNext
    PROVE  LineageCurrent'
<1> USE DEF stepVars, TypeOK, StepTypeOK
<1>1. CASE ConfirmPlan
    BY <1>1, LineageKept DEF ConfirmPlan
<1>2. CASE RunPlan
    BY <1>2, LineageKept DEF RunPlan
<1>3. CASE CancelPlan
    BY <1>3, LineageKept DEF CancelPlan
<1>4. CASE ConfirmStep
    BY <1>4, LineageKept DEF ConfirmStep
<1>5. CASE RetryStep
    BY <1>5, ResetLineage DEF RetryStep
<1>6. CASE GateAdjust
    BY <1>6, ResetLineage DEF GateAdjust
<1>7. CASE Rollback
    BY <1>7, ResetLineage DEF Rollback
<1>8. CASE ReconcileFenced
    BY <1>8, LineageKept DEF ReconcileFenced
<1>9. CASE ReconcileApplied
    BY <1>9, LineageKept DEF ReconcileApplied, Reconcilable, Offered, InFlight, Complete
<1>10. CASE ReconcileCompletion
    BY <1>10, LineageKept DEF ReconcileCompletion
<1>11. CASE ReconcileWorkflow
    BY <1>11, LineageKept DEF ReconcileWorkflow
<1> QED BY <1>1, <1>2, <1>3, <1>4, <1>5, <1>6, <1>7, <1>8, <1>9, <1>10, <1>11 DEF UserNext

-----------------------------------------------------------------------------
(* EvidenceInv holds of a fresh plan.                                          *)
LEMMA EvidenceInvInit == Init => EvidenceInv
<1> SUFFICES ASSUME Init PROVE EvidenceInv
    OBVIOUS
<1>1. PlaceOK /\ FrozenOK /\ FrozenCompletionStable
    BY DEF Init, PlaceOK, FrozenOK, FrozenCompletionStable, Unfinished, InFlight, StepLabels
<1>2. GraphOK /\ LineageCurrent
    BY KindAssumption DEF Init, GraphOK, LineageCurrent, Waiting
<1>3. RunsOK /\ OutputsOK /\ LedgerTellsTheTruth
    BY DEF Init, RunsOK, OutputsOK, LedgerTellsTheTruth, StepLabels
<1> QED BY <1>1, <1>2, <1>3 DEF EvidenceInv

(* The parts that a crash, a tool at work or a stutter could disturb.          *)
LEMMA EvidenceFrame ==
    ASSUME TypeOK, EvidenceInv, ToolApplies \/ Crash \/ UNCHANGED vars
    PROVE  EvidenceInv' /\ DoneKept /\ LedgerKept
<1> USE DEF EvidenceInv
<1>1. UNCHANGED <<planVars, stepVars, runVars>>
    BY DEF ToolApplies, Crash, vars
<1>2. UNCHANGED procVars \/ (pc' = "down" /\ cur' = NoStep)
    BY DEF ToolApplies, Crash, vars
<1>3. \A r \in Runs : r \in applied' => r \in applied \/ r \notin fenced
    BY DEF ToolApplies, Crash, vars, worldVars
<1>4. applied \subseteq applied' /\ UNCHANGED invoked
    BY DEF ToolApplies, Crash, vars, worldVars
<1> USE <1>1, <1>2 DEF planVars, stepVars, runVars, procVars
<1>5. PlaceOK' /\ FrozenOK' /\ FrozenCompletionStable'
    BY DEF PlaceOK, FrozenOK, FrozenCompletionStable, Unfinished, NoneInFlight, AnyFailed,
       AllComplete, StepLabels
<1>6. GraphOK' /\ RunsOK'
    BY DEF GraphOK, ParentsComplete, Waiting, RunsOK, Last
<1>7. LineageCurrent'
    BY DEF LineageCurrent, Authentic, ParentVersions
<1>8. OutputsOK' /\ LedgerTellsTheTruth'
    BY <1>3, <1>4 DEF OutputsOK, LedgerTellsTheTruth, Last, Authentic, ParentVersions, TypeOK,
       RunTypeOK, WorldTypeOK
<1>9. DoneKept /\ LedgerKept
    BY <1>4 DEF DoneKept, LedgerKept
<1> QED BY <1>5, <1>6, <1>7, <1>8, <1>9

(* Every step keeps EvidenceInv, a done plan and the ledger's evidence.        *)
LEMMA EvidenceInvStep ==
    ASSUME LedgerInv, EvidenceInv, [Next]_vars
    PROVE  EvidenceInv' /\ DoneKept /\ LedgerKept
<1> USE DEF EvidenceInv, LedgerInv
<1>1. CASE ToolApplies \/ Crash \/ UNCHANGED vars
    BY <1>1, EvidenceFrame
<1>2. CASE ExecutorNext
  <2>1. LedgerKept
      BY <1>2, ExecutorLedger
  <2> QED BY <1>2, <2>1, ExecutorPlace, ExecutorFrozen, ExecutorGraph, ExecutorRuns,
         ExecutorOutputs, ExecutorLineage
<1>3. CASE RecoveryNext
  <2>1. LedgerKept
      BY <1>3, RecoveryLedger
  <2> QED BY <1>3, <2>1, RecoveryPlace, RecoveryFrozen, RecoveryGraph, RecoveryRuns,
         RecoveryOutputs, RecoveryLineage
<1>4. CASE ReconcilerNext
  <2>1. LedgerKept
      BY <1>4, ReconcilerLedger
  <2> QED BY <1>4, <2>1, ReconcilerPlace, ReconcilerFrozen, ReconcilerGraph, ReconcilerRuns,
         ReconcilerOutputs, ReconcilerLineage
<1>5. CASE UserNext
  <2>1. LedgerKept
      BY <1>5, UserLedger
  <2> QED BY <1>5, <2>1, UserPlace, UserFrozen, UserGraph, UserRuns, UserOutputs,
         UserLineage
<1> QED BY <1>1, <1>2, <1>3, <1>4, <1>5 DEF Next, ServerNext

(* EvidenceInv is an invariant of every plan; it rests on LedgerInv.           *)
THEOREM EvidenceInvariant == Spec => []EvidenceInv
BY EvidenceInvInit, EvidenceInvStep, LedgerInvariant, PTL DEF Spec

(* LedgerTellsTheTruth: a row that says succeeded (finish_step_run,            *)
(* repositories/plans.py) has its stored output and a call that really did its *)
(* work, and a fenced row is neither, through every crash and reconciliation.  *)
THEOREM LedgerTellsTheTruthHolds == Spec => []LedgerTellsTheTruth
<1>1. EvidenceInv => LedgerTellsTheTruth
    BY DEF EvidenceInv
<1> QED BY <1>1, EvidenceInvariant, PTL

(* LineageCurrent: whatever retries, gate adjustments, rollbacks and recovery  *)
(* replace, a completed step's result was made from the results its parents    *)
(* hold now (_load_step_result_binding, plans.py).                             *)
THEOREM LineageCurrentHolds == Spec => []LineageCurrent
<1>1. EvidenceInv => LineageCurrent
    BY DEF EvidenceInv
<1> QED BY <1>1, EvidenceInvariant, PTL

(* FrozenCompletionStable: once the workflow.completed obligation is frozen    *)
(* (completion.py:257) no step of the plan is reopened, reset or run again.    *)
THEOREM FrozenCompletionStableHolds == Spec => []FrozenCompletionStable
<1>1. EvidenceInv => FrozenCompletionStable
    BY DEF EvidenceInv
<1> QED BY <1>1, EvidenceInvariant, PTL

(* ConfirmationCurrent: a gated step begins only confirmed, and a confirmation *)
(* stands only on completed upstream results (the reset clears the others).    *)
THEOREM ConfirmationCurrentHolds == Spec => []ConfirmationCurrent
<1>1. EvidenceInv => ConfirmationCurrent
  <2> SUFFICES ASSUME EvidenceInv PROVE ConfirmationCurrent
      OBVIOUS
  <2>1. \A s \in Gated : stepStatus[s] \in InFlight \cup {"done"} => s \in confirmed
      BY DEF EvidenceInv, GraphOK, Waiting, InFlight
  <2>2. \A s \in confirmed : \A d \in Deps[s] : stepStatus[d] \in Complete
      BY DEF EvidenceInv, GraphOK, ParentsComplete
  <2> QED BY <2>1, <2>2 DEF ConfirmationCurrent
<1> QED BY <1>1, EvidenceInvariant, PTL

(* A set whose elements are all the same has at most one.                     *)
LEMMA AtMostOne ==
    ASSUME NEW S, \A x, y \in S : x = y
    PROVE  Cardinality(S) <= 1
<1>1. CASE S = {}
    BY <1>1, FS_EmptySet
<1>2. CASE S # {}
  <2>1. PICK x \in S : TRUE
      BY <1>2
  <2>2. S = {x}
      BY <2>1
  <2> QED BY <2>2, FS_Singleton
<1> QED BY <1>1, <1>2

(* OneInFlight: however often the process crashes, is cancelled or resumed,    *)
(* one step at most is in flight and one run at most is open.                  *)
THEOREM OneInFlightHolds == Spec => []OneInFlight
<1>1. EvidenceInv => OneInFlight
  <2> SUFFICES ASSUME EvidenceInv PROVE OneInFlight
      OBVIOUS
  <2>1. \A s, t \in {u \in Steps : stepStatus[u] \in InFlight} : s = t
      BY DEF EvidenceInv, PlaceOK, Unfinished
  <2>2. \A q, r \in {u \in Runs : runStatus[u] = "running"} : q = r
    <3> SUFFICES ASSUME NEW q \in Runs, NEW r \in Runs, runStatus[q] = "running",
                        runStatus[r] = "running"
                 PROVE  q = r
        OBVIOUS
    <3>1. r[1] \in Steps /\ Unfinished(r[1]) /\ r = Last(r[1])
        BY DEF EvidenceInv, RunsOK, Runs, Unfinished
    <3> QED BY <3>1, OpenRunIsLast DEF EvidenceInv
  <2> HIDE DEF EvidenceInv
  <2> QED BY <2>1, <2>2, AtMostOne DEF OneInFlight
<1> QED BY <1>1, EvidenceInvariant, PTL

(* With the workflow's completion frozen every step is complete, so the       *)
(* process is at no label that works on a step.                               *)
LEMMA FrozenPlace ==
    ASSUME LedgerInv, EvidenceInv, wfEvent
    PROVE  /\ \A s \in Steps : ~Waiting(s) /\ ~Unfinished(s)
           /\ pc \notin StepLabels \cup {"execute"}
           /\ pc = "reopen" => cur = NoStep
<1>1. \A s \in Steps : ~Waiting(s) /\ ~Unfinished(s)
    BY DEF EvidenceInv, FrozenCompletionStable, AllComplete, Complete, Waiting, Unfinished,
       InFlight
<1>2. pc \in StepLabels \cup {"execute"} => cur \in Steps /\ (Waiting(cur) \/ Unfinished(cur))
    BY DEF LedgerInv, ControlOK, EvidenceInv, PlaceOK, StepLabels, Unfinished
<1>3. pc = "reopen" /\ cur # NoStep => cur \in Steps /\ Unfinished(cur)
    BY DEF LedgerInv, TypeOK, ProcTypeOK, EvidenceInv, PlaceOK
<1> QED BY <1>1, <1>2, <1>3

(* Executor: what is left of it once the completion is frozen writes the plan *)
(* and the workflow's checkpoint only.                                        *)
LEMMA ExecutorCompletion ==
    ASSUME LedgerInv, EvidenceInv, ExecutorNext
    PROVE  CompletionKept
<1> SUFFICES ASSUME wfEvent
             PROVE  wfEvent' /\ UNCHANGED <<stepStatus, outRef, invoked>>
    BY DEF CompletionKept
<1>0. /\ \A s \in Steps : ~Waiting(s) /\ ~Unfinished(s)
      /\ pc \notin StepLabels \cup {"execute"}
    BY FrozenPlace
<1> USE DEF planVars, stepVars, worldVars
<1>1. CASE MarkJobRunning \/ EnterEnded \/ EnterRejected \/ StopBetweenSteps \/ EnterRun
    BY <1>1 DEF MarkJobRunning, EnterEnded, EnterRejected, StopBetweenSteps, EnterRun
<1>2. CASE LoopCancelled \/ FailPlan \/ LoopFinalize \/ GatePlan \/ ChooseStep
    BY <1>2 DEF LoopCancelled, FailPlan, LoopFinalize, GatePlan, ChooseStep
<1>3. CASE GateStep
    BY <1>0, <1>3 DEF GateStep, NextReady, Ready, Waiting
<1>4. CASE SetRunning \/ StartFails \/ StartRun \/ RejectBeforeDispatch \/ Dispatch \/ Invoke
    BY <1>0, <1>4 DEF SetRunning, StartFails, StartRun, RejectBeforeDispatch, Dispatch, Invoke,
       Executing, StepLabels
<1>5. CASE ToolSucceeds \/ ReceiptMissing \/ ToolFails \/ ToolRaises \/ StopDuringStep
    BY <1>0, <1>5 DEF ToolSucceeds, ReceiptMissing, ToolFails, ToolRaises, StopDuringStep,
       Executing, StepLabels
<1>6. CASE StopStep \/ StoreOutput \/ StoreFails \/ SealRun \/ BindOutput
    BY <1>0, <1>6 DEF StopStep, StoreOutput, StoreFails, SealRun, BindOutput, Executing,
       StepLabels
<1>7. CASE Review \/ ReviewRaises \/ Publish \/ PublishFails \/ MarkDone \/ FailStep
    BY <1>0, <1>7 DEF Review, ReviewRaises, Publish, PublishFails, MarkDone, FailStep, StepLabels
<1>8. CASE StopPlan \/ FinalizeUnpublished \/ FreezeEvent \/ FreezeCheckpoint
    BY <1>8 DEF StopPlan, FinalizeUnpublished, FreezeEvent, FreezeCheckpoint
<1>9. CASE WorkflowReview \/ WorkflowPublish \/ WorkflowFinal \/ WorkflowError \/ WorkflowFail
    BY <1>9 DEF WorkflowReview, WorkflowPublish, WorkflowFinal, WorkflowError, WorkflowFail
<1> QED BY <1>1, <1>2, <1>3, <1>4, <1>5, <1>6, <1>7, <1>8, <1>9 DEF ExecutorNext

(* Recovery and reconciliation: no step is left for them to settle or reopen. *)
LEMMA RecoveryCompletion ==
    ASSUME LedgerInv, EvidenceInv, RecoveryNext \/ ReconcilerNext
    PROVE  CompletionKept
<1> SUFFICES ASSUME wfEvent
             PROVE  wfEvent' /\ UNCHANGED <<stepStatus, outRef, invoked>>
    BY DEF CompletionKept
<1>0. /\ \A s \in Steps : ~Waiting(s) /\ ~Unfinished(s)
      /\ pc \notin StepLabels \cup {"execute"}
      /\ pc = "reopen" => cur = NoStep
    BY FrozenPlace
<1> USE DEF planVars, stepVars, worldVars
<1>1. CASE RecoverStep
    BY <1>0, <1>1 DEF RecoverStep, Unfinished
<1>2. CASE CloseRunsForOutput \/ Authenticate \/ InterruptRuns
    BY <1>0, <1>2 DEF CloseRunsForOutput, Authenticate, InterruptRuns, StepLabels
<1>3. CASE Restart \/ RecoveryEnds \/ ReclaimCompletion \/ Reclaim
    BY <1>3 DEF Restart, RecoveryEnds, ReclaimCompletion, Reclaim
<1>4. CASE ReconcilerNext
    BY <1>0, <1>4 DEF ReconcilerNext, ReopenStep, ReopenWorkflow, SettleFailed, SettleDone,
       RecordCompletion
<1> QED BY <1>1, <1>2, <1>3, <1>4 DEF RecoveryNext

(* A user: a reset starts from a failed or a waiting step, and a receipt or a *)
(* fence is asked for an unfinished one.                                      *)
LEMMA UserCompletion ==
    ASSUME LedgerInv, EvidenceInv, UserNext
    PROVE  CompletionKept
<1> SUFFICES ASSUME wfEvent
             PROVE  wfEvent' /\ UNCHANGED <<stepStatus, outRef, invoked>>
    BY DEF CompletionKept
<1>0. \A s \in Steps : ~Waiting(s) /\ ~Unfinished(s)
    BY FrozenPlace
<1> USE DEF planVars, stepVars, worldVars
<1>1. CASE ConfirmPlan \/ RunPlan \/ CancelPlan \/ ConfirmStep \/ ReconcileFenced
    BY <1>1 DEF ConfirmPlan, RunPlan, CancelPlan, ConfirmStep, ReconcileFenced
<1>2. CASE RetryStep
    BY <1>0, <1>2 DEF RetryStep, Unfinished
<1>3. CASE GateAdjust
    BY <1>0, <1>3 DEF GateAdjust, Waiting
<1>4. CASE Rollback
    BY <1>0, <1>4 DEF Rollback, Unfinished
<1>5. CASE ReconcileApplied
    BY <1>0, <1>5 DEF ReconcileApplied, Offered, Unfinished, InFlight
<1>6. CASE ReconcileCompletion \/ ReconcileWorkflow
    BY <1>6 DEF ReconcileCompletion, ReconcileWorkflow
<1> QED BY <1>1, <1>2, <1>3, <1>4, <1>5, <1>6 DEF UserNext

(* A frozen completion keeps its steps, their results and its calls.          *)
LEMMA CompletionStep ==
    ASSUME LedgerInv, EvidenceInv, [Next]_vars
    PROVE  CompletionKept
<1>1. CASE ToolApplies \/ Crash \/ UNCHANGED vars
    BY <1>1 DEF CompletionKept, ToolApplies, Crash, vars, planVars, stepVars, worldVars
<1> QED BY <1>1, ExecutorCompletion, RecoveryCompletion, UserCompletion DEF Next, ServerNext

(* EvidenceImmutable: no write of the executor, of recovery or of a user       *)
(* changes a closed row, a stored output, a frozen review or a fence; the      *)
(* steps and results under a frozen completion stay as they are, and a plan    *)
(* that is done stays done (the guarded updates of repositories/plans.py and   *)
(* completion.py:257-289, taken together).                                     *)
THEOREM EvidenceImmutableHolds == Spec => EvidenceImmutable
<1>1. LedgerInv /\ EvidenceInv /\ [Next]_vars => [DoneKept /\ CompletionKept /\ LedgerKept]_vars
    BY EvidenceInvStep, CompletionStep
<1> QED BY <1>1, LedgerInvariant, EvidenceInvariant, PTL DEF Spec, EvidenceImmutable

-----------------------------------------------------------------------------
(* Executor: it takes a plan that has no step in flight and fails it only when *)
(* none is; what it works on is never a failed plan.                          *)
LEMMA ExecutorInterrupt ==
    ASSUME TypeOK, ControlOK, EvidenceInv, CancelInv, InterruptOK, ExecutorNext
    PROVE  InterruptOK'
<1> USE DEF InterruptOK, Completable, AllComplete, Complete, InFlight,
     NoneInFlight, AnyFailed, NoStep, TypeOK, StepTypeOK, PlanTypeOK, planVars,
     stepVars, runVars, procVars, StepLabels
<1>1. CASE MarkJobRunning
    BY <1>1 DEF MarkJobRunning, Authentic, ParentVersions
<1>2. CASE EnterEnded
    BY <1>2 DEF EnterEnded, Executing, Goto, Finish, Frozen, Runnable,
       Authentic, ParentVersions
<1>3. CASE EnterRejected
    BY <1>3 DEF EnterRejected, Executing, Finish, Runnable
<1>4. CASE StopBetweenSteps
    BY <1>4 DEF StopBetweenSteps, Executing, Finish, Frozen, Runnable
<1>5. CASE EnterRun
    BY <1>5 DEF EnterRun, Executing, Frozen, Runnable
<1>6. CASE LoopCancelled
    BY <1>6 DEF LoopCancelled, Executing, Finish, Cancelled
<1>7. CASE FailPlan
    BY <1>7 DEF FailPlan, Executing, Finish, Cancelled, NextReady, Ready,
       EvidenceInv, PlaceOK, Unfinished
<1>8. CASE LoopFinalize
    BY <1>8 DEF LoopFinalize, Executing, Goto, Cancelled, Ready, EvidenceInv,
       PlaceOK, Unfinished
<1>9. CASE GateStep
    BY <1>9 DEF GateStep, Executing, Goto, Cancelled, NextReady, Ready
<1>10. CASE GatePlan
    BY <1>10 DEF GatePlan, Executing, Finish, SetPlan, Cancelled
<1>11. CASE ChooseStep
    BY <1>11 DEF ChooseStep, Executing, Cancelled, NextReady, Ready
<1>12. CASE SetRunning
    BY <1>12 DEF SetRunning, Executing, Goto, ControlOK, Waiting
<1>13. CASE StartFails
    BY <1>13 DEF StartFails, Executing, GotoNote
<1>14. CASE StartRun
    BY <1>14 DEF StartRun, Executing, Goto
<1>15. CASE RejectBeforeDispatch
    BY <1>15 DEF RejectBeforeDispatch, Executing, GotoNote, Close
<1>16. CASE Dispatch
    BY <1>16 DEF Dispatch, Executing, Goto
<1>17. CASE Invoke
    BY <1>17 DEF Invoke, Executing, Goto
<1>18. CASE ToolSucceeds
    BY <1>18 DEF ToolSucceeds, Executing, Goto, WorkerGone, EvidenceInv,
       PlaceOK, Unfinished, ControlOK
<1>19. CASE ReceiptMissing
    BY <1>19 DEF ReceiptMissing, Executing, GotoNote, Close, WorkerGone
<1>20. CASE ToolFails
    BY <1>20 DEF ToolFails, Executing, GotoNote, Close, WorkerGone
<1>21. CASE ToolRaises
    BY <1>21 DEF ToolRaises, Executing, GotoNote, Close, WorkerGone
<1>22. CASE StopDuringStep
    BY <1>22 DEF StopDuringStep, Executing, GotoNote, Close, WorkerGone
<1>23. CASE StopStep
    BY <1>23 DEF StopStep, Executing, Goto, EvidenceInv, PlaceOK, Unfinished,
       ControlOK
<1>24. CASE StopPlan
    BY <1>24 DEF StopPlan, Executing, Finish
<1>25. CASE StoreOutput
    BY <1>25 DEF StoreOutput, Executing, Goto
<1>26. CASE StoreFails
    BY <1>26 DEF StoreFails, Executing, GotoNote, Close
<1>27. CASE SealRun
    BY <1>27 DEF SealRun, Executing, Goto, Close
<1>28. CASE BindOutput
    BY <1>28 DEF BindOutput, Executing, Goto
<1>29. CASE Review
    BY <1>29 DEF Review, Goto, GotoNote, Bound
<1>30. CASE ReviewRaises
    BY <1>30 DEF ReviewRaises, GotoNote
<1>31. CASE Publish
    BY <1>31 DEF Publish, Goto, Cancelled
<1>32. CASE PublishFails
    BY <1>32 DEF PublishFails, GotoNote
<1>33. CASE MarkDone
    BY <1>33 DEF MarkDone, Return, EvidenceInv, PlaceOK, Unfinished, ControlOK,
       ProcTypeOK
<1>34. CASE FailStep
    BY <1>34 DEF FailStep, Return, EvidenceInv, PlaceOK, Unfinished, ControlOK,
       ProcTypeOK
<1>35. CASE FinalizeUnpublished
    BY <1>35 DEF FinalizeUnpublished, Goto, Finish, SetPlan, Cancelled
<1>36. CASE FreezeEvent
    BY <1>36 DEF FreezeEvent, Goto
<1>37. CASE FreezeCheckpoint
    BY <1>37 DEF FreezeCheckpoint, Goto
<1>38. CASE WorkflowReview
    BY <1>38 DEF WorkflowReview, Goto, Cancelled, EvidenceInv, FrozenOK,
       FrozenCompletionStable, ControlOK, CancelInv
<1>39. CASE WorkflowPublish
    BY <1>39 DEF WorkflowPublish, Goto, EvidenceInv, FrozenOK,
       FrozenCompletionStable, ControlOK, CancelInv
<1>40. CASE WorkflowFinal
    BY <1>40 DEF WorkflowFinal, Goto, Finish, EvidenceInv, FrozenOK,
       FrozenCompletionStable, ControlOK, CancelInv
<1>41. CASE WorkflowError
    BY <1>41 DEF WorkflowError, Goto
<1>42. CASE WorkflowFail
    BY <1>42 DEF WorkflowFail, Finish, SetPlan, Cancelled
<1> QED BY <1>1, <1>2, <1>3, <1>4, <1>5, <1>6, <1>7, <1>8, <1>9, <1>10, <1>11,
     <1>12, <1>13, <1>14, <1>15, <1>16, <1>17, <1>18, <1>19, <1>20, <1>21,
     <1>22, <1>23, <1>24, <1>25, <1>26, <1>27, <1>28, <1>29, <1>30, <1>31,
     <1>32, <1>33, <1>34, <1>35, <1>36, <1>37, <1>38, <1>39, <1>40, <1>41,
     <1>42 DEF ExecutorNext

(* Recovery: it fails a plan only after the last step in flight was looked at. *)
LEMMA RecoveryInterrupt ==
    ASSUME TypeOK, ControlOK, EvidenceInv, CancelInv, InterruptOK, RecoveryNext
    PROVE  InterruptOK'
<1> USE DEF InterruptOK, Completable, AllComplete, Complete, InFlight,
     NoneInFlight, AnyFailed, NoStep, TypeOK, StepTypeOK, PlanTypeOK, planVars,
     stepVars, runVars, procVars, StepLabels
<1>1. CASE Restart
  <2>1. UNCHANGED <<planVars, stepVars, runVars>> /\ pc' \in {"wfReview", "recover", "idle"} /\ pc = "down"
      BY <1>1 DEF Restart
  <2>2. /\ pc' = "idle" => planStatus # "running"
        /\ pc' # "idle" => planStatus \in {"running", "review"}
      BY <1>1 DEF Restart
  <2> QED BY <2>1, <2>2 DEF Authentic, ParentVersions
<1>2. CASE RecoverStep
    BY <1>2 DEF RecoverStep, Recovering
<1>3. CASE CloseRunsForOutput
    BY <1>3 DEF CloseRunsForOutput, Goto
<1>4. CASE Authenticate
    BY <1>4 DEF Authenticate, Goto, GotoNote, EvidenceInv, PlaceOK, Unfinished,
       ControlOK
<1>5. CASE InterruptRuns
    BY <1>5 DEF InterruptRuns, Goto
<1>6. CASE RecoveryEnds
    BY <1>6 DEF RecoveryEnds
<1>7. CASE ReclaimCompletion
    BY <1>7 DEF ReclaimCompletion, Goto
<1>8. CASE Reclaim
    BY <1>8 DEF Reclaim, Finish
<1> QED BY <1>1, <1>2, <1>3, <1>4, <1>5, <1>6, <1>7, <1>8 DEF RecoveryNext

(* Reconciler: a failed completion closes the step first, then the plan.      *)
LEMMA ReconcilerInterrupt ==
    ASSUME TypeOK, ControlOK, EvidenceInv, CancelInv, InterruptOK, ReconcilerNext
    PROVE  InterruptOK'
<1> USE DEF InterruptOK, Completable, AllComplete, Complete, InFlight,
     NoneInFlight, AnyFailed, NoStep, TypeOK, StepTypeOK, PlanTypeOK, planVars,
     stepVars, runVars, procVars, StepLabels
<1>1. CASE ReopenStep
    BY <1>1 DEF ReopenStep, GotoNote, Finish, Closing, Refused
<1>2. CASE ReopenWorkflow
    BY <1>2 DEF ReopenWorkflow, GotoNote, Finish, Closing, Refused
<1>3. CASE SettleFailed
    BY <1>3 DEF SettleFailed, Finish
<1>4. CASE SettleDone
    BY <1>4 DEF SettleDone, Goto
<1>5. CASE RecordCompletion
    BY <1>5 DEF RecordCompletion, Finish
<1> QED BY <1>1, <1>2, <1>3, <1>4, <1>5 DEF ReconcilerNext

(* A user: a reset leaves no step in flight, and a receipt puts a step in      *)
(* flight with its sealed result.                                             *)
LEMMA UserInterrupt ==
    ASSUME TypeOK, ControlOK, EvidenceInv, CancelInv, InterruptOK, UserNext
    PROVE  InterruptOK'
<1> USE DEF InterruptOK, Completable, AllComplete, Complete, InFlight,
     NoneInFlight, AnyFailed, NoStep, TypeOK, StepTypeOK, PlanTypeOK, planVars,
     stepVars, runVars, procVars, StepLabels
<1>1. CASE ConfirmPlan
    BY <1>1 DEF ConfirmPlan, JobFree
<1>2. CASE RunPlan
    BY <1>2 DEF RunPlan, Queue, JobFree
<1>3. CASE CancelPlan
    BY <1>3 DEF CancelPlan
<1>4. CASE ConfirmStep
    BY <1>4 DEF ConfirmStep, Queue, JobFree, EvidenceInv, PlaceOK, Unfinished,
       Authentic, ParentVersions
<1>5. CASE RetryStep
  <2>1. PICK s \in Steps, preserve, revise \in BOOLEAN :
          /\ stepStatus[s] = "failed"
          /\ Resettable(Closure({s}))
          /\ Reset(Closure({s}), IF preserve /\ ~revise THEN {s} ELSE {},
                   IF revise THEN {s} ELSE {})
      BY <1>5 DEF RetryStep
  <2>2. NoneInFlight'
      BY <2>1, ClosureClosed DEF EvidenceInv, PlaceOK, Unfinished, Reset
  <2> QED BY <1>5, <2>1, <2>2 DEF RetryStep, Queue, Resume, Resettable
<1>6. CASE GateAdjust
    BY <1>6 DEF GateAdjust, Queue, JobFree
<1>7. CASE Rollback
  <2>1. PICK root, s \in Steps :
          /\ stepStatus[s] = "failed" /\ s \in Closure({root})
          /\ Resettable(Closure({root})) /\ Reset(Closure({root}), {}, {root})
      BY <1>7 DEF Rollback
  <2>2. NoneInFlight'
      BY <2>1 DEF EvidenceInv, PlaceOK, Unfinished, Reset
  <2> QED BY <1>7, <2>1, <2>2 DEF Rollback, Queue, Resume, Resettable
<1>8. CASE ReconcileFenced
  <2>1. UNCHANGED <<planVars, procVars, stepStatus, outRef, runStatus, output, attempts>>
      BY <1>8 DEF ReconcileFenced
  <2> QED BY <2>1 DEF Authentic, ParentVersions
<1>9. CASE ReconcileApplied
  <2>1. PICK s \in Steps : 
        /\ Offered(s) /\ HasRun(s) /\ outRef[s] = 0
        /\ runStatus' = [runStatus EXCEPT ![Last(s)] = "succeeded"]
        /\ output' = [output EXCEPT ![Last(s)] = ParentVersions(s)]
        /\ outRef' = [outRef EXCEPT ![s] = attempts[s]]
        /\ IF planStatus = "cancelled"
           THEN /\ stepStatus' = [stepStatus EXCEPT ![s] = "failed"]
                /\ UNCHANGED procVars
           ELSE /\ stepStatus' = [stepStatus EXCEPT ![s] = "checking"]
                /\ pc' = "reopen" /\ cur' = s
      BY <1>9 DEF ReconcileApplied
  <2>2. planStatus \in {"failed", "running", "review", "cancelled"} /\ pc = "idle"
        /\ UNCHANGED <<planVars, attempts>>
      BY <1>9 DEF ReconcileApplied, Reconcilable, JobFree
  <2>3. Unfinished(s)
      BY <2>1 DEF Offered, Unfinished
  <2>4. \A t \in Steps : t # s => ~Unfinished(t)
      BY <2>3 DEF EvidenceInv, PlaceOK
  <2>5. planStatus # "review" /\ ~wfPending
      BY <2>3 DEF Unfinished
  <2>6. CASE planStatus = "cancelled"
      BY <2>1, <2>2, <2>5, <2>6
  <2>7. CASE planStatus # "cancelled"
    <3>1. Completable(s)'
      <4>1. Last(s) \in Runs /\ Last(s) = <<s, attempts[s]>>
          BY <2>1 DEF HasRun, Last, Runs, RunTypeOK, Versions
      <4>2. \A d \in Deps[s] : d # s /\ d \in Steps
          BY DepsAssumption, StepsAssumption
      <4>3. ParentVersions(s)' = ParentVersions(s)
          BY <4>2, <2>1 DEF ParentVersions
      <4> QED BY <2>1, <2>2, <2>7, <4>1, <4>3 DEF Completable, Authentic, HasRun, RunTypeOK, Versions
    <3>2. \A t \in Steps : stepStatus'[t] \in InFlight => t = s
        BY <2>1, <2>4, <2>7 DEF Unfinished
    <3>3. cur' # NoStep /\ pc' = "reopen"
        BY <2>1, <2>7, StepsAssumption
    <3> QED BY <2>1, <2>2, <2>5, <2>7, <3>1, <3>2, <3>3
  <2> QED BY <2>6, <2>7
<1>10. CASE ReconcileCompletion
  <2>1. cur' \in Steps /\ pc' = "reopen" /\ pc = "idle"
        /\ planStatus \in {"failed", "running", "review", "cancelled"}
        /\ UNCHANGED <<planVars, stepVars, runVars>>
      BY <1>10 DEF ReconcileCompletion, Reconcilable, JobFree
  <2>2. cur' # NoStep
      BY <2>1, StepsAssumption
  <2> QED BY <2>1, <2>2 DEF Authentic, ParentVersions
<1>11. CASE ReconcileWorkflow
    BY <1>11 DEF ReconcileWorkflow, JobFree, Resumed, Reconcilable
<1> QED BY <1>1, <1>2, <1>3, <1>4, <1>5, <1>6, <1>7, <1>8, <1>9, <1>10, <1>11 DEF UserNext

(* Every step keeps InterruptOK; a crash and a tool at work leave the plan's  *)
(* rows alone.                                                                *)
LEMMA InterruptStep ==
    ASSUME LedgerInv, EvidenceInv, CancelInv, InterruptOK, [Next]_vars
    PROVE  InterruptOK'
<1> USE DEF LedgerInv
<1>1. CASE ToolApplies \/ Crash \/ UNCHANGED vars
  <2>1. UNCHANGED <<planVars, stepVars, runVars>>
      BY <1>1 DEF ToolApplies, Crash, vars
  <2>2. UNCHANGED procVars \/ (pc' = "down" /\ cur' = NoStep)
      BY <1>1 DEF ToolApplies, Crash, vars
  <2> QED BY <2>1, <2>2 DEF InterruptOK, Completable, NoneInFlight, AllComplete, Authentic,
         ParentVersions, planVars, stepVars, runVars, procVars
<1>2. CASE ExecutorNext
    BY <1>2, ExecutorInterrupt
<1>3. CASE RecoveryNext
    BY <1>3, RecoveryInterrupt
<1>4. CASE ReconcilerNext
    BY <1>4, ReconcilerInterrupt
<1>5. CASE UserNext
    BY <1>5, UserInterrupt
<1> QED BY <1>1, <1>2, <1>3, <1>4, <1>5 DEF Next, ServerNext

(* InterruptOK is an invariant of every plan; it rests on the ledger's, the   *)
(* evidence's and the cancel's.                                               *)
THEOREM InterruptInvariant == Spec => []InterruptOK
<1>1. Init => InterruptOK
    BY DEF Init, InterruptOK, NoneInFlight, InFlight
<1> QED BY <1>1, InterruptStep, LedgerInvariant, EvidenceInvariant, CancelInvariant, PTL DEF Spec

(* InterruptedIsCompletable: whatever crashes, cancels and receipts do, a plan *)
(* that nobody holds and nobody cancelled has no open call, and a step left in *)
(* flight has its authentic last result, so that reconciliation completes it   *)
(* without its tool, although startup looks at running and review plans only   *)
(* (recovery.py:572).                                                          *)
THEOREM InterruptedIsCompletableHolds == Spec => []InterruptedIsCompletable
<1>1. LedgerInv /\ EvidenceInv /\ InterruptOK => InterruptedIsCompletable
  <2> SUFFICES ASSUME LedgerInv, EvidenceInv, InterruptOK, pc = "idle", planStatus # "cancelled"
               PROVE  /\ \A r \in Runs : runStatus[r] # "running"
                      /\ \A s \in Steps :
                            stepStatus[s] \in InFlight => Completable(s) /\ Reconcilable
      BY DEF InterruptedIsCompletable
  <2>1. \A s \in Steps : stepStatus[s] \in InFlight => planStatus = "failed" /\ Completable(s)
    <3>1. planStatus \in {"review", "done"} => AllComplete
        BY DEF EvidenceInv, FrozenOK, FrozenCompletionStable, InterruptOK
    <3>2. planStatus \in {"validated", "confirmed", "running", "awaiting"} => NoneInFlight
        BY DEF EvidenceInv, PlaceOK, InterruptOK
    <3> QED BY <3>1, <3>2 DEF InterruptOK, LedgerInv, TypeOK, PlanTypeOK, PlanStatuses,
           AllComplete, Complete, InFlight, NoneInFlight
  <2>2. ASSUME NEW r \in Runs, runStatus[r] = "running" PROVE FALSE
    <3>1. r = Last(r[1]) /\ r[1] \in Steps /\ stepStatus[r[1]] \in InFlight
        BY <2>2 DEF EvidenceInv, RunsOK, Runs
    <3>2. Completable(r[1])
        BY <2>1, <3>1
    <3> QED BY <2>2, <3>1, <3>2 DEF Completable, Authentic, Last
  <2> QED BY <2>1, <2>2 DEF Reconcilable, JobFree
<1> QED BY <1>1, LedgerInvariant, EvidenceInvariant, InterruptInvariant, PTL

(* How far the labels are from the end of a job.                              *)
LEMMA Distances ==
    /\ Distance("idle") = 0
    /\ Distance("record") = 1 /\ Distance("wfFail") = 1 /\ Distance("stopPlan") = 1 /\ Distance("gated") = 1
    /\ Distance("wfError") = 2 /\ Distance("wfFinal") = 2 /\ Distance("stopStep") = 2
    /\ Distance("wfPublish") = 3
    /\ Distance("wfReview") = 4
    /\ Distance("checkpoint") = 5
    /\ Distance("finalize") = 6
    /\ Distance("settle") = 7
    /\ Distance("mark") = 8 /\ Distance("fail") = 8
    /\ Distance("publish") = 9 /\ Distance("interrupt") = 9
    /\ Distance("complete") = 10
    /\ Distance("bind") = 11 /\ Distance("authenticate") = 11
    /\ Distance("seal") = 12 /\ Distance("adopt") = 12
    /\ Distance("store") = 13
    /\ Distance("tool") = 14
    /\ Distance("dispatched") = 15
    /\ Distance("ready") = 16
    /\ Distance("start") = 17
    /\ Distance("execute") = 18
    /\ Distance("loop") = 19
    /\ Distance("recover") = 20
    /\ Distance("enter") = 21 /\ Distance("reopen") = 21
    /\ Distance("queued") = 22 /\ Distance("down") = 22
  BY DEF Distance

(* A step of the process that leaves the plan's steps alone.                  *)
LEMMA Moves ==
    ASSUME stepStatus' = stepStatus, Distance(pc') < Distance(pc)
    PROVE  Nearer
  BY DEF Nearer, Todo, Waiting

(* One that settles a step: from wherever it is done, less is left to do.     *)
LEMMA Settles ==
    ASSUME NEW s \in Steps, stepStatus[s] \in InFlight, stepStatus'[s] \in {"done", "failed", "skipped"},
           \A t \in Steps \ {s} : stepStatus'[t] = stepStatus[t],
           Distance(pc') <= Distance("recover")
    PROVE  Nearer
<1>1. s \in Todo /\ s \notin Todo'
  BY DEF Todo, Waiting, InFlight
<1>2. Todo' \subseteq Todo
  BY DEF Todo, Waiting, InFlight
<1> QED
  BY <1>1, <1>2 DEF Nearer

(* One that changes a step that is still to do, whatever it becomes.          *)
LEMMA Changes ==
    ASSUME NEW s \in Steps, Waiting(s) \/ stepStatus[s] \in InFlight,
           \A t \in Steps \ {s} : stepStatus'[t] = stepStatus[t],
           Distance(pc') < Distance(pc)
    PROVE  Nearer
<1>1. Todo' \subseteq Todo
  BY DEF Todo, Waiting, InFlight
<1> QED
  BY <1>1 DEF Nearer

(* Executor: a step it has begun is left done, skipped or failed.             *)
LEMMA ExecutorNearer ==
    ASSUME TypeOK, ControlOK, PlaceOK, ExecutorNext
    PROVE  Nearer
<1>1. CASE MarkJobRunning
    BY <1>1, Distances, Moves DEF MarkJobRunning, stepVars
<1>2. CASE EnterEnded
    BY <1>2, Distances, Moves DEF EnterEnded, Executing, Goto, Finish, stepVars
<1>3. CASE EnterRejected
    BY <1>3, Distances, Moves DEF EnterRejected, Executing, Finish, stepVars
<1>4. CASE StopBetweenSteps
    BY <1>4, Distances, Moves DEF StopBetweenSteps, Executing, Finish, stepVars
<1>5. CASE EnterRun
    BY <1>5, Distances, Moves DEF EnterRun, Executing, stepVars
<1>6. CASE LoopCancelled
    BY <1>6, Distances, Moves DEF LoopCancelled, Executing, Finish, stepVars
<1>7. CASE FailPlan
    BY <1>7, Distances, Moves DEF FailPlan, Executing, Finish, stepVars
<1>8. CASE LoopFinalize
    BY <1>8, Distances, Moves DEF LoopFinalize, Executing, Goto, stepVars
<1>9. CASE GateStep
  <2>1. PICK s \in Steps : NextReady(s) /\ stepStatus' = [stepStatus EXCEPT ![s] = "awaiting"]
      BY <1>9 DEF GateStep
  <2>2. pc = "loop" /\ pc' = "gated"
      BY <1>9 DEF GateStep, Executing, Goto
  <2>3. Waiting(s) /\ \A t \in Steps \ {s} : stepStatus'[t] = stepStatus[t]
      BY <2>1 DEF NextReady, Ready, Waiting
  <2> QED BY <2>2, <2>3, Distances, Changes
<1>10. CASE GatePlan
    BY <1>10, Distances, Moves DEF GatePlan, Executing, Finish, stepVars
<1>11. CASE ChooseStep
    BY <1>11, Distances, Moves DEF ChooseStep, Executing, stepVars
<1>12. CASE SetRunning
  <2>1. pc = "execute" /\ pc' = "start"
      BY <1>12 DEF SetRunning, Executing, Goto
  <2>2. /\ cur \in Steps /\ Waiting(cur)
        /\ \A t \in Steps \ {cur} : stepStatus'[t] = stepStatus[t]
      BY <1>12, <2>1 DEF SetRunning, ControlOK, PlaceOK, StepLabels, TypeOK, StepTypeOK
  <2> QED BY <2>1, <2>2, Distances, Changes
<1>13. CASE StartFails
    BY <1>13, Distances, Moves DEF StartFails, Executing, GotoNote, stepVars
<1>14. CASE StartRun
    BY <1>14, Distances, Moves DEF StartRun, Executing, Goto, stepVars
<1>15. CASE RejectBeforeDispatch
    BY <1>15, Distances, Moves DEF RejectBeforeDispatch, Executing, GotoNote, stepVars
<1>16. CASE Dispatch
    BY <1>16, Distances, Moves DEF Dispatch, Executing, Goto, stepVars
<1>17. CASE Invoke
    BY <1>17, Distances, Moves DEF Invoke, Executing, Goto, stepVars
<1>18. CASE ToolSucceeds
  <2>1. pc = "tool" /\ pc' = "store"
      BY <1>18 DEF ToolSucceeds, Executing, Goto
  <2>2. /\ cur \in Steps /\ stepStatus[cur] \in InFlight
        /\ \A t \in Steps \ {cur} : stepStatus'[t] = stepStatus[t]
      BY <1>18, <2>1 DEF ToolSucceeds, ControlOK, PlaceOK, StepLabels, TypeOK, StepTypeOK
  <2> QED BY <2>1, <2>2, Distances, Changes
<1>19. CASE ReceiptMissing
    BY <1>19, Distances, Moves DEF ReceiptMissing, Executing, GotoNote, stepVars
<1>20. CASE ToolFails
    BY <1>20, Distances, Moves DEF ToolFails, Executing, GotoNote, stepVars
<1>21. CASE ToolRaises
    BY <1>21, Distances, Moves DEF ToolRaises, Executing, GotoNote, stepVars
<1>22. CASE StopDuringStep
    BY <1>22, Distances, Moves DEF StopDuringStep, Executing, GotoNote, stepVars
<1>23. CASE StopStep
  <2>1. pc = "stopStep" /\ pc' = "stopPlan"
      BY <1>23 DEF StopStep, Executing, Goto
  <2>2. /\ cur \in Steps /\ stepStatus[cur] \in InFlight
        /\ stepStatus'[cur] \in {"done", "failed", "skipped"}
        /\ \A t \in Steps \ {cur} : stepStatus'[t] = stepStatus[t]
      BY <1>23, <2>1 DEF StopStep, ControlOK, PlaceOK, StepLabels, TypeOK, StepTypeOK
  <2> QED BY <2>1, <2>2, Distances, Settles
<1>24. CASE StopPlan
    BY <1>24, Distances, Moves DEF StopPlan, Executing, Finish, stepVars
<1>25. CASE StoreOutput
    BY <1>25, Distances, Moves DEF StoreOutput, Executing, Goto, stepVars
<1>26. CASE StoreFails
    BY <1>26, Distances, Moves DEF StoreFails, Executing, GotoNote, stepVars
<1>27. CASE SealRun
    BY <1>27, Distances, Moves DEF SealRun, Executing, Goto, stepVars
<1>28. CASE BindOutput
    BY <1>28, Distances, Moves DEF BindOutput, Executing, Goto
<1>29. CASE Review
    BY <1>29, Distances, Moves DEF Review, Goto, GotoNote, stepVars
<1>30. CASE ReviewRaises
    BY <1>30, Distances, Moves DEF ReviewRaises, GotoNote, stepVars
<1>31. CASE Publish
    BY <1>31, Distances, Moves DEF Publish, Goto, stepVars
<1>32. CASE PublishFails
    BY <1>32, Distances, Moves DEF PublishFails, GotoNote, stepVars
<1>33. CASE MarkDone
  <2>1. pc = "mark" /\ pc' \in {"loop", "settle", "recover"}
      BY <1>33 DEF MarkDone, Return
  <2>2. /\ cur \in Steps /\ stepStatus[cur] \in InFlight
        /\ stepStatus'[cur] \in {"done", "failed", "skipped"}
        /\ \A t \in Steps \ {cur} : stepStatus'[t] = stepStatus[t]
      BY <1>33, <2>1 DEF MarkDone, ControlOK, PlaceOK, StepLabels, TypeOK, StepTypeOK
  <2> QED BY <2>1, <2>2, Distances, Settles
<1>34. CASE FailStep
  <2>1. pc = "fail" /\ pc' \in {"loop", "settle", "recover"}
      BY <1>34 DEF FailStep, Return
  <2>2. /\ cur \in Steps /\ stepStatus[cur] \in InFlight
        /\ stepStatus'[cur] \in {"done", "failed", "skipped"}
        /\ \A t \in Steps \ {cur} : stepStatus'[t] = stepStatus[t]
      BY <1>34, <2>1 DEF FailStep, ControlOK, PlaceOK, StepLabels, TypeOK, StepTypeOK
  <2> QED BY <2>1, <2>2, Distances, Settles
<1>35. CASE FinalizeUnpublished
  <2>1. pc = "finalize" /\ pc' \in {"wfError", "idle"} /\ stepStatus' = stepStatus
      BY <1>35 DEF FinalizeUnpublished, Goto, Finish, stepVars
  <2> QED BY <2>1, Distances, Moves
<1>36. CASE FreezeEvent
    BY <1>36, Distances, Moves DEF FreezeEvent, Goto, stepVars
<1>37. CASE FreezeCheckpoint
    BY <1>37, Distances, Moves DEF FreezeCheckpoint, Goto, stepVars
<1>38. CASE WorkflowReview
    BY <1>38, Distances, Moves DEF WorkflowReview, Goto, stepVars
<1>39. CASE WorkflowPublish
    BY <1>39, Distances, Moves DEF WorkflowPublish, Goto, stepVars
<1>40. CASE WorkflowFinal
    BY <1>40, Distances, Moves DEF WorkflowFinal, Goto, Finish, stepVars
<1>41. CASE WorkflowError
    BY <1>41, Distances, Moves DEF WorkflowError, Goto, stepVars
<1>42. CASE WorkflowFail
    BY <1>42, Distances, Moves DEF WorkflowFail, Finish, stepVars
<1> QED BY <1>1, <1>2, <1>3, <1>4, <1>5, <1>6, <1>7, <1>8, <1>9, <1>10, <1>11,
     <1>12, <1>13, <1>14, <1>15, <1>16, <1>17, <1>18, <1>19, <1>20, <1>21,
     <1>22, <1>23, <1>24, <1>25, <1>26, <1>27, <1>28, <1>29, <1>30, <1>31,
     <1>32, <1>33, <1>34, <1>35, <1>36, <1>37, <1>38, <1>39, <1>40, <1>41, <1>42
     DEF ExecutorNext

(* Recovery: every step in flight is adopted or failed, once.                 *)
LEMMA RecoveryNearer ==
    ASSUME TypeOK, ControlOK, PlaceOK, RecoveryNext
    PROVE  Nearer
<1>1. CASE Restart
  <2>1. pc = "down" /\ pc' \in {"wfReview", "recover", "idle"} /\ stepStatus' = stepStatus
      BY <1>1 DEF Restart, stepVars
  <2> QED BY <2>1, Distances, Moves
<1>2. CASE RecoverStep
  <2>1. pc = "recover" /\ pc' \in {"adopt", "interrupt"} /\ stepStatus' = stepStatus
      BY <1>2 DEF RecoverStep
  <2> QED BY <2>1, Distances, Moves
<1>3. CASE CloseRunsForOutput
    BY <1>3, Distances, Moves DEF CloseRunsForOutput, Goto, stepVars
<1>4. CASE Authenticate
  <2>1. pc = "authenticate" /\ pc' \in {"complete", "fail"}
      BY <1>4 DEF Authenticate, Goto, GotoNote
  <2>2. /\ cur \in Steps /\ stepStatus[cur] \in InFlight
        /\ \A t \in Steps \ {cur} : stepStatus'[t] = stepStatus[t]
      BY <1>4, <2>1 DEF Authenticate, ControlOK, PlaceOK, StepLabels, TypeOK, StepTypeOK
  <2> QED BY <2>1, <2>2, Distances, Changes
<1>5. CASE InterruptRuns
    BY <1>5, Distances, Moves DEF InterruptRuns, Goto, stepVars
<1>6. CASE RecoveryEnds
    BY <1>6, Distances, Moves DEF RecoveryEnds, stepVars
<1>7. CASE ReclaimCompletion
    BY <1>7, Distances, Moves DEF ReclaimCompletion, Goto, stepVars
<1>8. CASE Reclaim
    BY <1>8, Distances, Moves DEF Reclaim, Finish, stepVars
<1> QED BY <1>1, <1>2, <1>3, <1>4, <1>5, <1>6, <1>7, <1>8 DEF RecoveryNext

(* Reconciler: it reopens once, and then completes.                           *)
LEMMA ReconcilerNearer ==
    ASSUME TypeOK, ControlOK, PlaceOK, ReconcilerNext
    PROVE  Nearer
<1>1. CASE ReopenStep
  <2>1. pc = "reopen" /\ pc' \in {"idle", "complete"}
      BY <1>1 DEF ReopenStep, Finish, GotoNote
  <2> QED BY <2>1, Distances DEF Nearer
<1>2. CASE ReopenWorkflow
  <2>1. pc = "reopen" /\ pc' \in {"idle", "finalize", "record", "wfReview"} /\ stepStatus' = stepStatus
      BY <1>2 DEF ReopenWorkflow, Finish, GotoNote, stepVars
  <2> QED BY <2>1, Distances, Moves
<1>3. CASE SettleFailed
  <2>1. pc = "settle" /\ pc' = "idle" /\ stepStatus' = stepStatus
      BY <1>3 DEF SettleFailed, Finish
  <2> QED BY <2>1, Distances, Moves
<1>4. CASE SettleDone
    BY <1>4, Distances, Moves DEF SettleDone, Goto, stepVars
<1>5. CASE RecordCompletion
    BY <1>5, Distances, Moves DEF RecordCompletion, Finish, stepVars
<1> QED BY <1>1, <1>2, <1>3, <1>4, <1>5 DEF ReconcilerNext

(* The safety half of "every job ends": no loop of the executor, of recovery  *)
(* or of reconciliation comes round without a step less to do.                *)
THEOREM JobAdvancesHolds == Spec => JobAdvances
<1>1. ASSUME LedgerInv, EvidenceInv, [Next]_vars PROVE [StepAdvances]_vars
  <2>1. CASE ServerNext
    <3>1. Nearer
      BY <1>1, <2>1, ExecutorNearer, RecoveryNearer, ReconcilerNearer DEF ServerNext, LedgerInv, EvidenceInv
    <3> QED
      BY <2>1, <3>1 DEF StepAdvances
  <2>2. CASE ~ServerNext /\ UserNext
    <3>1. pc = "idle" \/ (pc' = pc /\ stepStatus' = stepStatus)
      BY <2>2 DEF UserNext, ConfirmPlan, RunPlan, CancelPlan, ConfirmStep, RetryStep, GateAdjust, Rollback,
         ReconcileFenced, ReconcileApplied, ReconcileCompletion, ReconcileWorkflow, Reconcilable, JobFree,
         procVars, stepVars
    <3> QED
      BY <2>2, <3>1 DEF StepAdvances, Todo, Waiting
  <2>3. CASE ~ServerNext /\ (ToolApplies \/ Crash)
    <3>1. pc' = "down" \/ (pc' = pc /\ stepStatus' = stepStatus)
      BY <2>3 DEF ToolApplies, Crash, procVars, stepVars
    <3> QED
      BY <2>3, <3>1 DEF StepAdvances, Todo, Waiting
  <2> QED
    BY <1>1, <2>1, <2>2, <2>3 DEF Next
<1>2. Spec => [][Next]_vars
  BY DEF Spec
<1> QED
  BY <1>1, <1>2, LedgerInvariant, EvidenceInvariant, PTL DEF JobAdvances
=============================================================================
