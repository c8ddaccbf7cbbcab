------------------------- MODULE PlanExecutionProofs -------------------------
(* PlanExecution for every plan, bound on attempts and bound on crashes:      *)
(* LedgerInv (types, control, settled ledger) is inductive, no tool call with *)
(* side effects is repeated blindly, and the ledger implements EffectLedger.  *)
EXTENDS PlanExecution, WellFoundedInduction, TLAPS

(* The order NewestIn descends along.                                         *)
Below == {ss \in Nat \X Nat : ss[1] < ss[2]}

(* The order on the naturals, as a relation, is well founded.                 *)
LEMMA BelowWellFounded == IsWellFoundedOn(Below, Nat)
BY NatLessThanWellFounded DEF OpToRel, Below

(* Newest picks a version of every non-empty set of versions (a bounded set   *)
(* of naturals has a maximum).                                                *)
LEMMA NewestIn ==
    ASSUME NEW V, V \subseteq 1..MaxAttempts, V # {}
    PROVE  Newest(V) \in V
<1> DEFINE T == {n \in Nat : MaxAttempts - n \in V}
<1>0. MaxAttempts \in Nat
    BY BoundAssumption
<1>1. T # {}
  <2>1. PICK v \in V : TRUE
      OBVIOUS
  <2>2. MaxAttempts - v \in Nat /\ MaxAttempts - (MaxAttempts - v) = v
      BY <1>0
  <2> QED BY <2>2
<1>2. PICK x \in T : \A y \in T : ~ (<<y, x>> \in Below)
  <2> HIDE DEF T
  <2>1. T \subseteq Nat
      BY DEF T
  <2> QED BY <1>1, <2>1, BelowWellFounded, WFMin
<1>3. \A y \in T : ~ (y < x)
    BY <1>2 DEF Below
<1>4. \A w \in V : w <= MaxAttempts - x
  <2> SUFFICES ASSUME NEW w \in V PROVE w <= MaxAttempts - x
      OBVIOUS
  <2>1. MaxAttempts - w \in Nat /\ MaxAttempts - (MaxAttempts - w) = w /\ w \in Nat /\ x \in Nat
      BY <1>0, <1>2
  <2>2. ~ (MaxAttempts - w < x)
      BY <1>3, <2>1
  <2> QED BY <1>0, <2>1, <2>2
<1>5. MaxAttempts - x \in V
    BY <1>2
<1> QED
    BY <1>4, <1>5 DEF Newest

(* The version recovery adopts is a version or 0.                             *)
LEMMA EvidenceTyped ==
    ASSUME TypeOK, NEW s \in Steps
    PROVE  Evidence(s) \in Versions
<1>1. OpenVersions(s) \subseteq 1..MaxAttempts /\ SucceededVersions(s) \subseteq 1..MaxAttempts
    BY DEF OpenVersions, SucceededVersions
<1>2. \A V \in SUBSET (1..MaxAttempts) : Newest(V) \in Versions
  <2> SUFFICES ASSUME NEW V \in SUBSET (1..MaxAttempts) PROVE Newest(V) \in Versions
      OBVIOUS
  <2>1. CASE V = {}
      BY <2>1, BoundAssumption DEF Newest, Versions
  <2>2. CASE V # {}
    <3>1. Newest(V) \in V
        BY <2>2, NewestIn
    <3>2. 1..MaxAttempts \subseteq 0..MaxAttempts
        BY BoundAssumption
    <3> QED BY <3>1, <3>2 DEF Versions
  <2> QED BY <2>1, <2>2
<1> QED BY <1>1, <1>2 DEF Evidence, TypeOK, StepTypeOK

(* The versions the parents hold are what an output's evidence may record.    *)
LEMMA ParentVersionsTyped ==
    ASSUME TypeOK, NEW s \in Steps
    PROVE  ParentVersions(s) \in OutputValues
<1>1. Deps[s] \subseteq Steps
    BY DepsAssumption
<1>2. ParentVersions(s) \in [Deps[s] -> 0..MaxAttempts]
    BY <1>1 DEF TypeOK, StepTypeOK, ParentVersions, Versions
<1> QED BY <1>2 DEF OutputValues

(* A group of variables that a step leaves alone stays typed.                 *)
LEMMA Frame ==
    /\ PlanTypeOK /\ UNCHANGED planVars => PlanTypeOK'
    /\ StepTypeOK /\ UNCHANGED stepVars => StepTypeOK'
    /\ RunTypeOK /\ UNCHANGED runVars => RunTypeOK'
    /\ WorldTypeOK /\ UNCHANGED worldVars => WorldTypeOK'
    /\ ProcTypeOK /\ UNCHANGED procVars => ProcTypeOK'
BY DEF PlanTypeOK, planVars, StepTypeOK, stepVars, RunTypeOK, runVars, WorldTypeOK,
       worldVars, ProcTypeOK, procVars

(* The last attempt of a step that has one is a row of the ledger.            *)
LEMMA LastRun ==
    ASSUME TypeOK, NEW s \in Steps, HasRun(s)
    PROVE  Last(s) \in Runs
BY BoundAssumption DEF TypeOK, RunTypeOK, Versions, HasRun, Last, Runs

(* While a tool call is under way the process holds a row of the ledger.      *)
LEMMA CurRun ==
    ASSUME TypeOK, ControlOK, pc \in {"ready", "dispatched", "tool", "store", "seal", "bind"}
    PROVE  cur \in Steps /\ Last(cur) \in Runs
BY LastRun DEF ControlOK

(* The reset of any set of steps keeps steps and ledger typed.                *)
LEMMA ResetTyped ==
    ASSUME TypeOK, NEW C \in SUBSET Steps, NEW K \in SUBSET Steps, NEW V \in SUBSET Steps,
           Reset(C, K, V)
    PROVE  StepTypeOK' /\ RunTypeOK'
<1>1. StepTypeOK'
  <2>1. /\ stepStatus' \in [Steps -> StepStatuses]
        /\ stepErr' \in [Steps -> {"none", "plain", "reconcile"}]
      BY DEF Reset, TypeOK, StepTypeOK, StepStatuses
  <2>2. outRef' \in [Steps -> Versions] /\ confirmed' \subseteq Steps
      BY BoundAssumption DEF Reset, TypeOK, StepTypeOK, Versions
  <2> QED BY <2>1, <2>2 DEF StepTypeOK
<1>2. RunTypeOK'
    BY DEF Reset, TypeOK, RunTypeOK
<1> QED BY <1>1, <1>2

(* Typing, executor.                                                          *)
LEMMA ExecutorTypeOK ==
    ASSUME TypeOK, ControlOK, ExecutorNext
    PROVE  TypeOK'
<1> USE DEF TypeOK
<1>1. CASE MarkJobRunning
  <2>1. ProcTypeOK'
      BY <1>1 DEF MarkJobRunning, ProcTypeOK, Labels, NoStep
  <2> QED BY <1>1, <2>1, Frame DEF MarkJobRunning
<1>2. CASE EnterEnded
  <2>1. ProcTypeOK'
      BY <1>2 DEF EnterEnded, Finish, Goto, ProcTypeOK, Labels, NoStep
  <2> QED BY <1>2, <2>1, Frame DEF EnterEnded
<1>3. CASE EnterRejected
  <2>1. PlanTypeOK'
      BY <1>3 DEF EnterRejected, PlanTypeOK, PlanStatuses
  <2>2. ProcTypeOK'
      BY <1>3 DEF EnterRejected, Finish, ProcTypeOK, Labels, NoStep
  <2> QED BY <1>3, <2>1, <2>2, Frame DEF EnterRejected
<1>4. CASE StopBetweenSteps
  <2>1. PlanTypeOK'
      BY <1>4 DEF StopBetweenSteps, PlanTypeOK, PlanStatuses
  <2>2. ProcTypeOK'
      BY <1>4 DEF StopBetweenSteps, Finish, ProcTypeOK, Labels, NoStep
  <2> QED BY <1>4, <2>1, <2>2, Frame DEF StopBetweenSteps
<1>5. CASE EnterRun
  <2>1. PlanTypeOK'
      BY <1>5 DEF EnterRun, PlanTypeOK, PlanStatuses
  <2>2. ProcTypeOK'
      BY <1>5 DEF EnterRun, ProcTypeOK, Labels, NoStep
  <2> QED BY <1>5, <2>1, <2>2, Frame DEF EnterRun
<1>6. CASE LoopCancelled
  <2>1. ProcTypeOK'
      BY <1>6 DEF LoopCancelled, Finish, ProcTypeOK, Labels, NoStep
  <2> QED BY <1>6, <2>1, Frame DEF LoopCancelled
<1>7. CASE FailPlan
  <2>1. PlanTypeOK'
      BY <1>7 DEF FailPlan, PlanTypeOK, PlanStatuses
  <2>2. ProcTypeOK'
      BY <1>7 DEF FailPlan, Finish, ProcTypeOK, Labels, NoStep
  <2> QED BY <1>7, <2>1, <2>2, Frame DEF FailPlan
<1>8. CASE LoopFinalize
  <2>1. ProcTypeOK'
      BY <1>8 DEF LoopFinalize, Goto, ProcTypeOK, Labels, NoStep
  <2> QED BY <1>8, <2>1, Frame DEF LoopFinalize
<1>9. CASE GateStep
  <2>1. StepTypeOK'
      BY <1>9 DEF GateStep, StepTypeOK, StepStatuses, Versions
  <2>2. ProcTypeOK'
      BY <1>9 DEF GateStep, Goto, ProcTypeOK, Labels, NoStep
  <2> QED BY <1>9, <2>1, <2>2, Frame DEF GateStep
<1>10. CASE GatePlan
  <2>1. PlanTypeOK'
      BY <1>10 DEF GatePlan, SetPlan, PlanTypeOK, PlanStatuses
  <2>2. ProcTypeOK'
      BY <1>10 DEF GatePlan, Finish, ProcTypeOK, Labels, NoStep
  <2> QED BY <1>10, <2>1, <2>2, Frame DEF GatePlan
<1>11. CASE ChooseStep
  <2>1. ProcTypeOK'
      BY <1>11 DEF ChooseStep, ProcTypeOK, Labels, NoStep
  <2> QED BY <1>11, <2>1, Frame DEF ChooseStep
<1>12. CASE SetRunning
  <2>1. StepTypeOK'
      BY <1>12 DEF SetRunning, StepTypeOK, StepStatuses, Versions
  <2>2. ProcTypeOK'
      BY <1>12 DEF SetRunning, Goto, ProcTypeOK, Labels, NoStep
  <2> QED BY <1>12, <2>1, <2>2, Frame DEF SetRunning
<1>13. CASE StartFails
  <2>1. ProcTypeOK'
      BY <1>13 DEF StartFails, GotoNote, ProcTypeOK, Labels, NoStep
  <2> QED BY <1>13, <2>1, Frame DEF StartFails
<1>14. CASE StartRun
  <2>1. RunTypeOK'
    <3>1. attempts[cur] + 1 \in Versions
        BY <1>14, BoundAssumption DEF StartRun, Executing, ControlOK, RunTypeOK, Versions
    <3>2. attempts' \in [Steps -> Versions]
        BY <1>14, <3>1 DEF StartRun, RunTypeOK
    <3>3. runStatus' \in [Runs -> RunStatuses]
        BY <1>14 DEF StartRun, RunTypeOK, RunStatuses
    <3> QED BY <1>14, <3>2, <3>3 DEF StartRun, RunTypeOK
  <2>2. ProcTypeOK'
      BY <1>14 DEF StartRun, Goto, ProcTypeOK, Labels, NoStep
  <2> QED BY <1>14, <2>1, <2>2, Frame DEF StartRun
<1>15. CASE RejectBeforeDispatch
  <2>1. RunTypeOK'
    BY <1>15, CurRun DEF RejectBeforeDispatch, Executing, Close, RunTypeOK, RunStatuses
  <2>2. ProcTypeOK'
      BY <1>15 DEF RejectBeforeDispatch, GotoNote, ProcTypeOK, Labels, NoStep
  <2> QED BY <1>15, <2>1, <2>2, Frame DEF RejectBeforeDispatch
<1>16. CASE Dispatch
  <2>1. RunTypeOK'
    BY <1>16, CurRun DEF Dispatch, Executing, RunTypeOK, RunStatuses
  <2>2. ProcTypeOK'
      BY <1>16 DEF Dispatch, Goto, ProcTypeOK, Labels, NoStep
  <2> QED BY <1>16, <2>1, <2>2, Frame DEF Dispatch
<1>17. CASE Invoke
  <2>1. WorldTypeOK'
    BY <1>17, CurRun DEF Invoke, Executing, WorldTypeOK
  <2>2. ProcTypeOK'
      BY <1>17 DEF Invoke, Goto, ProcTypeOK, Labels, NoStep
  <2> QED BY <1>17, <2>1, <2>2, Frame DEF Invoke
<1>18. CASE ToolSucceeds
  <2>1. StepTypeOK'
      BY <1>18 DEF ToolSucceeds, StepTypeOK, StepStatuses, Versions
  <2>2. WorldTypeOK'
      BY <1>18 DEF ToolSucceeds, WorkerGone, WorldTypeOK
  <2>3. ProcTypeOK'
      BY <1>18 DEF ToolSucceeds, Goto, WorkerGone, ProcTypeOK, Labels, NoStep
  <2> QED BY <1>18, <2>1, <2>2, <2>3, Frame DEF ToolSucceeds
<1>19. CASE ReceiptMissing
  <2>1. RunTypeOK'
    BY <1>19, CurRun DEF ReceiptMissing, Executing, Close, RunTypeOK, RunStatuses
  <2>2. WorldTypeOK'
      BY <1>19 DEF ReceiptMissing, WorkerGone, WorldTypeOK
  <2>3. ProcTypeOK'
      BY <1>19 DEF ReceiptMissing, GotoNote, WorkerGone, ProcTypeOK, Labels,
         NoStep
  <2> QED BY <1>19, <2>1, <2>2, <2>3, Frame DEF ReceiptMissing
<1>20. CASE ToolFails
  <2>1. RunTypeOK'
    BY <1>20, CurRun DEF ToolFails, Executing, Close, RunTypeOK, RunStatuses
  <2>2. WorldTypeOK'
      BY <1>20 DEF ToolFails, WorkerGone, WorldTypeOK
  <2>3. ProcTypeOK'
      BY <1>20 DEF ToolFails, WorkerGone, GotoNote, ProcTypeOK, Labels, NoStep
  <2> QED BY <1>20, <2>1, <2>2, <2>3, Frame DEF ToolFails
<1>21. CASE ToolRaises
  <2>1. RunTypeOK'
    BY <1>21, CurRun DEF ToolRaises, Executing, Close, RunTypeOK, RunStatuses
  <2>2. WorldTypeOK'
      BY <1>21 DEF ToolRaises, WorkerGone, WorldTypeOK
  <2>3. ProcTypeOK'
      BY <1>21 DEF ToolRaises, WorkerGone, GotoNote, ProcTypeOK, Labels,
         NoStep
  <2> QED BY <1>21, <2>1, <2>2, <2>3, Frame DEF ToolRaises
<1>22. CASE StopDuringStep
  <2>1. RunTypeOK'
    BY <1>22, CurRun DEF StopDuringStep, Executing, Close, RunTypeOK, RunStatuses
  <2>2. WorldTypeOK'
      BY <1>22 DEF StopDuringStep, WorkerGone, WorldTypeOK
  <2>3. ProcTypeOK'
      BY <1>22 DEF StopDuringStep, WorkerGone, GotoNote, ProcTypeOK, Labels,
         NoStep
  <2> QED BY <1>22, <2>1, <2>2, <2>3, Frame DEF StopDuringStep
<1>23. CASE StopStep
  <2>1. StepTypeOK'
    BY <1>23 DEF StopStep, Executing, ControlOK, StepTypeOK, StepStatuses
  <2>2. ProcTypeOK'
      BY <1>23 DEF StopStep, Goto, ProcTypeOK, Labels, NoStep
  <2> QED BY <1>23, <2>1, <2>2, Frame DEF StopStep
<1>24. CASE StopPlan
  <2>1. PlanTypeOK'
      BY <1>24 DEF StopPlan, PlanTypeOK, PlanStatuses
  <2>2. ProcTypeOK'
      BY <1>24 DEF StopPlan, Finish, ProcTypeOK, Labels, NoStep
  <2> QED BY <1>24, <2>1, <2>2, Frame DEF StopPlan
<1>25. CASE StoreOutput
  <2>1. RunTypeOK'
    BY <1>25, ParentVersionsTyped DEF StoreOutput, Executing, ControlOK, RunTypeOK
  <2>2. ProcTypeOK'
      BY <1>25 DEF StoreOutput, Goto, ProcTypeOK, Labels, NoStep
  <2> QED BY <1>25, <2>1, <2>2, Frame DEF StoreOutput
<1>26. CASE StoreFails
  <2>1. RunTypeOK'
    BY <1>26, CurRun DEF StoreFails, Executing, Close, RunTypeOK, RunStatuses
  <2>2. ProcTypeOK'
      BY <1>26 DEF StoreFails, GotoNote, ProcTypeOK, Labels, NoStep
  <2> QED BY <1>26, <2>1, <2>2, Frame DEF StoreFails
<1>27. CASE SealRun
  <2>1. RunTypeOK'
    BY <1>27, CurRun DEF SealRun, Executing, Close, RunTypeOK, RunStatuses
  <2>2. ProcTypeOK'
      BY <1>27 DEF SealRun, Goto, ProcTypeOK, Labels, NoStep
  <2> QED BY <1>27, <2>1, <2>2, Frame DEF SealRun
<1>28. CASE BindOutput
  <2>1. StepTypeOK'
    BY <1>28 DEF BindOutput, Executing, ControlOK, StepTypeOK, RunTypeOK
  <2>2. ProcTypeOK'
      BY <1>28 DEF BindOutput, Goto, ProcTypeOK, Labels, NoStep
  <2> QED BY <1>28, <2>1, <2>2, Frame DEF BindOutput
<1>29. CASE Review
  <2>1. RunTypeOK'
      BY <1>29 DEF Review, RunTypeOK, RunStatuses, Versions
  <2>2. ProcTypeOK'
      BY <1>29 DEF Review, Goto, Bound, GotoNote, ProcTypeOK, Labels, NoStep
  <2> QED BY <1>29, <2>1, <2>2, Frame DEF Review
<1>30. CASE ReviewRaises
  <2>1. ProcTypeOK'
      BY <1>30 DEF ReviewRaises, GotoNote, ProcTypeOK, Labels, NoStep
  <2> QED BY <1>30, <2>1, Frame DEF ReviewRaises
<1>31. CASE Publish
  <2>1. ProcTypeOK'
      BY <1>31 DEF Publish, Goto, ProcTypeOK, Labels, NoStep
  <2> QED BY <1>31, <2>1, Frame DEF Publish
<1>32. CASE PublishFails
  <2>1. ProcTypeOK'
      BY <1>32 DEF PublishFails, GotoNote, ProcTypeOK, Labels, NoStep
  <2> QED BY <1>32, <2>1, Frame DEF PublishFails
<1>33. CASE MarkDone
  <2>1. StepTypeOK'
      BY <1>33 DEF MarkDone, StepTypeOK, StepStatuses, Versions
  <2>2. ProcTypeOK'
      BY <1>33 DEF MarkDone, Return, ProcTypeOK, Labels, NoStep
  <2> QED BY <1>33, <2>1, <2>2, Frame DEF MarkDone
<1>34. CASE FailStep
  <2>1. StepTypeOK'
    BY <1>34 DEF FailStep, ControlOK, StepTypeOK, StepStatuses
  <2>2. ProcTypeOK'
      BY <1>34 DEF FailStep, Return, ProcTypeOK, Labels, NoStep
  <2> QED BY <1>34, <2>1, <2>2, Frame DEF FailStep
<1>35. CASE FinalizeUnpublished
  <2>1. PlanTypeOK'
      BY <1>35 DEF FinalizeUnpublished, SetPlan, PlanTypeOK, PlanStatuses
  <2>2. ProcTypeOK'
      BY <1>35 DEF FinalizeUnpublished, Finish, Goto, ProcTypeOK, Labels,
         NoStep
  <2> QED BY <1>35, <2>1, <2>2, Frame DEF FinalizeUnpublished
<1>36. CASE FreezeEvent
  <2>1. PlanTypeOK'
      BY <1>36 DEF FreezeEvent, PlanTypeOK, PlanStatuses
  <2>2. ProcTypeOK'
      BY <1>36 DEF FreezeEvent, Goto, ProcTypeOK, Labels, NoStep
  <2> QED BY <1>36, <2>1, <2>2, Frame DEF FreezeEvent
<1>37. CASE FreezeCheckpoint
  <2>1. PlanTypeOK'
      BY <1>37 DEF FreezeCheckpoint, PlanTypeOK, PlanStatuses
  <2>2. ProcTypeOK'
      BY <1>37 DEF FreezeCheckpoint, Goto, ProcTypeOK, Labels, NoStep
  <2> QED BY <1>37, <2>1, <2>2, Frame DEF FreezeCheckpoint
<1>38. CASE WorkflowReview
  <2>1. PlanTypeOK'
      BY <1>38 DEF WorkflowReview, PlanTypeOK, PlanStatuses
  <2>2. ProcTypeOK'
      BY <1>38 DEF WorkflowReview, Goto, ProcTypeOK, Labels, NoStep
  <2> QED BY <1>38, <2>1, <2>2, Frame DEF WorkflowReview
<1>39. CASE WorkflowPublish
  <2>1. ProcTypeOK'
      BY <1>39 DEF WorkflowPublish, Goto, ProcTypeOK, Labels, NoStep
  <2> QED BY <1>39, <2>1, Frame DEF WorkflowPublish
<1>40. CASE WorkflowFinal
  <2>1. PlanTypeOK'
    BY <1>40 DEF WorkflowFinal, ControlOK, PlanTypeOK, PlanStatuses
  <2>2. ProcTypeOK'
      BY <1>40 DEF WorkflowFinal, Finish, Goto, ProcTypeOK, Labels, NoStep
  <2> QED BY <1>40, <2>1, <2>2, Frame DEF WorkflowFinal
<1>41. CASE WorkflowError
  <2>1. PlanTypeOK'
      BY <1>41 DEF WorkflowError, PlanTypeOK, PlanStatuses
  <2>2. ProcTypeOK'
      BY <1>41 DEF WorkflowError, Goto, ProcTypeOK, Labels, NoStep
  <2> QED BY <1>41, <2>1, <2>2, Frame DEF WorkflowError
<1>42. CASE WorkflowFail
  <2>1. PlanTypeOK'
      BY <1>42 DEF WorkflowFail, SetPlan, PlanTypeOK, PlanStatuses
  <2>2. ProcTypeOK'
      BY <1>42 DEF WorkflowFail, Finish, ProcTypeOK, Labels, NoStep
  <2> QED BY <1>42, <2>1, <2>2, Frame DEF WorkflowFail
<1> QED BY <1>1, <1>2, <1>3, <1>4, <1>5, <1>6, <1>7, <1>8, <1>9, <1>10, <1>11,
   <1>12, <1>13, <1>14, <1>15, <1>16, <1>17, <1>18, <1>19, <1>20, <1>21, <1>22,
   <1>23, <1>24, <1>25, <1>26, <1>27, <1>28, <1>29, <1>30, <1>31, <1>32, <1>33,
   <1>34, <1>35, <1>36, <1>37, <1>38, <1>39, <1>40, <1>41, <1>42 DEF ExecutorNext

(* Typing, recovery.                                                          *)
LEMMA RecoveryTypeOK ==
    ASSUME TypeOK, ControlOK, RecoveryNext
    PROVE  TypeOK'
<1> USE DEF TypeOK
<1>1. CASE Restart
  <2>1. ProcTypeOK'
      BY <1>1 DEF Restart, ProcTypeOK, Labels, NoStep
  <2> QED BY <1>1, <2>1, Frame DEF Restart
<1>2. CASE RecoverStep
  <2>1. StepTypeOK'
    BY <1>2, EvidenceTyped DEF RecoverStep, StepTypeOK
  <2>2. ProcTypeOK'
      BY <1>2 DEF RecoverStep, ProcTypeOK, Labels, NoStep
  <2> QED BY <1>2, <2>1, <2>2, Frame DEF RecoverStep
<1>3. CASE CloseRunsForOutput
  <2>1. RunTypeOK'
      BY <1>3 DEF CloseRunsForOutput, RunTypeOK, RunStatuses, Versions
  <2>2. ProcTypeOK'
      BY <1>3 DEF CloseRunsForOutput, Goto, ProcTypeOK, Labels, NoStep
  <2> QED BY <1>3, <2>1, <2>2, Frame DEF CloseRunsForOutput
<1>4. CASE Authenticate
  <2>1. StepTypeOK'
      BY <1>4 DEF Authenticate, StepTypeOK, StepStatuses, Versions
  <2>2. ProcTypeOK'
      BY <1>4 DEF Authenticate, GotoNote, Goto, ProcTypeOK, Labels, NoStep
  <2> QED BY <1>4, <2>1, <2>2, Frame DEF Authenticate
<1>5. CASE InterruptRuns
  <2>1. RunTypeOK'
    <3>1. RunningRuns(cur) \subseteq Runs
        BY DEF RunningRuns
    <3> QED BY <1>5, <3>1 DEF InterruptRuns, RunTypeOK, RunStatuses
  <2>2. ProcTypeOK'
      BY <1>5 DEF InterruptRuns, Goto, ProcTypeOK, Labels, NoStep
  <2> QED BY <1>5, <2>1, <2>2, Frame DEF InterruptRuns
<1>6. CASE RecoveryEnds
  <2>1. ProcTypeOK'
      BY <1>6 DEF RecoveryEnds, ProcTypeOK, Labels, NoStep
  <2> QED BY <1>6, <2>1, Frame DEF RecoveryEnds
<1>7. CASE Reclaim
  <2>1. PlanTypeOK'
      BY <1>7 DEF Reclaim, PlanTypeOK, PlanStatuses
  <2>2. ProcTypeOK'
      BY <1>7 DEF Reclaim, Finish, ProcTypeOK, Labels, NoStep
  <2> QED BY <1>7, <2>1, <2>2, Frame DEF Reclaim
<1>8. CASE ReclaimCompletion
  <2>1. ProcTypeOK'
      BY <1>8 DEF ReclaimCompletion, Goto, ProcTypeOK, Labels, NoStep
  <2> QED BY <1>8, <2>1, Frame DEF ReclaimCompletion
<1> QED BY <1>1, <1>2, <1>3, <1>4, <1>5, <1>6, <1>7, <1>8 DEF RecoveryNext

(* Typing, reconciler process.                                                *)
LEMMA ReconcilerTypeOK ==
    ASSUME TypeOK, ControlOK, ReconcilerNext
    PROVE  TypeOK'
<1> USE DEF TypeOK
<1>1. CASE ReopenStep
  <2>1. PlanTypeOK'
      BY <1>1 DEF ReopenStep, Closing, Refused, PlanTypeOK, PlanStatuses
  <2>2. StepTypeOK'
      BY <1>1 DEF ReopenStep, StepTypeOK, StepStatuses, Versions
  <2>3. ProcTypeOK'
      BY <1>1 DEF ReopenStep, Finish, GotoNote, Refused, ProcTypeOK, Labels,
         NoStep
  <2> QED BY <1>1, <2>1, <2>2, <2>3, Frame DEF ReopenStep
<1>2. CASE ReopenWorkflow
  <2>1. PlanTypeOK'
      BY <1>2 DEF ReopenWorkflow, Closing, Refused, PlanTypeOK, PlanStatuses
  <2>2. ProcTypeOK'
      BY <1>2 DEF ReopenWorkflow, Finish, GotoNote, Refused, ProcTypeOK,
         Labels, NoStep
  <2> QED BY <1>2, <2>1, <2>2, Frame DEF ReopenWorkflow
<1>3. CASE SettleFailed
  <2>1. PlanTypeOK'
      BY <1>3 DEF SettleFailed, PlanTypeOK, PlanStatuses
  <2>2. StepTypeOK'
      BY <1>3 DEF SettleFailed, StepTypeOK, StepStatuses, Versions
  <2>3. ProcTypeOK'
      BY <1>3 DEF SettleFailed, Finish, ProcTypeOK, Labels, NoStep
  <2> QED BY <1>3, <2>1, <2>2, <2>3, Frame DEF SettleFailed
<1>4. CASE SettleDone
  <2>1. ProcTypeOK'
      BY <1>4 DEF SettleDone, Goto, ProcTypeOK, Labels, NoStep
  <2> QED BY <1>4, <2>1, Frame DEF SettleDone
<1>5. CASE RecordCompletion
  <2>1. PlanTypeOK'
      BY <1>5 DEF RecordCompletion, PlanTypeOK, PlanStatuses
  <2>2. ProcTypeOK'
      BY <1>5 DEF RecordCompletion, Finish, ProcTypeOK, Labels, NoStep
  <2> QED BY <1>5, <2>1, <2>2, Frame DEF RecordCompletion
<1> QED BY <1>1, <1>2, <1>3, <1>4, <1>5 DEF ReconcilerNext

(* Typing, commands of a user.                                                *)
LEMMA UserTypeOK ==
    ASSUME TypeOK, ControlOK, UserNext
    PROVE  TypeOK'
<1> USE DEF TypeOK
<1>1. CASE ConfirmPlan
  <2>1. PlanTypeOK'
      BY <1>1 DEF ConfirmPlan, PlanTypeOK, PlanStatuses
  <2> QED BY <1>1, <2>1, Frame DEF ConfirmPlan
<1>2. CASE RunPlan
  <2>1. ProcTypeOK'
      BY <1>2 DEF RunPlan, Queue, ProcTypeOK, Labels, NoStep
  <2> QED BY <1>2, <2>1, Frame DEF RunPlan
<1>3. CASE CancelPlan
  <2>1. PlanTypeOK'
      BY <1>3 DEF CancelPlan, PlanTypeOK, PlanStatuses
  <2> QED BY <1>3, <2>1, Frame DEF CancelPlan
<1>4. CASE ConfirmStep
  <2>1. StepTypeOK'
      BY <1>4 DEF ConfirmStep, StepTypeOK, StepStatuses, Versions
  <2>2. ProcTypeOK'
      BY <1>4 DEF ConfirmStep, Queue, ProcTypeOK, Labels, NoStep
  <2> QED BY <1>4, <2>1, <2>2, Frame DEF ConfirmStep
<1>5. CASE RetryStep
  <2>1. PlanTypeOK'
      BY <1>5 DEF RetryStep, Resume, PlanTypeOK, PlanStatuses
  <2>2. StepTypeOK'
    <3>1. PICK C \in SUBSET Steps, K \in SUBSET Steps, V \in SUBSET Steps : Reset(C, K, V)
        BY <1>5 DEF RetryStep, Closure
    <3> QED BY <3>1, ResetTyped
  <2>3. RunTypeOK'
    <3>1. PICK C \in SUBSET Steps, K \in SUBSET Steps, V \in SUBSET Steps : Reset(C, K, V)
        BY <1>5 DEF RetryStep, Closure
    <3> QED BY <3>1, ResetTyped
  <2>4. ProcTypeOK'
      BY <1>5 DEF RetryStep, Queue, ProcTypeOK, Labels, NoStep
  <2> QED BY <1>5, <2>1, <2>2, <2>3, <2>4, Frame DEF RetryStep
<1>6. CASE GateAdjust
  <2>1. StepTypeOK'
    <3>1. PICK C \in SUBSET Steps, K \in SUBSET Steps, V \in SUBSET Steps : Reset(C, K, V)
        BY <1>6 DEF GateAdjust, Closure
    <3> QED BY <3>1, ResetTyped
  <2>2. RunTypeOK'
    <3>1. PICK C \in SUBSET Steps, K \in SUBSET Steps, V \in SUBSET Steps : Reset(C, K, V)
        BY <1>6 DEF GateAdjust, Closure
    <3> QED BY <3>1, ResetTyped
  <2>3. ProcTypeOK'
      BY <1>6 DEF GateAdjust, Queue, ProcTypeOK, Labels, NoStep
  <2> QED BY <1>6, <2>1, <2>2, <2>3, Frame DEF GateAdjust
<1>7. CASE Rollback
  <2>1. PlanTypeOK'
      BY <1>7 DEF Rollback, Resume, PlanTypeOK, PlanStatuses
  <2>2. StepTypeOK'
    <3>1. PICK C \in SUBSET Steps, K \in SUBSET Steps, V \in SUBSET Steps : Reset(C, K, V)
        BY <1>7 DEF Rollback, Closure
    <3> QED BY <3>1, ResetTyped
  <2>3. RunTypeOK'
    <3>1. PICK C \in SUBSET Steps, K \in SUBSET Steps, V \in SUBSET Steps : Reset(C, K, V)
        BY <1>7 DEF Rollback, Closure
    <3> QED BY <3>1, ResetTyped
  <2>4. ProcTypeOK'
      BY <1>7 DEF Rollback, Queue, ProcTypeOK, Labels, NoStep
  <2> QED BY <1>7, <2>1, <2>2, <2>3, <2>4, Frame DEF Rollback
<1>8. CASE ReconcileFenced
  <2>1. StepTypeOK'
      BY <1>8 DEF ReconcileFenced, StepTypeOK, StepStatuses, Versions
  <2>2. RunTypeOK'
    BY <1>8, LastRun DEF ReconcileFenced, RunTypeOK
  <2> QED BY <1>8, <2>1, <2>2, Frame DEF ReconcileFenced
<1>9. CASE ReconcileApplied
  <2>1. StepTypeOK'
    BY <1>9 DEF ReconcileApplied, RunTypeOK, StepTypeOK, StepStatuses
  <2>2. RunTypeOK'
    <3>1. PICK s \in Steps :
            /\ runStatus' = [runStatus EXCEPT ![Last(s)] = "succeeded"]
            /\ unknown' = unknown \ {Last(s)}
            /\ output' = [output EXCEPT ![Last(s)] = ParentVersions(s)]
        BY <1>9 DEF ReconcileApplied
    <3>2. runStatus' \in [Runs -> RunStatuses] /\ unknown' \subseteq Runs
        BY <3>1 DEF RunTypeOK, RunStatuses
    <3>3. output' \in [Runs -> OutputValues]
        BY <3>1, ParentVersionsTyped DEF RunTypeOK
    <3> QED BY <1>9, <3>2, <3>3 DEF ReconcileApplied, RunTypeOK
  <2>3. ProcTypeOK'
    BY <1>9 DEF ReconcileApplied, Resumed, procVars, ProcTypeOK, Labels
  <2> QED BY <1>9, <2>1, <2>2, <2>3, Frame DEF ReconcileApplied
<1>10. CASE ReconcileCompletion
  <2>1. ProcTypeOK'
    BY <1>10 DEF ReconcileCompletion, Resumed, procVars, ProcTypeOK, Labels
  <2> QED BY <1>10, <2>1, Frame DEF ReconcileCompletion
<1>11. CASE ReconcileWorkflow
  <2>1. ProcTypeOK'
    BY <1>11 DEF ReconcileWorkflow, Resumed, procVars, ProcTypeOK, Labels
  <2> QED BY <1>11, <2>1, Frame DEF ReconcileWorkflow
<1> QED BY <1>1, <1>2, <1>3, <1>4, <1>5, <1>6, <1>7, <1>8, <1>9, <1>10, <1>11 DEF
   UserNext

(* ControlOK, executor.                                                       *)
LEMMA ExecutorControl ==
    ASSUME LedgerInv, ExecutorNext
    PROVE  ControlOK'
<1> USE DEF LedgerInv, ControlOK, Waiting, HasRun, Last, planVars, stepVars, runVars, worldVars, procVars
<1>1. CASE MarkJobRunning
    BY <1>1 DEF MarkJobRunning
<1>2. CASE EnterEnded
    BY <1>2 DEF EnterEnded, Executing, Finish, Goto, Frozen
<1>3. CASE EnterRejected
    BY <1>3 DEF EnterRejected, Finish, Executing
<1>4. CASE StopBetweenSteps
    BY <1>4 DEF StopBetweenSteps, Finish, Executing
<1>5. CASE EnterRun
    BY <1>5 DEF EnterRun, Executing
<1>6. CASE LoopCancelled
    BY <1>6 DEF LoopCancelled, Finish, Executing
<1>7. CASE FailPlan
    BY <1>7 DEF FailPlan, NextReady, Ready, Finish, Executing
<1>8. CASE LoopFinalize
    BY <1>8 DEF LoopFinalize, Goto, Ready, Executing
<1>9. CASE GateStep
    BY <1>9 DEF GateStep, NextReady, Ready, Goto, Executing
<1>10. CASE GatePlan
    BY <1>10 DEF GatePlan, Finish, SetPlan, Executing
<1>11. CASE ChooseStep
    BY <1>11 DEF ChooseStep, NextReady, Ready, Executing
<1>12. CASE SetRunning
    BY <1>12 DEF SetRunning, Executing, Goto, TypeOK, StepTypeOK
<1>13. CASE StartFails
    BY <1>13 DEF StartFails, GotoNote, Executing
<1>14. CASE StartRun
    <2>1. cur \in Steps /\ attempts[cur] \in Nat /\ attempts[cur] + 1 \in 1..MaxAttempts
        BY <1>14, BoundAssumption DEF StartRun, Executing, TypeOK, RunTypeOK, Versions
    <2>2. attempts'[cur] = attempts[cur] + 1 /\ Last(cur)' = <<cur, attempts[cur] + 1>>
        BY <1>14, <2>1 DEF StartRun, Goto, TypeOK, RunTypeOK
    <2>3. Last(cur)' \in Runs
        BY <2>1, <2>2 DEF Runs
    <2>4. runStatus'[Last(cur)'] = "running"
        BY <1>14, <2>2, <2>3 DEF StartRun, TypeOK, RunTypeOK
    <2>5. Last(cur)' \notin invoked \cup fenced
        BY <2>1, <2>2 DEF SettledLedger
    <2> QED BY <1>14, <2>1, <2>2, <2>4, <2>5 DEF StartRun, Executing, Goto
<1>15. CASE RejectBeforeDispatch
    BY <1>15 DEF RejectBeforeDispatch, Last, GotoNote, Close, Executing
<1>16. CASE Dispatch
    BY <1>16 DEF Dispatch, Goto, Last, Executing
<1>17. CASE Invoke
    BY <1>17 DEF Invoke, Last, Goto, Executing
<1>18. CASE ToolSucceeds
    BY <1>18 DEF ToolSucceeds, Last, Goto, WorkerGone, Executing
<1>19. CASE ReceiptMissing
    BY <1>19 DEF ReceiptMissing, Last, GotoNote, Close, WorkerGone, Executing
<1>20. CASE ToolFails
    BY <1>20 DEF ToolFails, Close, Last, WorkerGone, Executing, GotoNote
<1>21. CASE ToolRaises
    BY <1>21 DEF ToolRaises, Close, Last, WorkerGone, Executing, GotoNote
<1>22. CASE StopDuringStep
    BY <1>22 DEF StopDuringStep, Close, Last, WorkerGone, Executing, GotoNote
<1>23. CASE StopStep
    BY <1>23 DEF StopStep, Goto, Executing
<1>24. CASE StopPlan
    BY <1>24 DEF StopPlan, Finish, Executing
<1>25. CASE StoreOutput
    BY <1>25 DEF StoreOutput, Goto, Last, Executing
<1>26. CASE StoreFails
    BY <1>26 DEF StoreFails, Last, GotoNote, Close, Executing
<1>27. CASE SealRun
    BY <1>27 DEF SealRun, Last, Goto, Close, Executing
<1>28. CASE BindOutput
    BY <1>28 DEF BindOutput, Goto, Executing
<1>29. CASE Review
    BY <1>29 DEF Review, Goto, Bound, GotoNote
<1>30. CASE ReviewRaises
    BY <1>30 DEF ReviewRaises, GotoNote
<1>31. CASE Publish
    BY <1>31 DEF Publish, Goto
<1>32. CASE PublishFails
    BY <1>32 DEF PublishFails, GotoNote
<1>33. CASE MarkDone
    BY <1>33 DEF MarkDone, Return
<1>34. CASE FailStep
    BY <1>34 DEF FailStep, Return
<1>35. CASE FinalizeUnpublished
    BY <1>35 DEF FinalizeUnpublished, SetPlan, Finish, Goto
<1>36. CASE FreezeEvent
    BY <1>36 DEF FreezeEvent, Goto
<1>37. CASE FreezeCheckpoint
    BY <1>37 DEF FreezeCheckpoint, Goto
<1>38. CASE WorkflowReview
    BY <1>38 DEF WorkflowReview, Goto
<1>39. CASE WorkflowPublish
    BY <1>39 DEF WorkflowPublish, Goto
<1>40. CASE WorkflowFinal
    BY <1>40 DEF WorkflowFinal, Finish, Goto
<1>41. CASE WorkflowError
    BY <1>41 DEF WorkflowError, Goto
<1>42. CASE WorkflowFail
    BY <1>42 DEF WorkflowFail, Finish, SetPlan
<1> QED BY <1>1, <1>2, <1>3, <1>4, <1>5, <1>6, <1>7, <1>8, <1>9, <1>10, <1>11,
   <1>12, <1>13, <1>14, <1>15, <1>16, <1>17, <1>18, <1>19, <1>20, <1>21, <1>22,
   <1>23, <1>24, <1>25, <1>26, <1>27, <1>28, <1>29, <1>30, <1>31, <1>32, <1>33,
   <1>34, <1>35, <1>36, <1>37, <1>38, <1>39, <1>40, <1>41, <1>42 DEF ExecutorNext

(* ControlOK, recovery.                                                       *)
LEMMA RecoveryControl ==
    ASSUME LedgerInv, RecoveryNext
    PROVE  ControlOK'
<1> USE DEF LedgerInv, ControlOK, Waiting, HasRun, Last, planVars, stepVars, runVars, worldVars, procVars
<1>1. CASE Restart
    BY <1>1 DEF Restart
<1>2. CASE RecoverStep
    BY <1>2 DEF RecoverStep, Recovering
<1>3. CASE CloseRunsForOutput
    BY <1>3 DEF CloseRunsForOutput, RunningRuns, Goto
<1>4. CASE Authenticate
    BY <1>4 DEF Authenticate, GotoNote, Goto
<1>5. CASE InterruptRuns
    BY <1>5 DEF InterruptRuns, RunningRuns, Goto
<1>6. CASE RecoveryEnds
    BY <1>6 DEF RecoveryEnds
<1>7. CASE Reclaim
    BY <1>7 DEF Reclaim, Finish
<1>8. CASE ReclaimCompletion
    BY <1>8 DEF ReclaimCompletion, Goto
<1> QED BY <1>1, <1>2, <1>3, <1>4, <1>5, <1>6, <1>7, <1>8 DEF RecoveryNext

(* ControlOK, reconciler process.                                             *)
LEMMA ReconcilerControl ==
    ASSUME LedgerInv, ReconcilerNext
    PROVE  ControlOK'
<1> USE DEF LedgerInv, ControlOK, Waiting, HasRun, Last, planVars, stepVars, runVars, worldVars, procVars
<1>1. CASE ReopenStep
    BY <1>1 DEF ReopenStep, Refused, GotoNote, Finish, TypeOK, ProcTypeOK
<1>2. CASE ReopenWorkflow
    BY <1>2 DEF ReopenWorkflow, Finish, Closing, GotoNote, Refused
<1>3. CASE SettleFailed
    BY <1>3 DEF SettleFailed, Finish
<1>4. CASE SettleDone
    BY <1>4 DEF SettleDone, Goto
<1>5. CASE RecordCompletion
    BY <1>5 DEF RecordCompletion, Finish
<1> QED BY <1>1, <1>2, <1>3, <1>4, <1>5 DEF ReconcilerNext

(* ControlOK, commands of a user.                                             *)
LEMMA UserControl ==
    ASSUME LedgerInv, UserNext
    PROVE  ControlOK'
<1> USE DEF LedgerInv, ControlOK, Waiting, HasRun, Last, planVars, stepVars, runVars, worldVars, procVars
<1>1. CASE ConfirmPlan
    BY <1>1 DEF ConfirmPlan, JobFree
<1>2. CASE RunPlan
    BY <1>2 DEF RunPlan, Queue, JobFree
<1>3. CASE CancelPlan
    BY <1>3 DEF CancelPlan
<1>4. CASE ConfirmStep
    BY <1>4 DEF ConfirmStep, Queue, JobFree
<1>5. CASE RetryStep
    BY <1>5 DEF RetryStep, Resume, Queue, Reset, JobFree
<1>6. CASE GateAdjust
    BY <1>6 DEF GateAdjust, Queue, Reset, JobFree
<1>7. CASE Rollback
    BY <1>7 DEF Rollback, Queue, JobFree, Resume, Reset
<1>8. CASE ReconcileFenced
    BY <1>8 DEF ReconcileFenced, Reconcilable, JobFree
<1>9. CASE ReconcileApplied
    BY <1>9 DEF ReconcileApplied, Reconcilable, JobFree
<1>10. CASE ReconcileCompletion
    BY <1>10 DEF ReconcileCompletion, Resumed, HasRun
<1>11. CASE ReconcileWorkflow
    BY <1>11 DEF ReconcileWorkflow, Resumed, JobFree
<1> QED BY <1>1, <1>2, <1>3, <1>4, <1>5, <1>6, <1>7, <1>8, <1>9, <1>10, <1>11 DEF
   UserNext

(* The ledger stays settled under a step that opens no run, calls no tool,    *)
(* forgets no success, mark or fence, and makes a step wait, or starts it,    *)
(* only when its last attempt is settled.                                     *)
LEMMA SettledKept ==
    ASSUME TypeOK, SettledLedger, UNCHANGED <<attempts, invoked>>,
           dispatched \subseteq dispatched', fenced \subseteq fenced',
           \A r \in fenced' \ fenced : r[2] <= attempts[r[1]],
           \A r \in Runs : /\ runStatus[r] = "succeeded" => runStatus'[r] = "succeeded"
                           /\ runStatus'[r] = "none" <=> runStatus[r] = "none",
           \A s \in Steps : Waiting(s)' /\ HasRun(s) => Waiting(s) \/ Settled(Last(s)),
           pc' = "start" => cur' \in Steps /\ (Waiting(cur') \/ (pc = "start" /\ cur' = cur))
    PROVE  SettledLedger'
<1>1. \A r \in Runs : Settled(r) => Settled(r)'
    BY DEF Settled
<1>2. \A s \in Steps : HasRun(s)' = HasRun(s) /\ Last(s)' = Last(s)
    BY DEF HasRun, Last
<1>3. \A s \in Steps : HasRun(s) => Last(s) \in Runs
    BY LastRun
<1>4. \A r \in (invoked \cup fenced)' : r[2] <= attempts'[r[1]]
    BY DEF SettledLedger
<1>5. /\ \A r \in invoked' : r[1] \in Contracted => r \in dispatched'
      /\ \A r \in Runs : r[2] <= attempts'[r[1]] <=> runStatus'[r] # "none"
      /\ \A r \in Runs : r[2] < attempts'[r[1]] => Settled(r)'
    BY <1>1 DEF SettledLedger
<1>6. \A s \in Steps : Waiting(s)' /\ HasRun(s)' => Settled(Last(s))'
    BY <1>1, <1>2, <1>3 DEF SettledLedger
<1>7. (pc = "start" /\ HasRun(cur) => Settled(Last(cur)))'
  <2> SUFFICES ASSUME pc' = "start", HasRun(cur)' PROVE Settled(Last(cur))'
      OBVIOUS
  <2>1. PICK c \in Steps : c = cur'
      OBVIOUS
  <2>2. HasRun(c)
      BY <2>1 DEF HasRun
  <2>3. Settled(Last(c))
      BY <2>1, <2>2 DEF SettledLedger
  <2>4. Settled(Last(c))'
      BY <1>1, <1>3, <2>2, <2>3, <1>2
  <2> QED BY <2>1, <2>4 DEF Last, Settled
<1> QED BY <1>4, <1>5, <1>6, <1>7 DEF SettledLedger

(* The gate of every retry, adjustment and rollback (plans.py:69-115): a step *)
(* it lets through has a settled last attempt.                                *)
LEMMA UnreconciledOtherwiseSettled ==
    ASSUME TypeOK, SettledLedger, NEW s \in Steps, HasRun(s), ~Unreconciled(s)
    PROVE  Settled(Last(s))
<1>1. Last(s) \in Runs /\ runStatus[Last(s)] \in RunStatuses \ {"none"}
    BY LastRun DEF SettledLedger, Last, HasRun, TypeOK, RunTypeOK, Versions
<1>2. Last(s) \in fenced \/ ~UncertainRun(Last(s))
    BY DEF Unreconciled
<1>3. CASE Last(s) \in fenced
    BY <1>3 DEF Settled
<1>4. CASE ~UncertainRun(Last(s))
    BY <1>1, <1>4 DEF UncertainRun, RetrySafe, RunStatuses, SettledLedger, Settled
<1> QED BY <1>2, <1>3, <1>4

(* SettledLedger, executor: only SetRunning, StartRun and Invoke need an      *)
(* argument of their own.                                                     *)
LEMMA ExecutorSettled ==
    ASSUME LedgerInv, ExecutorNext
    PROVE  SettledLedger'
<1> USE DEF LedgerInv, Waiting, planVars, stepVars, runVars, worldVars, procVars
<1>1. CASE MarkJobRunning
    BY <1>1, SettledKept DEF MarkJobRunning
<1>2. CASE EnterEnded
    BY <1>2, SettledKept DEF EnterEnded, Finish, Goto, Executing
<1>3. CASE EnterRejected
    BY <1>3, SettledKept DEF EnterRejected, Finish, Executing
<1>4. CASE StopBetweenSteps
    BY <1>4, SettledKept DEF StopBetweenSteps, Finish, Executing
<1>5. CASE EnterRun
    BY <1>5, SettledKept DEF EnterRun, Executing
<1>6. CASE LoopCancelled
    BY <1>6, SettledKept DEF LoopCancelled, Finish, Executing
<1>7. CASE FailPlan
    BY <1>7, SettledKept DEF FailPlan, NextReady, Ready, Finish, Executing
<1>8. CASE LoopFinalize
    BY <1>8, SettledKept DEF LoopFinalize, Goto, Ready, Executing
<1>9. CASE GateStep
    BY <1>9, SettledKept DEF GateStep, NextReady, Ready, Goto, Executing
<1>10. CASE GatePlan
    BY <1>10, SettledKept DEF GatePlan, Finish, SetPlan, Executing
<1>11. CASE ChooseStep
    BY <1>11, SettledKept DEF ChooseStep, NextReady, Ready, Executing
<1>12. CASE SetRunning
    BY <1>12, SettledKept DEF SetRunning, Goto, Executing, ControlOK, TypeOK, StepTypeOK
<1>13. CASE StartFails
    BY <1>13, SettledKept DEF StartFails, GotoNote, Executing
<1>14. CASE StartRun
  <2> DEFINE new == <<cur, attempts[cur] + 1>>
  <2>1. /\ cur \in Steps /\ attempts[cur] \in Nat /\ new \in Runs /\ new \notin invoked
        /\ stepStatus[cur] = "running"
      BY <1>14, BoundAssumption DEF StartRun, Executing, ControlOK, TypeOK, RunTypeOK,
         Versions, Runs, SettledLedger
  <2>2. /\ attempts' = [attempts EXCEPT ![cur] = @ + 1]
        /\ runStatus' = [runStatus EXCEPT ![new] = "running"]
        /\ pc' = "ready" /\ UNCHANGED <<stepStatus, invoked, dispatched, fenced>>
      BY <1>14 DEF StartRun, Goto
  <2>3. \A t \in Steps : attempts[t] \in Nat /\ attempts'[t] = IF t = cur THEN attempts[t] + 1 ELSE attempts[t]
      BY <2>2 DEF TypeOK, RunTypeOK, Versions
  <2>4. \A r \in Runs : runStatus'[r] = IF r = new THEN "running" ELSE runStatus[r]
      BY <2>2 DEF TypeOK, RunTypeOK
  <2>5. \A r \in Runs : r[1] \in Steps /\ r[2] \in Nat /\ r = <<r[1], r[2]>>
      BY DEF Runs
  <2>6. runStatus[new] = "none"
      BY <2>1, <2>3 DEF SettledLedger, TypeOK, RunTypeOK
  <2>7. \A r \in Runs : Settled(r) => Settled(r)'
      BY <2>2, <2>4, <2>6 DEF Settled
  <2>8. \A r \in invoked' \cup fenced' : r[2] <= attempts'[r[1]]
      BY <2>2, <2>3, <2>5 DEF SettledLedger, TypeOK, RunTypeOK, WorldTypeOK
  <2>9. \A r \in Runs : r[2] <= attempts'[r[1]] <=> runStatus'[r] # "none"
      BY <2>1, <2>3, <2>4, <2>5 DEF SettledLedger
  <2>10. \A r \in Runs : r[2] < attempts'[r[1]] => Settled(r)'
    <3> SUFFICES ASSUME NEW r \in Runs, r[2] < attempts'[r[1]] PROVE Settled(r)
        BY <2>7
    <3>1. CASE r[2] < attempts[r[1]]
        BY <3>1 DEF SettledLedger
    <3>2. CASE ~(r[2] < attempts[r[1]])
      <4>1. r[1] = cur /\ r[2] = attempts[cur]
          BY <2>3, <2>5, <3>2
      <4>2. r = Last(cur) /\ HasRun(cur)
          BY <2>5, <4>1 DEF Last, HasRun, Runs
      <4> QED BY <1>14, <4>2 DEF StartRun, Executing, SettledLedger
    <3> QED BY <3>1, <3>2
  <2>11. \A s \in Steps : Waiting(s)' /\ HasRun(s)' => Settled(Last(s))'
    <3> SUFFICES ASSUME NEW s \in Steps, Waiting(s)', HasRun(s)' PROVE Settled(Last(s))'
        OBVIOUS
    <3>1. Waiting(s) /\ s # cur
        BY <2>1, <2>2
    <3>2. HasRun(s) /\ Last(s)' = Last(s)
        BY <2>3, <3>1 DEF HasRun, Last
    <3>3. Settled(Last(s)) /\ Last(s) \in Runs
        BY <3>1, <3>2, LastRun DEF SettledLedger
    <3>4. Settled(Last(s))'
        BY <2>7, <3>2, <3>3 DEF Settled
    <3> QED BY <3>4
  <2> QED BY <2>1, <2>2, <2>8, <2>9, <2>10, <2>11 DEF SettledLedger
<1>15. CASE RejectBeforeDispatch
    BY <1>15, SettledKept DEF RejectBeforeDispatch, GotoNote, Close, Executing
<1>16. CASE Dispatch
    BY <1>16, SettledKept DEF Dispatch, Goto, Executing
<1>17. CASE Invoke
  <2>1. /\ cur \in Steps /\ Last(cur) \in Runs /\ attempts[cur] \in Nat
        /\ stepStatus[cur] = "running" /\ runStatus[Last(cur)] = "running"
        /\ cur \in Contracted => Last(cur) \in dispatched
      BY <1>17, CurRun DEF Invoke, Executing, ControlOK, TypeOK, RunTypeOK, Versions
  <2>2. invoked' = invoked \cup {Last(cur)} /\ pc' = "tool"
        /\ UNCHANGED <<stepStatus, attempts, runStatus, dispatched, fenced>>
      BY <1>17 DEF Invoke, Goto
  <2>3. \A r \in Runs : r # Last(cur) => Settled(r)' = Settled(r)
      BY <2>2 DEF Settled
  <2>4. \A r \in Runs : r[2] < attempts'[r[1]] => Settled(r)'
      BY <2>1, <2>2, <2>3 DEF SettledLedger, Last
  <2>5. \A s \in Steps : Waiting(s)' /\ HasRun(s)' => Settled(Last(s))'
    <3> SUFFICES ASSUME NEW s \in Steps, Waiting(s)', HasRun(s)' PROVE Settled(Last(s))'
        OBVIOUS
    <3>1. Waiting(s) /\ HasRun(s) /\ s # cur
        BY <2>1, <2>2 DEF HasRun
    <3>2. Settled(Last(s)) /\ Last(s) \in Runs
        BY <3>1, LastRun DEF SettledLedger
    <3>3. Last(s) # Last(cur)
        BY <3>1 DEF Last
    <3> QED BY <2>2, <2>3, <3>2, <3>3 DEF Last, Settled
  <2> QED BY <2>1, <2>2, <2>4, <2>5 DEF SettledLedger, Last
<1>18. CASE ToolSucceeds
    BY <1>18, SettledKept DEF ToolSucceeds, Goto, WorkerGone, Executing
<1>19. CASE ReceiptMissing
    BY <1>19, SettledKept DEF ReceiptMissing, GotoNote, Close, WorkerGone,
       Executing
<1>20. CASE ToolFails
    BY <1>20, SettledKept DEF ToolFails, Close, WorkerGone, Executing, GotoNote
<1>21. CASE ToolRaises
    BY <1>21, SettledKept DEF ToolRaises, Close, WorkerGone, Executing, GotoNote
<1>22. CASE StopDuringStep
    BY <1>22, SettledKept DEF StopDuringStep, Close, WorkerGone, Executing,
       GotoNote
<1>23. CASE StopStep
    BY <1>23, SettledKept DEF StopStep, Goto, Executing
<1>24. CASE StopPlan
    BY <1>24, SettledKept DEF StopPlan, Finish, Executing
<1>25. CASE StoreOutput
    BY <1>25, SettledKept DEF StoreOutput, Goto, Executing
<1>26. CASE StoreFails
    BY <1>26, SettledKept DEF StoreFails, GotoNote, Close, Executing
<1>27. CASE SealRun
    BY <1>27, SettledKept DEF SealRun, Goto, Close, Executing
<1>28. CASE BindOutput
    BY <1>28, SettledKept DEF BindOutput, Goto, Executing
<1>29. CASE Review
    BY <1>29, SettledKept DEF Review, Goto, GotoNote
<1>30. CASE ReviewRaises
    BY <1>30, SettledKept DEF ReviewRaises, GotoNote
<1>31. CASE Publish
    BY <1>31, SettledKept DEF Publish, Goto
<1>32. CASE PublishFails
    BY <1>32, SettledKept DEF PublishFails, GotoNote
<1>33. CASE MarkDone
    BY <1>33, SettledKept DEF MarkDone, Return
<1>34. CASE FailStep
    BY <1>34, SettledKept DEF FailStep, Return
<1>35. CASE FinalizeUnpublished
    BY <1>35, SettledKept DEF FinalizeUnpublished, SetPlan, Finish, Goto
<1>36. CASE FreezeEvent
    BY <1>36, SettledKept DEF FreezeEvent, Goto
<1>37. CASE FreezeCheckpoint
    BY <1>37, SettledKept DEF FreezeCheckpoint, Goto
<1>38. CASE WorkflowReview
    BY <1>38, SettledKept DEF WorkflowReview, Goto
<1>39. CASE WorkflowPublish
    BY <1>39, SettledKept DEF WorkflowPublish, Goto
<1>40. CASE WorkflowFinal
    BY <1>40, SettledKept DEF WorkflowFinal, Finish, Goto
<1>41. CASE WorkflowError
    BY <1>41, SettledKept DEF WorkflowError, Goto
<1>42. CASE WorkflowFail
    BY <1>42, SettledKept DEF WorkflowFail, Finish, SetPlan
<1> QED BY <1>1, <1>2, <1>3, <1>4, <1>5, <1>6, <1>7, <1>8, <1>9, <1>10, <1>11,
   <1>12, <1>13, <1>14, <1>15, <1>16, <1>17, <1>18, <1>19, <1>20, <1>21, <1>22,
   <1>23, <1>24, <1>25, <1>26, <1>27, <1>28, <1>29, <1>30, <1>31, <1>32, <1>33,
   <1>34, <1>35, <1>36, <1>37, <1>38, <1>39, <1>40, <1>41, <1>42 DEF ExecutorNext

(* SettledLedger, recovery.                                                   *)
LEMMA RecoverySettled ==
    ASSUME LedgerInv, RecoveryNext
    PROVE  SettledLedger'
<1> USE DEF LedgerInv, Waiting, planVars, stepVars, runVars, worldVars, procVars
<1>1. CASE Restart
    BY <1>1, SettledKept DEF Restart
<1>2. CASE RecoverStep
    BY <1>2, SettledKept DEF RecoverStep
<1>3. CASE CloseRunsForOutput
    BY <1>3, SettledKept DEF CloseRunsForOutput, RunningRuns, Goto
<1>4. CASE Authenticate
    BY <1>4, SettledKept DEF Authenticate, Goto, GotoNote, ControlOK, TypeOK, StepTypeOK
<1>5. CASE InterruptRuns
    BY <1>5, SettledKept DEF InterruptRuns, RunningRuns, Goto
<1>6. CASE RecoveryEnds
    BY <1>6, SettledKept DEF RecoveryEnds
<1>7. CASE Reclaim
    BY <1>7, SettledKept DEF Reclaim, Finish
<1>8. CASE ReclaimCompletion
    BY <1>8, SettledKept DEF ReclaimCompletion, Goto
<1> QED BY <1>1, <1>2, <1>3, <1>4, <1>5, <1>6, <1>7, <1>8 DEF RecoveryNext

(* SettledLedger, reconciler process.                                         *)
LEMMA ReconcilerSettled ==
    ASSUME LedgerInv, ReconcilerNext
    PROVE  SettledLedger'
<1> USE DEF LedgerInv, Waiting, planVars, stepVars, runVars, worldVars, procVars
<1>1. CASE ReopenStep
    BY <1>1, SettledKept DEF ReopenStep, Finish, GotoNote, TypeOK, StepTypeOK
<1>2. CASE ReopenWorkflow
    BY <1>2, SettledKept DEF ReopenWorkflow, Finish, GotoNote
<1>3. CASE SettleFailed
    BY <1>3, SettledKept DEF SettleFailed, Finish
<1>4. CASE SettleDone
    BY <1>4, SettledKept DEF SettleDone, Goto
<1>5. CASE RecordCompletion
    BY <1>5, SettledKept DEF RecordCompletion, Finish
<1> QED BY <1>1, <1>2, <1>3, <1>4, <1>5 DEF ReconcilerNext

(* SettledLedger, commands of a user: the resets rest on the gate they pass.  *)
LEMMA UserSettled ==
    ASSUME LedgerInv, UserNext
    PROVE  SettledLedger'
<1> USE DEF LedgerInv, Waiting, planVars, stepVars, runVars, worldVars, procVars
<1>1. CASE ConfirmPlan
    BY <1>1, SettledKept DEF ConfirmPlan, JobFree
<1>2. CASE RunPlan
    BY <1>2, SettledKept DEF RunPlan, Queue, JobFree
<1>3. CASE CancelPlan
    BY <1>3, SettledKept DEF CancelPlan, ControlOK
<1>4. CASE ConfirmStep
    BY <1>4, SettledKept DEF ConfirmStep, Queue, JobFree
<1>5. CASE RetryStep
  <2>1. PICK C \in SUBSET Steps, K \in SUBSET Steps, V \in SUBSET Steps :
              Resettable(C) /\ Reset(C, K, V)
      BY <1>5 DEF RetryStep, Closure
  <2>2. \A s \in C : HasRun(s) => Settled(Last(s))
      BY <2>1, UnreconciledOtherwiseSettled DEF Resettable
  <2>3. \A s \in Steps : Waiting(s)' /\ HasRun(s) => Waiting(s) \/ Settled(Last(s))
      BY <2>1, <2>2 DEF Reset
  <2> QED BY <1>5, <2>1, <2>3, SettledKept DEF RetryStep, Reset, Queue
<1>6. CASE GateAdjust
  <2>1. PICK C \in SUBSET Steps, K \in SUBSET Steps, V \in SUBSET Steps :
              Resettable(C) /\ Reset(C, K, V)
      BY <1>6 DEF GateAdjust, Closure
  <2>2. \A s \in C : HasRun(s) => Settled(Last(s))
      BY <2>1, UnreconciledOtherwiseSettled DEF Resettable
  <2>3. \A s \in Steps : Waiting(s)' /\ HasRun(s) => Waiting(s) \/ Settled(Last(s))
      BY <2>1, <2>2 DEF Reset
  <2> QED BY <1>6, <2>1, <2>3, SettledKept DEF GateAdjust, Reset, Queue
<1>7. CASE Rollback
  <2>1. PICK C \in SUBSET Steps, K \in SUBSET Steps, V \in SUBSET Steps :
              Resettable(C) /\ Reset(C, K, V)
      BY <1>7 DEF Rollback, Closure
  <2>2. \A s \in C : HasRun(s) => Settled(Last(s))
      BY <2>1, UnreconciledOtherwiseSettled DEF Resettable
  <2>3. \A s \in Steps : Waiting(s)' /\ HasRun(s) => Waiting(s) \/ Settled(Last(s))
      BY <2>1, <2>2 DEF Reset
  <2> QED BY <1>7, <2>1, <2>3, SettledKept DEF Rollback, Reset, Queue
<1>8. CASE ReconcileFenced
  <2>1. PICK s \in Steps : HasRun(s) /\ fenced' = fenced \cup {Last(s)}
      BY <1>8 DEF ReconcileFenced
  <2>2. \A r \in fenced' \ fenced : r[2] <= attempts[r[1]]
      BY <2>1 DEF Last, TypeOK, RunTypeOK, Versions
  <2> QED BY <1>8, <2>1, <2>2, SettledKept DEF ReconcileFenced, Reconcilable, JobFree
<1>9. CASE ReconcileApplied
  <2>1. PICK s \in Steps :
          /\ runStatus[Last(s)] \in {"failed", "interrupted", "running"}
          /\ runStatus' = [runStatus EXCEPT ![Last(s)] = "succeeded"]
          /\ stepStatus' \in {[stepStatus EXCEPT ![s] = "failed"], [stepStatus EXCEPT ![s] = "checking"]}
      BY <1>9 DEF ReconcileApplied
  <2>2. \A r \in Runs : /\ runStatus[r] = "succeeded" => runStatus'[r] = "succeeded"
                        /\ runStatus'[r] = "none" <=> runStatus[r] = "none"
      BY <2>1 DEF TypeOK, RunTypeOK
  <2>3. \A t \in Steps : Waiting(t)' => Waiting(t)
      BY <2>1 DEF TypeOK, StepTypeOK
  <2>4. pc' # "start"
      BY <1>9 DEF ReconcileApplied, Reconcilable, JobFree
  <2> QED BY <1>9, <2>2, <2>3, <2>4, SettledKept DEF ReconcileApplied
<1>10. CASE ReconcileCompletion
    BY <1>10, SettledKept DEF ReconcileCompletion
<1>11. CASE ReconcileWorkflow
    BY <1>11, SettledKept DEF ReconcileWorkflow, JobFree
<1> QED BY <1>1, <1>2, <1>3, <1>4, <1>5, <1>6, <1>7, <1>8, <1>9, <1>10, <1>11 DEF
   UserNext

-----------------------------------------------------------------------------
(* A new plan satisfies the inductive invariant.                              *)
LEMMA LedgerInvInit == Init => LedgerInv
<1> SUFFICES ASSUME Init PROVE LedgerInv
    OBVIOUS
<1>1. TypeOK
  <2>1. PlanTypeOK /\ WorldTypeOK
      BY DEF Init, PlanTypeOK, WorldTypeOK, PlanStatuses
  <2>2. ProcTypeOK /\ crashes \in 0..CrashLimit
      BY BoundAssumption DEF Init, ProcTypeOK, Labels
  <2>3. StepTypeOK
      BY BoundAssumption DEF Init, StepTypeOK, StepStatuses, Versions
  <2>4. RunTypeOK
    <3>1. NoOutput \in OutputValues
      <4> DEFINE stored == UNION {[Deps[s] -> 0..MaxAttempts] : s \in Steps}
      <4>1. OutputValues = stored \cup {NoOutput}
          BY Zenon DEF OutputValues
      <4> HIDE DEF stored
      <4> QED BY <4>1
    <3>2. 0 \in Versions
        BY BoundAssumption DEF Versions
    <3> QED BY <3>1, <3>2 DEF Init, RunTypeOK, RunStatuses
  <2> QED BY <2>1, <2>2, <2>3, <2>4 DEF TypeOK
<1>2. ControlOK
    BY DEF Init, ControlOK
<1>3. SettledLedger
    BY DEF Init, SettledLedger, Waiting, HasRun, Settled, Runs
<1> QED BY <1>1, <1>2, <1>3 DEF LedgerInv

(* Every step of the server, of a user, of a tool and every crash keeps it.   *)
LEMMA LedgerInvStep ==
    ASSUME LedgerInv, [Next]_vars
    PROVE  LedgerInv'
<1>1. CASE ExecutorNext
    BY <1>1, ExecutorTypeOK, ExecutorControl, ExecutorSettled DEF LedgerInv
<1>2. CASE RecoveryNext
    BY <1>2, RecoveryTypeOK, RecoveryControl, RecoverySettled DEF LedgerInv
<1>3. CASE ReconcilerNext
    BY <1>3, ReconcilerTypeOK, ReconcilerControl, ReconcilerSettled DEF LedgerInv
<1>4. CASE UserNext
    BY <1>4, UserTypeOK, UserControl, UserSettled DEF LedgerInv
<1>5. CASE ToolApplies
  <2>1. TypeOK'
    <3>1. WorldTypeOK'
        BY <1>5 DEF ToolApplies, LedgerInv, TypeOK, WorldTypeOK
    <3> QED BY <1>5, <3>1, Frame DEF ToolApplies, LedgerInv, TypeOK
  <2>2. ControlOK' /\ SettledLedger'
      BY <1>5 DEF ToolApplies, LedgerInv, ControlOK, SettledLedger, Settled, Waiting, HasRun,
         Last, planVars, stepVars, runVars, procVars
  <2> QED BY <2>1, <2>2 DEF LedgerInv
<1>6. CASE Crash
  <2>1. TypeOK'
    <3>1. ProcTypeOK' /\ crashes' \in 0..CrashLimit
        BY <1>6, BoundAssumption DEF Crash, LedgerInv, TypeOK, ProcTypeOK, Labels, NoStep
    <3> QED BY <1>6, <3>1, Frame DEF Crash, LedgerInv, TypeOK
  <2>2. ControlOK' /\ SettledLedger'
      BY <1>6 DEF Crash, LedgerInv, ControlOK, SettledLedger, Settled, Waiting, HasRun,
         Last, planVars, stepVars, runVars, worldVars
  <2> QED BY <2>1, <2>2 DEF LedgerInv
<1>7. CASE UNCHANGED vars
  <2>1. TypeOK'
      BY <1>7, Frame DEF vars, LedgerInv, TypeOK
  <2>2. ControlOK' /\ SettledLedger'
      BY <1>7 DEF vars, LedgerInv, ControlOK, SettledLedger, Settled, Waiting, HasRun,
         Last, planVars, stepVars, runVars, worldVars, procVars
  <2> QED BY <2>1, <2>2 DEF LedgerInv
<1> QED BY <1>1, <1>2, <1>3, <1>4, <1>5, <1>6, <1>7 DEF Next, ServerNext

(* The inductive invariant holds in every reachable state.                    *)
THEOREM LedgerInvariant == Spec => []LedgerInv
BY LedgerInvInit, LedgerInvStep, PTL DEF Spec

(* Every variable has its type in every reachable state.                      *)
THEOREM TypeCorrect == Spec => []TypeOK
<1>1. LedgerInv => TypeOK
    BY DEF LedgerInv
<1> QED BY <1>1, LedgerInvariant, PTL

(* No attempt of a step calls its tool while an earlier call with side        *)
(* effects is unsettled, for every plan, every number of attempts and of      *)
(* crashes (plans.py:97, plan_recovery.py:148, executor.py:464).              *)
THEOREM NoBlindReexecutionHolds == Spec => []NoBlindReexecution
<1>1. LedgerInv => NoBlindReexecution
  <2> SUFFICES ASSUME LedgerInv, NEW r \in invoked, NEW a \in 1..MaxAttempts, a < r[2]
               PROVE  Settled(<<r[1], a>>)
      BY DEF NoBlindReexecution
  <2>1. r \in Runs /\ r[1] \in Steps /\ r[2] \in Nat /\ <<r[1], a>> \in Runs
      BY DEF LedgerInv, TypeOK, WorldTypeOK, Runs
  <2>2. a < attempts[r[1]]
      BY <2>1, BoundAssumption DEF LedgerInv, SettledLedger, TypeOK, RunTypeOK, Versions
  <2> QED BY <2>1, <2>2 DEF LedgerInv, SettledLedger
<1> QED BY <1>1, LedgerInvariant, PTL

-----------------------------------------------------------------------------
(* The refinement mapping of known, and a step of the effect ledger.          *)
Known == {r \in Runs : runStatus[r] = "succeeded" \/ r \in fenced}
LedgerStep == Ledger!Next \/ UNCHANGED <<invoked, Known>>

(* A step that calls no tool and settles at most one run is a step of the     *)
(* effect ledger.                                                             *)
LEMMA OneMoreKnown ==
    ASSUME NEW x, UNCHANGED invoked, Known \subseteq Known', Known' \subseteq Known \cup {x}
    PROVE  LedgerStep
<1>1. CASE Known' = Known
    BY <1>1 DEF LedgerStep
<1>2. CASE Known' # Known
  <2>1. x \in Known' /\ x \notin Known /\ Known' = Known \cup {x}
      BY <1>2
  <2>2. x \in Ledger!Attempts
      BY <2>1 DEF Known, Ledger!Attempts, Runs
  <2>3. Ledger!Settle(x)
      BY <2>1 DEF Ledger!Settle, Known
  <2> QED BY <2>2, <2>3 DEF LedgerStep, Ledger!Next
<1> QED BY <1>1, <1>2

(* Refinement, executor: Invoke is Call, SealRun is Settle.                   *)
LEMMA ExecutorRefines ==
    ASSUME LedgerInv, ExecutorNext
    PROVE  LedgerStep
<1> USE DEF LedgerStep, Known, runVars, worldVars
<1>1. CASE MarkJobRunning
    BY <1>1 DEF MarkJobRunning
<1>2. CASE EnterEnded
    BY <1>2 DEF EnterEnded
<1>3. CASE EnterRejected
    BY <1>3 DEF EnterRejected
<1>4. CASE StopBetweenSteps
    BY <1>4 DEF StopBetweenSteps
<1>5. CASE EnterRun
    BY <1>5 DEF EnterRun
<1>6. CASE LoopCancelled
    BY <1>6 DEF LoopCancelled
<1>7. CASE FailPlan
    BY <1>7 DEF FailPlan
<1>8. CASE LoopFinalize
    BY <1>8 DEF LoopFinalize
<1>9. CASE GateStep
    BY <1>9 DEF GateStep
<1>10. CASE GatePlan
    BY <1>10 DEF GatePlan
<1>11. CASE ChooseStep
    BY <1>11 DEF ChooseStep
<1>12. CASE SetRunning
    BY <1>12 DEF SetRunning
<1>13. CASE StartFails
    BY <1>13 DEF StartFails
<1>14. CASE StartRun
  <2>1. /\ runStatus[<<cur, attempts[cur] + 1>>] = "none" \/ <<cur, attempts[cur] + 1>> \notin Runs
        /\ runStatus' = [runStatus EXCEPT ![<<cur, attempts[cur] + 1>>] = "running"]
        /\ UNCHANGED <<fenced, invoked>>
      BY <1>14 DEF StartRun, Executing, LedgerInv, ControlOK, TypeOK, RunTypeOK, Versions, SettledLedger
  <2> QED BY <2>1 DEF LedgerInv, TypeOK, RunTypeOK
<1>15. CASE RejectBeforeDispatch
    BY <1>15 DEF RejectBeforeDispatch, Close
<1>16. CASE Dispatch
    BY <1>16 DEF Dispatch
<1>17. CASE Invoke
  <2>1. /\ cur \in Steps /\ Last(cur) \in Runs /\ runStatus[Last(cur)] = "running"
        /\ Last(cur) \notin invoked \cup fenced
      BY <1>17, CurRun DEF Invoke, Executing, LedgerInv, ControlOK
  <2>2. \A q \in invoked : q[1] = cur => q[2] < attempts[cur] /\ Settled(q)
    <3> SUFFICES ASSUME NEW q \in invoked, q[1] = cur
                 PROVE  q[2] < attempts[cur] /\ Settled(q)
        OBVIOUS
    <3>1. q \in Runs /\ q = <<q[1], q[2]>> /\ q[2] \in Nat /\ attempts[cur] \in Nat
        BY <2>1 DEF LedgerInv, TypeOK, WorldTypeOK, RunTypeOK, Versions, Runs
    <3>2. q[2] <= attempts[cur] /\ q[2] # attempts[cur]
        BY <2>1, <3>1 DEF LedgerInv, SettledLedger, Last
    <3>3. q[2] < attempts[cur]
        BY <3>1, <3>2
    <3> QED BY <3>1, <3>3 DEF LedgerInv, SettledLedger
  <2>3. \A q \in invoked : q[1] = cur /\ q[1] \in Steps \ ReadOnly => q \in Known
      BY <2>2 DEF Settled, LedgerInv, TypeOK, WorldTypeOK
  <2>4. UNCHANGED Known /\ invoked' = invoked \cup {Last(cur)}
      BY <1>17 DEF Invoke
  <2>5. Ledger!Call(Last(cur))
      BY <2>1, <2>2, <2>3, <2>4 DEF Ledger!Call, Last
  <2>6. Last(cur) \in Ledger!Attempts
      BY <2>1 DEF Ledger!Attempts, Runs
  <2> QED BY <2>5, <2>6 DEF Ledger!Next
<1>18. CASE ToolSucceeds
    BY <1>18 DEF ToolSucceeds, WorkerGone
<1>19. CASE ReceiptMissing
    BY <1>19 DEF ReceiptMissing, Close, WorkerGone
<1>20. CASE ToolFails
    BY <1>20 DEF ToolFails, Close, WorkerGone
<1>21. CASE ToolRaises
    BY <1>21 DEF ToolRaises, Close, WorkerGone
<1>22. CASE StopDuringStep
    BY <1>22 DEF StopDuringStep, Close, WorkerGone
<1>23. CASE StopStep
    BY <1>23 DEF StopStep
<1>24. CASE StopPlan
    BY <1>24 DEF StopPlan
<1>25. CASE StoreOutput
    BY <1>25 DEF StoreOutput
<1>26. CASE StoreFails
    BY <1>26 DEF StoreFails, Close
<1>27. CASE SealRun
  <2>1. UNCHANGED <<invoked, fenced>> /\ runStatus' = [runStatus EXCEPT ![Last(cur)] = "succeeded"]
      BY <1>27 DEF SealRun, Close
  <2> QED BY <2>1, OneMoreKnown DEF LedgerInv, TypeOK, RunTypeOK
<1>28. CASE BindOutput
    BY <1>28 DEF BindOutput
<1>29. CASE Review
    BY <1>29 DEF Review
<1>30. CASE ReviewRaises
    BY <1>30 DEF ReviewRaises
<1>31. CASE Publish
    BY <1>31 DEF Publish
<1>32. CASE PublishFails
    BY <1>32 DEF PublishFails
<1>33. CASE MarkDone
    BY <1>33 DEF MarkDone
<1>34. CASE FailStep
    BY <1>34 DEF FailStep
<1>35. CASE FinalizeUnpublished
    BY <1>35 DEF FinalizeUnpublished
<1>36. CASE FreezeEvent
    BY <1>36 DEF FreezeEvent
<1>37. CASE FreezeCheckpoint
    BY <1>37 DEF FreezeCheckpoint
<1>38. CASE WorkflowReview
    BY <1>38 DEF WorkflowReview
<1>39. CASE WorkflowPublish
    BY <1>39 DEF WorkflowPublish
<1>40. CASE WorkflowFinal
    BY <1>40 DEF WorkflowFinal
<1>41. CASE WorkflowError
    BY <1>41 DEF WorkflowError
<1>42. CASE WorkflowFail
    BY <1>42 DEF WorkflowFail
<1> QED BY <1>1, <1>2, <1>3, <1>4, <1>5, <1>6, <1>7, <1>8, <1>9, <1>10, <1>11,
   <1>12, <1>13, <1>14, <1>15, <1>16, <1>17, <1>18, <1>19, <1>20, <1>21, <1>22,
   <1>23, <1>24, <1>25, <1>26, <1>27, <1>28, <1>29, <1>30, <1>31, <1>32, <1>33,
   <1>34, <1>35, <1>36, <1>37, <1>38, <1>39, <1>40, <1>41, <1>42 DEF ExecutorNext

(* Refinement, recovery: adopting an output settles its run.                  *)
LEMMA RecoveryRefines ==
    ASSUME LedgerInv, RecoveryNext
    PROVE  LedgerStep
<1> USE DEF LedgerStep, Known, runVars, worldVars
<1>1. CASE Restart
    BY <1>1 DEF Restart
<1>2. CASE RecoverStep
    BY <1>2 DEF RecoverStep
<1>3. CASE CloseRunsForOutput
  <2>1. UNCHANGED <<invoked, fenced>>
      BY <1>3 DEF CloseRunsForOutput
  <2>2. \A r \in Runs : /\ runStatus[r] = "succeeded" => runStatus'[r] = "succeeded"
                        /\ runStatus'[r] = "succeeded" =>
                            runStatus[r] = "succeeded" \/ r = <<cur, outRef[cur]>>
      BY <1>3 DEF CloseRunsForOutput, RunningRuns, LedgerInv, TypeOK, RunTypeOK
  <2>3. Known \subseteq Known'
    <3> SUFFICES ASSUME NEW q \in Known PROVE q \in Known'
        OBVIOUS
    <3>1. q \in Runs /\ (runStatus[q] = "succeeded" \/ q \in fenced)
        OBVIOUS
    <3>2. q \in Runs /\ (runStatus'[q] = "succeeded" \/ q \in fenced')
        BY <2>1, <2>2, <3>1
    <3> QED BY <3>2
  <2>4. Known' \subseteq Known \cup {<<cur, outRef[cur]>>}
      BY <2>1, <2>2, Zenon
  <2> QED BY <2>1, <2>3, <2>4, OneMoreKnown
<1>4. CASE Authenticate
    BY <1>4 DEF Authenticate
<1>5. CASE InterruptRuns
    BY <1>5 DEF InterruptRuns, RunningRuns, LedgerInv, TypeOK, RunTypeOK
<1>6. CASE RecoveryEnds
    BY <1>6 DEF RecoveryEnds
<1>7. CASE Reclaim
    BY <1>7 DEF Reclaim
<1>8. CASE ReclaimCompletion
    BY <1>8 DEF ReclaimCompletion
<1> QED BY <1>1, <1>2, <1>3, <1>4, <1>5, <1>6, <1>7, <1>8 DEF RecoveryNext

(* Refinement, reconciler process: all steps stutter.                         *)
LEMMA ReconcilerRefines ==
    ASSUME LedgerInv, ReconcilerNext
    PROVE  LedgerStep
<1> USE DEF LedgerStep, Known, runVars, worldVars
<1>1. CASE ReopenStep
    BY <1>1 DEF ReopenStep
<1>2. CASE ReopenWorkflow
    BY <1>2 DEF ReopenWorkflow
<1>3. CASE SettleFailed
    BY <1>3 DEF SettleFailed
<1>4. CASE SettleDone
    BY <1>4 DEF SettleDone
<1>5. CASE RecordCompletion
    BY <1>5 DEF RecordCompletion
<1> QED BY <1>1, <1>2, <1>3, <1>4, <1>5 DEF ReconcilerNext

(* Refinement, commands of a user: reconciliation settles one run.            *)
LEMMA UserRefines ==
    ASSUME LedgerInv, UserNext
    PROVE  LedgerStep
<1> USE DEF LedgerStep, Known, runVars, worldVars
<1>1. CASE ConfirmPlan
    BY <1>1 DEF ConfirmPlan
<1>2. CASE RunPlan
    BY <1>2 DEF RunPlan
<1>3. CASE CancelPlan
    BY <1>3 DEF CancelPlan
<1>4. CASE ConfirmStep
    BY <1>4 DEF ConfirmStep
<1>5. CASE RetryStep
    BY <1>5 DEF RetryStep, Reset
<1>6. CASE GateAdjust
    BY <1>6 DEF GateAdjust, Reset
<1>7. CASE Rollback
    BY <1>7 DEF Rollback, Reset
<1>8. CASE ReconcileFenced
  <2>1. PICK s \in Steps : fenced' = fenced \cup {Last(s)}
      BY <1>8 DEF ReconcileFenced
  <2> QED BY <1>8, <2>1, OneMoreKnown DEF ReconcileFenced
<1>9. CASE ReconcileApplied
  <2>1. PICK s \in Steps : runStatus' = [runStatus EXCEPT ![Last(s)] = "succeeded"]
      BY <1>9 DEF ReconcileApplied
  <2> QED BY <1>9, <2>1, OneMoreKnown DEF ReconcileApplied, LedgerInv, TypeOK, RunTypeOK
<1>10. CASE ReconcileCompletion
    BY <1>10 DEF ReconcileCompletion
<1>11. CASE ReconcileWorkflow
    BY <1>11 DEF ReconcileWorkflow
<1> QED BY <1>1, <1>2, <1>3, <1>4, <1>5, <1>6, <1>7, <1>8, <1>9, <1>10, <1>11 DEF
   UserNext

(* The step-run ledger implements EffectLedger: a tool call is Call, sealing, *)
(* adopting, restoring or fencing a run is Settle, all else stutters.         *)
THEOREM Refinement == Spec => RefinesEffectLedger
<1>1. Init => Ledger!Init
    BY DEF Init, Ledger!Init
<1>2. LedgerInv /\ [Next]_vars => LedgerStep
  <2> SUFFICES ASSUME LedgerInv, [Next]_vars PROVE LedgerStep
      OBVIOUS
  <2>1. CASE ToolApplies \/ Crash \/ UNCHANGED vars
      BY <2>1 DEF ToolApplies, Crash, LedgerStep, Known, vars, runVars, worldVars
  <2>2. CASE ServerNext \/ UserNext
      BY <2>2, ExecutorRefines, RecoveryRefines, ReconcilerRefines, UserRefines DEF ServerNext
  <2> QED BY <2>1, <2>2 DEF Next
<1>3. LedgerStep => [Ledger!Next]_<<invoked, Known>>
    BY DEF LedgerStep
<1> QED BY <1>1, <1>2, <1>3, LedgerInvariant, PTL DEF Spec, RefinesEffectLedger, Ledger!Spec, Known
-----------------------------------------------------------------------------
(* A user's cancel is undone by nobody but a user: CancelSticks, from the     *)
(* invariant CancelInv.                                                        *)

(* The executor keeps CancelInv and leaves a cancelled plan cancelled: its     *)
(* plan writes go through SetPlan or need review, which refuses a cancel.      *)
LEMMA ExecutorCancel ==
    ASSUME CancelInv, ExecutorNext
    PROVE  CancelInv' /\ CancelKept
<1> USE DEF CancelInv, CancelKept, Cancelled, planVars, procVars
<1>1. CASE MarkJobRunning
    BY <1>1 DEF MarkJobRunning
<1>2. CASE EnterEnded
    BY <1>2 DEF EnterEnded, Runnable, Frozen, Finish, Goto, Executing
<1>3. CASE EnterRejected
    BY <1>3 DEF EnterRejected, Runnable, Finish, Executing
<1>4. CASE StopBetweenSteps
    BY <1>4 DEF StopBetweenSteps, Runnable, Frozen, Finish, Executing
<1>5. CASE EnterRun
    BY <1>5 DEF EnterRun, Runnable, Frozen, Executing
<1>6. CASE LoopCancelled
    BY <1>6 DEF LoopCancelled, Finish, Executing
<1>7. CASE FailPlan
    BY <1>7 DEF FailPlan, Executing, Finish
<1>8. CASE LoopFinalize
    BY <1>8 DEF LoopFinalize, Goto, Executing
<1>9. CASE GateStep
    BY <1>9 DEF GateStep, Executing, Goto
<1>10. CASE GatePlan
    BY <1>10 DEF GatePlan, Finish, SetPlan, Executing
<1>11. CASE ChooseStep
    BY <1>11 DEF ChooseStep, Executing
<1>12. CASE SetRunning
    BY <1>12 DEF SetRunning, Goto, Executing
<1>13. CASE StartFails
    BY <1>13 DEF StartFails, GotoNote, Executing
<1>14. CASE StartRun
    BY <1>14 DEF StartRun, Goto, Executing
<1>15. CASE RejectBeforeDispatch
    BY <1>15 DEF RejectBeforeDispatch, GotoNote, Executing
<1>16. CASE Dispatch
    BY <1>16 DEF Dispatch, Executing, Goto
<1>17. CASE Invoke
    BY <1>17 DEF Invoke, Goto, Executing
<1>18. CASE ToolSucceeds
    BY <1>18 DEF ToolSucceeds, Goto, Executing
<1>19. CASE ReceiptMissing
    BY <1>19 DEF ReceiptMissing, GotoNote, Executing
<1>20. CASE ToolFails
    BY <1>20 DEF ToolFails, Executing, GotoNote
<1>21. CASE ToolRaises
    BY <1>21 DEF ToolRaises, Executing, GotoNote
<1>22. CASE StopDuringStep
    BY <1>22 DEF StopDuringStep, Executing, GotoNote
<1>23. CASE StopStep
    BY <1>23 DEF StopStep, Goto, Executing
<1>24. CASE StopPlan
    BY <1>24 DEF StopPlan, Finish, Executing
<1>25. CASE StoreOutput
    BY <1>25 DEF StoreOutput, Executing, Goto
<1>26. CASE StoreFails
    BY <1>26 DEF StoreFails, GotoNote, Executing
<1>27. CASE SealRun
    BY <1>27 DEF SealRun, Goto, Executing
<1>28. CASE BindOutput
    BY <1>28 DEF BindOutput, Goto, Executing
<1>29. CASE Review
    BY <1>29 DEF Review, GotoNote, Goto
<1>30. CASE ReviewRaises
    BY <1>30 DEF ReviewRaises, GotoNote
<1>31. CASE Publish
    BY <1>31 DEF Publish, Goto
<1>32. CASE PublishFails
    BY <1>32 DEF PublishFails, GotoNote
<1>33. CASE MarkDone
    BY <1>33 DEF MarkDone, Return
<1>34. CASE FailStep
    BY <1>34 DEF FailStep, Return
<1>35. CASE FinalizeUnpublished
    BY <1>35 DEF FinalizeUnpublished, Finish, SetPlan, Goto
<1>36. CASE FreezeEvent
    BY <1>36 DEF FreezeEvent, Goto
<1>37. CASE FreezeCheckpoint
    BY <1>37 DEF FreezeCheckpoint, Goto
<1>38. CASE WorkflowReview
    BY <1>38 DEF WorkflowReview, Goto
<1>39. CASE WorkflowPublish
    BY <1>39 DEF WorkflowPublish, Goto
<1>40. CASE WorkflowFinal
    BY <1>40 DEF WorkflowFinal, Finish, Goto
<1>41. CASE WorkflowError
    BY <1>41 DEF WorkflowError, Goto
<1>42. CASE WorkflowFail
    BY <1>42 DEF WorkflowFail, Finish, SetPlan
<1> QED BY <1>1, <1>2, <1>3, <1>4, <1>5, <1>6, <1>7, <1>8, <1>9, <1>10, <1>11,
   <1>12, <1>13, <1>14, <1>15, <1>16, <1>17, <1>18, <1>19, <1>20, <1>21, <1>22,
   <1>23, <1>24, <1>25, <1>26, <1>27, <1>28, <1>29, <1>30, <1>31, <1>32, <1>33,
   <1>34, <1>35, <1>36, <1>37, <1>38, <1>39, <1>40, <1>41, <1>42 DEF ExecutorNext

(* Recovery works on plans nobody can cancel meanwhile, or writes no plan.     *)
LEMMA RecoveryCancel ==
    ASSUME CancelInv, RecoveryNext
    PROVE  CancelInv' /\ CancelKept
<1> USE DEF CancelInv, CancelKept, Cancelled, planVars, procVars
<1>1. CASE Restart
    BY <1>1 DEF Restart
<1>2. CASE RecoverStep
    BY <1>2 DEF RecoverStep, Recovering
<1>3. CASE CloseRunsForOutput
    BY <1>3 DEF CloseRunsForOutput, Goto
<1>4. CASE Authenticate
    BY <1>4 DEF Authenticate, GotoNote, Goto
<1>5. CASE InterruptRuns
    BY <1>5 DEF InterruptRuns, Goto
<1>6. CASE RecoveryEnds
    BY <1>6 DEF RecoveryEnds
<1>7. CASE Reclaim
    BY <1>7 DEF Reclaim, Finish
<1>8. CASE ReclaimCompletion
    BY <1>8 DEF ReclaimCompletion, Goto
<1> QED BY <1>1, <1>2, <1>3, <1>4, <1>5, <1>6, <1>7, <1>8 DEF RecoveryNext

(* The reconciler reopens a cancelled plan only when asked to resume it.       *)
LEMMA ReconcilerCancel ==
    ASSUME CancelInv, ReconcilerNext
    PROVE  CancelInv' /\ CancelKept
<1> USE DEF CancelInv, CancelKept, Cancelled, planVars, procVars
<1>1. CASE ReopenStep
    BY <1>1 DEF ReopenStep, Closing, Refused, Finish, GotoNote
<1>2. CASE ReopenWorkflow
    BY <1>2 DEF ReopenWorkflow, Closing, Refused, Finish, GotoNote
<1>3. CASE SettleFailed
    BY <1>3 DEF SettleFailed, Finish
<1>4. CASE SettleDone
    BY <1>4 DEF SettleDone, Goto
<1>5. CASE RecordCompletion
    BY <1>5 DEF RecordCompletion, Finish
<1> QED BY <1>1, <1>2, <1>3, <1>4, <1>5 DEF ReconcilerNext

(* A user's commands start when no process holds the plan.                    *)
LEMMA UserCancel ==
    ASSUME CancelInv, UserNext
    PROVE  CancelInv' /\ CancelKept
<1> USE DEF CancelInv, CancelKept, Cancelled, planVars, procVars
<1>1. CASE ConfirmPlan
    BY <1>1 DEF ConfirmPlan, JobFree
<1>2. CASE RunPlan
    BY <1>2 DEF RunPlan, JobFree, Queue
<1>3. CASE CancelPlan
    BY <1>3 DEF CancelPlan
<1>4. CASE ConfirmStep
    BY <1>4 DEF ConfirmStep, JobFree, Queue
<1>5. CASE RetryStep
    BY <1>5 DEF RetryStep, JobFree, Queue, Resume
<1>6. CASE GateAdjust
    BY <1>6 DEF GateAdjust, JobFree, Queue
<1>7. CASE Rollback
    BY <1>7 DEF Rollback, JobFree, Queue, Resume
<1>8. CASE ReconcileFenced
    BY <1>8 DEF ReconcileFenced, Reconcilable, JobFree
<1>9. CASE ReconcileApplied
    BY <1>9 DEF ReconcileApplied, Reconcilable, JobFree
<1>10. CASE ReconcileCompletion
    BY <1>10 DEF ReconcileCompletion, Resumed, Reconcilable, JobFree
<1>11. CASE ReconcileWorkflow
    BY <1>11 DEF ReconcileWorkflow, JobFree, Resumed, Reconcilable
<1> QED BY <1>1, <1>2, <1>3, <1>4, <1>5, <1>6, <1>7, <1>8, <1>9, <1>10, <1>11 DEF
   UserNext

(* Every step keeps CancelInv and a cancelled plan cancelled.                 *)
LEMMA CancelStep ==
    ASSUME CancelInv, [Next]_vars
    PROVE  CancelInv' /\ [CancelKept]_vars
<1>1. CASE ToolApplies \/ Crash \/ UNCHANGED vars
    BY <1>1 DEF ToolApplies, Crash, CancelInv, CancelKept, Cancelled, vars, planVars, procVars
<1>2. CASE ServerNext \/ UserNext
    BY <1>2, ExecutorCancel, RecoveryCancel, ReconcilerCancel, UserCancel DEF ServerNext
<1> QED BY <1>1, <1>2 DEF Next

(* CancelInv is an invariant of every plan.                                   *)
THEOREM CancelInvariant == Spec => []CancelInv
<1>1. Init => CancelInv
    BY DEF Init, CancelInv
<1> QED BY <1>1, CancelStep, PTL DEF Spec

(* CancelSticks: once a plan is cancelled (routers/plans.py:536) no write of  *)
(* the executor, of recovery or of a reconciliation that was not asked to     *)
(* resume brings it back, whatever process was in flight when it landed.      *)
THEOREM CancelSticksHolds == Spec => CancelSticks
BY CancelInvariant, CancelStep, PTL DEF Spec, CancelSticks
=============================================================================
