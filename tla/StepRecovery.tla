---------------------------- MODULE StepRecovery ----------------------------
(* A crash of the server process, and the recovery of plan steps against the  *)
(* step-run ledger (marvis/orchestrator/plan_recovery.py): at startup for     *)
(* running and review plans (marvis/recovery.py) and when run() resumes.      *)
EXTENDS PlanLedger

Recovering == mode \in {"startup", "resume"}

(* Everything in memory is lost; workers and the database stay.               *)
Crash ==
    /\ pc # "down" /\ crashes < CrashLimit
    /\ crashes' = crashes + 1
    /\ pc' = "down" /\ cur' = NoStep /\ mode' = "none" /\ note' = "none"
    /\ UNCHANGED <<planVars, stepVars, runVars, worldVars>>

(* Startup fails every job row left behind before requests are served, then   *)
(* looks only at running and review plans.                                    *)
Restart ==
    /\ pc = "down"
    /\ LET to == IF planStatus \in {"running", "review"} /\ wfVerdict # "none" THEN "wfReview"
                 ELSE IF planStatus = "running" THEN "recover" ELSE "idle"
       IN pc' = to /\ mode' = IF to = "idle" THEN "none" ELSE "startup"
    /\ UNCHANGED <<cur, note>>
    /\ UNCHANGED <<planVars, stepVars, runVars, worldVars, crashes>>

-----------------------------------------------------------------------------
(* recover_inflight_steps.                                                    *)
(* The version that is evidence for the step: the bound one, one stored by a  *)
(* run still open, or, for a checking step without an open run, the newest    *)
(* version of any succeeded run.                                              *)
Newest(versions) == IF versions = {} THEN 0 ELSE CHOOSE v \in versions : \A w \in versions : w <= v
OpenVersions(s)      == {v \in 1..MaxAttempts : <<s, v>> \in RunningRuns(s) /\ output[<<s, v>>] # NoOutput}
SucceededVersions(s) == {v \in 1..MaxAttempts : runStatus[<<s, v>>] = "succeeded"}
Evidence(s) ==
    IF outRef[s] # 0 THEN outRef[s]
    ELSE IF stepStatus[s] = "checking" /\ RunningRuns(s) = {}
         THEN Newest(SucceededVersions(s))
         ELSE Newest(OpenVersions(s))

(* A running step whose only open runs are retry-safe may be retried by hand. *)
SafeToRetry(s) ==
    /\ stepStatus[s] = "running"
    /\ RunningRuns(s) # {}
    /\ \A r \in RunningRuns(s) : RetrySafe(r)

RecoverStep ==
    /\ pc = "recover" /\ Recovering
    /\ \E s \in Steps :
        /\ stepStatus[s] \in InFlight
        /\ \A t \in Steps : t < s => stepStatus[t] \notin InFlight
        /\ cur' = s
        /\ IF Evidence(s) # 0
           THEN /\ outRef' = [outRef EXCEPT ![s] = Evidence(s)]
                /\ pc' = "adopt" /\ note' = "none"
           ELSE /\ UNCHANGED outRef
                /\ pc' = "interrupt"
                /\ note' = IF SafeToRetry(s) THEN "plain" ELSE "reconcile"
    /\ UNCHANGED <<mode, stepStatus, stepErr, confirmed>>
    /\ UNCHANGED <<planVars, runVars, worldVars, crashes>>

(* _recover_step_runs_for_output: only the run bound to the version succeeds. *)
CloseRunsForOutput ==
    /\ pc = "adopt"
    /\ runStatus' = [r \in Runs |->
            IF r \notin RunningRuns(cur) THEN runStatus[r]
            ELSE IF r = <<cur, outRef[cur]>> THEN "succeeded" ELSE "interrupted"]
    /\ Goto("authenticate")
    /\ UNCHANGED <<attempts, dispatched, unknown, output, verdict, fenced>>
    /\ UNCHANGED <<planVars, stepVars, worldVars, crashes>>

(* Mutation: an adopted output is neither authenticated nor reviewed.         *)
AuthenticateNothing ==
    /\ pc = "authenticate"
    /\ stepStatus' = [stepStatus EXCEPT ![cur] = "checking"]
    /\ Goto("publish")
    /\ UNCHANGED <<stepErr, confirmed, outRef>>
    /\ UNCHANGED <<planVars, runVars, worldVars, crashes>>

(* _recover_checking_step: an authentic version goes on to completion.        *)
Authenticate ==
    /\ pc = "authenticate"
    /\ IF Authentic(cur, outRef[cur])
       THEN /\ stepStatus' = [stepStatus EXCEPT ![cur] = "checking"]
            /\ Goto("complete")
       ELSE UNCHANGED stepStatus /\ GotoNote("fail", "reconcile")
    /\ UNCHANGED <<stepErr, confirmed, outRef>>
    /\ UNCHANGED <<planVars, runVars, worldVars, crashes>>

(* _recover_step_runs: no version, so every open run is interrupted.          *)
InterruptRuns ==
    /\ pc = "interrupt"
    /\ runStatus' = [r \in Runs |-> IF r \in RunningRuns(cur) THEN "interrupted" ELSE runStatus[r]]
    /\ unknown' = IF note = "plain" THEN unknown ELSE unknown \cup RunningRuns(cur)
    /\ Goto("fail")
    /\ UNCHANGED <<attempts, dispatched, output, verdict, fenced>>
    /\ UNCHANGED <<planVars, stepVars, worldVars, crashes>>

NoneInFlight == \A s \in Steps : stepStatus[s] \notin InFlight

(* run() continues with its loop.                                             *)
RecoveryEnds ==
    /\ pc = "recover" /\ mode = "resume" /\ NoneInFlight
    /\ pc' = "loop" /\ mode' = "run" /\ UNCHANGED <<cur, note>>
    /\ UNCHANGED <<planVars, stepVars, runVars, worldVars, crashes>>

(* _reclaim_one_running_plan: a workflow whose steps are all complete and      *)
(* whose obligation is frozen is recorded for completion-only recovery and    *)
(* failed; any other plan goes back to its confirmation gate, or fails.       *)
ReclaimCompletion ==
    /\ pc = "recover" /\ mode = "startup" /\ NoneInFlight
    /\ AllComplete /\ wfEvent
    /\ Goto("wfError")
    /\ UNCHANGED <<planVars, stepVars, runVars, worldVars, crashes>>

(* Mutation: the plan is failed before its steps are recovered.               *)
ReclaimAtOnce ==
    /\ pc = "recover" /\ mode = "startup"
    /\ ~(AllComplete /\ wfEvent)
    /\ planStatus' = IF /\ \E s \in Steps : stepStatus[s] = "awaiting"
                        /\ \A s \in Steps : stepStatus[s] # "failed"
                     THEN "awaiting" ELSE "failed"
    /\ Finish
    /\ UNCHANGED <<wfEvent, wfVerdict, wfPending>>
    /\ UNCHANGED <<stepVars, runVars, worldVars, crashes>>

Reclaim ==
    /\ pc = "recover" /\ mode = "startup" /\ NoneInFlight
    /\ ~(AllComplete /\ wfEvent)
    /\ planStatus' = IF /\ \E s \in Steps : stepStatus[s] = "awaiting"
                        /\ \A s \in Steps : stepStatus[s] # "failed"
                     THEN "awaiting" ELSE "failed"
    /\ Finish
    /\ UNCHANGED <<wfEvent, wfVerdict, wfPending>>
    /\ UNCHANGED <<stepVars, runVars, worldVars, crashes>>

RecoveryNext ==
    \/ Restart \/ RecoverStep \/ CloseRunsForOutput \/ Authenticate
    \/ InterruptRuns \/ RecoveryEnds \/ ReclaimCompletion \/ Reclaim
=============================================================================
