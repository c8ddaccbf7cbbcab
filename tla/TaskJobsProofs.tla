--------------------------- MODULE TaskJobsProofs ---------------------------
(* The jobs table is a lease on the task, for every set of jobs: LeaseInv is  *)
(* inductive, at most one callback works on the task, and every step of the   *)
(* jobs is a step of TaskLease or leaves the lease alone.  On top of it       *)
(* StopInv is inductive: a stop reaches the job it was asked for, in time.    *)
EXTENDS TaskJobs, TLAPS

(* Steps that keep the rows, the callbacks and the process keep the lease.    *)
LEMMA SlotUnchanged ==
    ASSUME LeaseInv, UNCHANGED slotVars
    PROVE  LeaseInv'
BY DEF LeaseInv, JobsTypeOK, OneActiveJob, WorkIsClaimed, WaitingIsKnown, DownIsQuiet,
       Active, slotVars

(* A callback moves between places of the same kind, or out of its work after *)
(* its row; the rows stay.                                                    *)
LEMMA WorkerMoves ==
    ASSUME LeaseInv, NEW j \in Jobs, NEW w \in Workers \ {"none"},
           worker[j] # "none", up \/ w = "ended",
           w \in Executing => jobStatus[j] = "running",
           Go(j, w), UNCHANGED <<kind, jobStatus, up>>
    PROVE  LeaseInv'
BY DEF LeaseInv, JobsTypeOK, OneActiveJob, WorkIsClaimed, WaitingIsKnown, DownIsQuiet,
       Active, Go, Workers, Executing

(* A row is finished and its callback is out of its work.                     *)
LEMMA RowFinishes ==
    ASSUME LeaseInv, NEW j \in Jobs, NEW s \in {"succeeded", "failed", "cancelled"},
           NEW w \in {"finishing", "ended"},
           worker[j] # "none", up,
           FinishRow(j, s), Go(j, w), UNCHANGED <<kind, up>>
    PROVE  LeaseInv'
<1>1. worker'[j] = w /\ w \in Workers \ Executing
    BY DEF LeaseInv, JobsTypeOK, Go, Workers, Executing
<1>2. ASSUME NEW i \in Jobs, i # j PROVE worker'[i] = worker[i] /\ jobStatus'[i] = jobStatus[i]
    BY <1>2 DEF LeaseInv, JobsTypeOK, Go, FinishRow
<1>3. jobStatus'[j] \notin {"none", "queued", "running"}
    BY DEF LeaseInv, JobsTypeOK, WaitingIsKnown, FinishRow, Active, JobStatuses
<1>4. JobsTypeOK'
    BY DEF LeaseInv, JobsTypeOK, Go, FinishRow, Workers, JobStatuses
<1> QED
    BY <1>1, <1>2, <1>3, <1>4
    DEF LeaseInv, OneActiveJob, WorkIsClaimed, WaitingIsKnown, DownIsQuiet, Active

(* Every step of a callback keeps the lease.                                  *)
LEMMA WorkerKeepsLease ==
    ASSUME LeaseInv, NEW j \in Jobs, WorkerStep(j) \/ Mishap(j)
    PROVE  LeaseInv'
<1>1. /\ worker[j] \in Workers
      /\ worker[j] \in Executing => jobStatus[j] = "running"
      /\ worker[j] \notin {"none", "ended"} => up
    BY DEF LeaseInv, JobsTypeOK, WorkIsClaimed, DownIsQuiet
<1>2. ASSUME NEW w \in Workers \ {"none"}, worker[j] \notin {"none", "ended"},
             w \in Executing => worker[j] \in Executing,
             Go(j, w), UNCHANGED <<kind, jobStatus, up>>
      PROVE  LeaseInv'
    BY <1>1, <1>2, WorkerMoves
<1>3. ASSUME NEW s \in {"succeeded", "failed", "cancelled"}, NEW w \in {"finishing", "ended"},
             worker[j] \notin {"none", "ended"},
             FinishRow(j, s), Go(j, w), UNCHANGED <<kind, up>>
      PROVE  LeaseInv'
    BY <1>1, <1>3, RowFinishes
<1>4. CASE DispatchAgent(j)
    BY <1>2, <1>4 DEF DispatchAgent, Workers, Executing
<1>5. CASE Claim(j)
    <2>1. /\ jobStatus' = [jobStatus EXCEPT ![j] = "running"]
          /\ worker' = [worker EXCEPT ![j] = "claimed"]
          /\ kind' = kind /\ up' = up
          /\ worker[j] = "scheduled" /\ jobStatus[j] = "queued" /\ up
        BY <1>1, <1>5 DEF Claim, Claimable, ClaimRow, Go
    <2> QED
        BY <2>1 DEF LeaseInv, JobsTypeOK, OneActiveJob, WorkIsClaimed, WaitingIsKnown,
           DownIsQuiet, Active, Workers, Executing, JobStatuses
<1>6. CASE ClaimFails(j)
    BY <1>2, <1>6 DEF ClaimFails, Workers, Executing
<1>7. CASE BeginWork(j)
    BY <1>2, <1>7 DEF BeginWork, Workers, Executing
<1>8. CASE StopSeen(j)
    BY <1>3, <1>8 DEF StopSeen
<1>9. CASE Proceed(j)
    BY <1>2, <1>9 DEF Proceed, Workers, Executing
<1>10. CASE EndEarly(j)
    BY <1>3, <1>10 DEF EndEarly
<1>11. CASE EnterStage(j)
    BY <1>2, <1>11 DEF EnterStage, Workers, Executing
<1>12. CASE StageStops(j)
    BY <1>2, <1>12 DEF StageStops, Workers, Executing
<1>13. CASE StageEnds(j)
    BY <1>2, <1>13 DEF StageEnds, Workers, Executing
<1>14. CASE EndWork(j)
    <2>1. PICK s \in Outcomes(j) : FinishRow(j, s)
        BY <1>14 DEF EndWork
    <2>2. s \in {"succeeded", "failed", "cancelled"}
        BY <2>1 DEF Outcomes
    <2> QED
        BY <1>3, <1>14, <2>1, <2>2 DEF EndWork
<1>15. CASE Leave(j)
    BY <1>2, <1>15 DEF Leave, Workers, Executing
<1>16. CASE RefuseDispatch(j)
    BY <1>3, <1>16 DEF RefuseDispatch
<1>17. CASE AbortDispatch(j)
    BY <1>3, <1>17 DEF AbortDispatch
<1>18. CASE LoseCallback(j)
    BY <1>2, <1>18 DEF LoseCallback, Workers, Executing
<1>19. CASE Hang(j)
    BY <1>2, <1>19 DEF Hang, Workers, Executing
<1> QED
    BY <1>4, <1>5, <1>6, <1>7, <1>8, <1>9, <1>10, <1>11, <1>12, <1>13, <1>14, <1>15,
       <1>16, <1>17, <1>18, <1>19 DEF WorkerStep, Mishap

(* The requests of users change no row but the one they insert.               *)
LEMMA UserKeepsLease ==
    ASSUME LeaseInv, UserStep
    PROVE  LeaseInv'
<1>1. ASSUME NEW j \in Jobs, StartJob(j) PROVE LeaseInv'
    <2>1. /\ jobStatus' = [jobStatus EXCEPT ![j] = "queued"]
          /\ jobStatus[j] = "none" /\ \A i \in Jobs : ~Active(i)
          /\ kind' = kind /\ up' = up /\ up
        BY <1>1 DEF StartJob, InsertRow
    <2>2. PICK w \in {"inserted", "scheduled"} : worker' = [worker EXCEPT ![j] = w]
        BY <1>1 DEF StartJob, Go
    <2> QED
        BY <2>1, <2>2 DEF LeaseInv, JobsTypeOK, OneActiveJob, WorkIsClaimed,
           WaitingIsKnown, DownIsQuiet, Active, Workers, Executing, JobStatuses
<1>2. ASSUME ~\E j \in Jobs : StartJob(j) PROVE UNCHANGED slotVars
    BY <1>2 DEF UserStep, BeginChat, EndChat, BeginStop, ReadActive, RequestStop,
       StopNotebook, RequestCancel, ReadCancel, slotVars
<1> QED
    BY <1>1, <1>2, SlotUnchanged

(* The sweep, an exit and a restart keep the lease.                           *)
LEMMA ServerKeepsLease ==
    ASSUME LeaseInv, Crash \/ Startup \/ \E j \in Jobs : Watchdog(j)
    PROVE  LeaseInv'
<1>1. CASE Crash
    BY <1>1 DEF Crash, Exit, LeaseInv, JobsTypeOK, OneActiveJob, WorkIsClaimed,
       WaitingIsKnown, DownIsQuiet, Active, Workers, Executing
<1>2. CASE Startup
    <2>1. /\ jobStatus' = [j \in Jobs |-> IF Active(j) THEN "failed" ELSE jobStatus[j]]
          /\ kind' = kind /\ worker' = worker /\ up' = TRUE
          /\ \A j \in Jobs : worker[j] \in {"none", "ended"}
        BY <1>2 DEF Startup, Boot, LeaseInv, DownIsQuiet
    <2>2. \A j \in Jobs : ~Active(j)'
        BY <2>1 DEF Active
    <2> QED
        BY <2>1, <2>2 DEF LeaseInv, JobsTypeOK, OneActiveJob, WorkIsClaimed,
           WaitingIsKnown, DownIsQuiet, Active, Executing, JobStatuses
<1>3. ASSUME NEW j \in Jobs, Watchdog(j) PROVE LeaseInv'
    <2>1. /\ jobStatus' = [jobStatus EXCEPT ![j] = "failed"] /\ jobStatus[j] = "queued"
          /\ kind' = kind /\ worker' = worker /\ up' = up
        BY <1>3 DEF Watchdog, Sweep, Stale, FinishRow, Active
    <2> QED
        BY <2>1 DEF LeaseInv, JobsTypeOK, OneActiveJob, WorkIsClaimed, WaitingIsKnown,
           DownIsQuiet, Active, JobStatuses
<1> QED
    BY <1>1, <1>2, <1>3

LEMMA LeaseStep == LeaseInv /\ [Next]_vars => LeaseInv'
<1> SUFFICES ASSUME LeaseInv, [Next]_vars PROVE LeaseInv'
    OBVIOUS
<1>1. CASE UNCHANGED vars
    BY <1>1, SlotUnchanged DEF vars
<1>2. CASE Next
    BY <1>2, WorkerKeepsLease, UserKeepsLease, ServerKeepsLease DEF Next
<1> QED
    BY <1>1, <1>2

LEMMA LeaseInit == Init => LeaseInv
BY WorkflowsAssumption
DEF Init, SlotInit, LeaseInv, JobsTypeOK, OneActiveJob, WorkIsClaimed, WaitingIsKnown,
    DownIsQuiet, Active, Workers, JobStatuses, Executing

(* The lease of the task holds of every set of jobs and kinds of work.        *)
THEOREM LeaseInvariant == Spec => []LeaseInv
BY LeaseInit, LeaseStep, PTL DEF Spec

(* At most one callback works on a task: it has the running row, and a task   *)
(* has one active row.                                                        *)
THEOREM OneExecutorHolds == Spec => []OneExecutor
<1>1. LeaseInv => OneExecutor
    BY DEF LeaseInv, OneActiveJob, WorkIsClaimed, Active, OneExecutor
<1> QED
    BY <1>1, LeaseInvariant, PTL

----------------------------------------------------------------------------
(* The jobs table implements TaskLease: what the mapped variables are worth.  *)
LEMMA OnlyValue ==
    /\ Only({}) = NoJob
    /\ \A j : Only({j}) = j
<1>1. ASSUME NEW j PROVE Only({j}) = j
    <2>1. (CHOOSE i \in {j} : TRUE) \in {j}
        OBVIOUS
    <2> QED
        BY <2>1 DEF Only
<1> QED
    BY <1>1 DEF Only

(* An active job is the only one, and only it can be worked for.              *)
LEMMA HeldByOne ==
    ASSUME LeaseInv, NEW j \in Jobs, Active(j)
    PROVE  ActiveJobs = {j} /\ (Worked = {} \/ Worked = {j}) /\ j \notin Over
BY DEF LeaseInv, OneActiveJob, WorkIsClaimed, Active, ActiveJobs, Worked, Over

(* With no active job nothing works.                                          *)
LEMMA HeldByNone ==
    ASSUME LeaseInv, \A j \in Jobs : ~Active(j)
    PROVE  ActiveJobs = {} /\ Worked = {}
BY DEF LeaseInv, WorkIsClaimed, Active, ActiveJobs, Worked

LEMMA LeaseStays ==
    ASSUME jobStatus' = jobStatus, Worked' = Worked
    PROVE  UNCHANGED <<Holder, Busy, Over>>
<1>1. ActiveJobs' = ActiveJobs /\ Over' = Over
    BY DEF ActiveJobs, Active, Over
<1> QED
    BY <1>1 DEF Holder, Busy, Only

(* A row that is finished with its callback out of its work is a release, or  *)
(* it was finished before.                                                    *)
LEMMA FinishReleases ==
    ASSUME LeaseInv, LeaseInv', NEW j \in Jobs,
           NEW s \in {"succeeded", "failed", "cancelled"},
           FinishRow(j, s),
           \A i \in Jobs : i # j => worker'[i] = worker[i],
           worker'[j] = worker[j] \/ worker'[j] \notin Executing
    PROVE  [Lease!Next]_<<Holder, Busy, Over>>
<1>1. CASE Active(j)
    <2>1. ActiveJobs = {j} /\ (Worked = {} \/ Worked = {j})
        BY <1>1, HeldByOne
    <2>2. jobStatus' = [jobStatus EXCEPT ![j] = s]
        BY <1>1 DEF FinishRow
    <2>3. \A i \in Jobs : ~Active(i)'
        BY <2>1, <2>2 DEF ActiveJobs, Active, LeaseInv, JobsTypeOK
    <2>4. ActiveJobs' = {} /\ Worked' = {}
        BY <2>3 DEF ActiveJobs, Worked, LeaseInv, WorkIsClaimed, Active
    <2>5. Over' = Over \cup {j}
        BY <2>2 DEF Over, LeaseInv, JobsTypeOK
    <2>6. Holder = j /\ Holder' = NoJob /\ Busy \in {j, NoJob} /\ Busy' = NoJob
        BY <2>1, <2>4, OnlyValue DEF Holder, Busy, Only
    <2>7. Lease!Release(j)
        BY <2>5, <2>6 DEF Lease!Release
    <2> QED
        BY <2>7 DEF Lease!Next
<1>2. CASE ~Active(j)
    <2>1. jobStatus' = jobStatus
        BY <1>2 DEF FinishRow, LeaseInv, JobsTypeOK
    <2>2. worker[j] \notin Executing
        BY <1>2 DEF LeaseInv, WorkIsClaimed, Active
    <2>3. Worked' = Worked
        BY <2>2 DEF Worked
    <2> QED
        BY <2>1, <2>3, LeaseStays
<1> QED
    BY <1>1, <1>2

(* A callback that stays in its work, or outside it, leaves the lease alone.  *)
LEMMA MoveStutters ==
    ASSUME NEW j \in Jobs, NEW w, LeaseInv,
           Go(j, w), jobStatus' = jobStatus,
           w \in Executing <=> worker[j] \in Executing
    PROVE  UNCHANGED <<Holder, Busy, Over>>
<1>1. Worked' = Worked
    BY DEF Worked, Go, LeaseInv, JobsTypeOK
<1> QED
    BY <1>1, LeaseStays

LEMMA WorkerImplements ==
    ASSUME LeaseInv, LeaseInv', NEW j \in Jobs, WorkerStep(j) \/ Mishap(j)
    PROVE  [Lease!Next]_<<Holder, Busy, Over>>
<1>1. worker \in [Jobs -> Workers]
    BY DEF LeaseInv, JobsTypeOK
<1>2. ASSUME NEW s \in {"succeeded", "failed", "cancelled"}, NEW w \in {"finishing", "ended"},
             FinishRow(j, s), Go(j, w)
      PROVE  [Lease!Next]_<<Holder, Busy, Over>>
    BY <1>1, <1>2, FinishReleases DEF Go, Executing
<1>3. CASE DispatchAgent(j)
    BY <1>3, MoveStutters DEF DispatchAgent, Executing
<1>4. CASE Claim(j)
    <2>1. /\ jobStatus' = [jobStatus EXCEPT ![j] = "running"]
          /\ worker' = [worker EXCEPT ![j] = "claimed"]
          /\ worker[j] = "scheduled" /\ jobStatus[j] = "queued"
        BY <1>4 DEF Claim, Claimable, ClaimRow, Go
    <2>2. ActiveJobs = {j} /\ (Worked = {} \/ Worked = {j})
        BY <2>1, HeldByOne DEF Active
    <2>3. Worked = {}
        BY <2>1, <2>2 DEF Worked, Executing
    <2>4. ActiveJobs' = {j} /\ Worked' = {j}
        BY <2>1, <2>2, <2>3, <1>1 DEF ActiveJobs, Active, Worked, Executing, LeaseInv, JobsTypeOK
    <2>5. Over' = Over
        BY <2>1 DEF Over, LeaseInv, JobsTypeOK
    <2>6. Holder = j /\ Holder' = j /\ Busy = NoJob /\ Busy' = j
        BY <2>2, <2>3, <2>4, OnlyValue DEF Holder, Busy, Only
    <2>7. Lease!Work(j)
        BY <2>5, <2>6 DEF Lease!Work
    <2> QED
        BY <2>7 DEF Lease!Next
<1>5. CASE ClaimFails(j)
    BY <1>5, MoveStutters DEF ClaimFails, Executing
<1>6. CASE BeginWork(j)
    BY <1>6, MoveStutters DEF BeginWork, Executing
<1>7. CASE StopSeen(j)
    BY <1>2, <1>7 DEF StopSeen
<1>8. CASE Proceed(j)
    BY <1>8, MoveStutters DEF Proceed, Executing
<1>9. CASE EndEarly(j)
    BY <1>2, <1>9 DEF EndEarly
<1>10. CASE EnterStage(j)
    BY <1>10, MoveStutters DEF EnterStage, Executing
<1>11. CASE StageStops(j)
    BY <1>11, MoveStutters DEF StageStops, Executing
<1>12. CASE StageEnds(j)
    BY <1>12, MoveStutters DEF StageEnds, Executing
<1>13. CASE EndWork(j)
    BY <1>2, <1>13 DEF EndWork, Outcomes
<1>14. CASE Leave(j)
    BY <1>14, MoveStutters DEF Leave, Executing
<1>15. CASE RefuseDispatch(j)
    BY <1>2, <1>15 DEF RefuseDispatch
<1>16. CASE AbortDispatch(j)
    BY <1>2, <1>16 DEF AbortDispatch
<1>17. CASE LoseCallback(j)
    BY <1>17, MoveStutters DEF LoseCallback, Executing
<1>18. CASE Hang(j)
    BY <1>18, MoveStutters DEF Hang, Executing
<1> QED
    BY <1>3, <1>4, <1>5, <1>6, <1>7, <1>8, <1>9, <1>10, <1>11, <1>12, <1>13, <1>14,
       <1>15, <1>16, <1>17, <1>18 DEF WorkerStep, Mishap

(* An inserted row takes the lease; the other requests leave it alone.        *)
LEMMA UserImplements ==
    ASSUME LeaseInv, UserStep
    PROVE  [Lease!Next]_<<Holder, Busy, Over>>
<1>1. ASSUME NEW j \in Jobs, StartJob(j) PROVE Lease!Acquire(j)
    <2>1. /\ jobStatus' = [jobStatus EXCEPT ![j] = "queued"]
          /\ jobStatus[j] = "none" /\ \A i \in Jobs : ~Active(i)
        BY <1>1 DEF StartJob, InsertRow
    <2>2. PICK w \in {"inserted", "scheduled"} : worker' = [worker EXCEPT ![j] = w]
        BY <1>1 DEF StartJob, Go
    <2>3. ActiveJobs = {} /\ Worked = {}
        BY <2>1, HeldByNone
    <2>4. ActiveJobs' = {j} /\ Worked' = {}
        BY <2>1, <2>2, <2>3 DEF ActiveJobs, Active, Worked, Executing, LeaseInv, JobsTypeOK
    <2>5. Over' = Over /\ j \notin Over
        BY <2>1 DEF Over, LeaseInv, JobsTypeOK
    <2>6. Holder = NoJob /\ Holder' = j /\ Busy = NoJob /\ Busy' = NoJob
        BY <2>3, <2>4, OnlyValue DEF Holder, Busy, Only
    <2> QED
        BY <2>5, <2>6 DEF Lease!Acquire
<1>2. ASSUME ~\E j \in Jobs : StartJob(j) PROVE UNCHANGED slotVars
    BY <1>2 DEF UserStep, BeginChat, EndChat, BeginStop, ReadActive, RequestStop,
       StopNotebook, RequestCancel, ReadCancel, slotVars
<1>3. ASSUME UNCHANGED slotVars PROVE UNCHANGED <<Holder, Busy, Over>>
    BY <1>3, LeaseStays DEF slotVars, Worked
<1> QED
    BY <1>1, <1>2, <1>3 DEF Lease!Next

(* The sweep and a restart release the lease of a job nothing works for; an   *)
(* exit loses the executor and keeps the lease.                               *)
LEMMA ServerImplements ==
    ASSUME LeaseInv, LeaseInv', Crash \/ Startup \/ \E j \in Jobs : Watchdog(j)
    PROVE  [Lease!Next]_<<Holder, Busy, Over>>
<1>1. CASE Crash
    <2>1. jobStatus' = jobStatus /\ Worked' = {}
        BY <1>1 DEF Crash, Exit, Worked, Executing
    <2>2. ActiveJobs' = ActiveJobs /\ Over' = Over
        BY <2>1 DEF ActiveJobs, Active, Over
    <2>3. Holder' = Holder /\ Busy' = NoJob
        BY <2>1, <2>2, OnlyValue DEF Holder, Busy, Only
    <2>4. Busy = NoJob \/ Lease!Lose
        BY <2>2, <2>3 DEF Lease!Lose
    <2> QED
        BY <2>2, <2>3, <2>4 DEF Lease!Next
<1>2. CASE Startup
    <2>1. /\ jobStatus' = [j \in Jobs |-> IF Active(j) THEN "failed" ELSE jobStatus[j]]
          /\ worker' = worker
          /\ \A j \in Jobs : worker[j] \notin Executing
        BY <1>2 DEF Startup, Boot, LeaseInv, DownIsQuiet, Executing
    <2>2. CASE \A j \in Jobs : ~Active(j)
        <3>1. jobStatus' = jobStatus
            BY <2>1, <2>2 DEF LeaseInv, JobsTypeOK
        <3> QED
            BY <2>1, <3>1, LeaseStays DEF Worked
    <2>3. ASSUME NEW j \in Jobs, Active(j) PROVE [Lease!Next]_<<Holder, Busy, Over>>
        <3>1. \A i \in Jobs : Active(i) => i = j
            BY <2>3 DEF LeaseInv, OneActiveJob
        <3>2. jobStatus' = [jobStatus EXCEPT ![j] = "failed"]
            BY <2>1, <2>3, <3>1 DEF LeaseInv, JobsTypeOK
        <3>3. FinishRow(j, "failed")
            BY <2>3, <3>2 DEF FinishRow
        <3> QED
            BY <2>1, <3>3, FinishReleases
    <2> QED
        BY <2>2, <2>3
<1>3. ASSUME NEW j \in Jobs, Watchdog(j) PROVE [Lease!Next]_<<Holder, Busy, Over>>
    BY <1>3, FinishReleases DEF Watchdog, Sweep
<1> QED
    BY <1>1, <1>2, <1>3

(* Every behaviour of the jobs of a task is a behaviour of TaskLease: a job   *)
(* takes the lease once, works only while it holds it, and gives it up when   *)
(* its row ends; only the end of the process takes an executor from it.       *)
THEOREM JobsImplementLease == Spec => LeaseKept
<1>1. Init => Lease!Init
    <2> SUFFICES ASSUME Init PROVE Lease!Init
        OBVIOUS
    <2>1. ActiveJobs = {} /\ Worked = {} /\ Over = {}
        BY DEF Init, SlotInit, ActiveJobs, Active, Worked, Executing, Over
    <2> QED
        BY <2>1, OnlyValue DEF Lease!Init, Holder, Busy
<1>2. LeaseInv /\ LeaseInv' /\ [Next]_vars => [Lease!Next]_<<Holder, Busy, Over>>
    <2> SUFFICES ASSUME LeaseInv, LeaseInv', [Next]_vars
                 PROVE  [Lease!Next]_<<Holder, Busy, Over>>
        OBVIOUS
    <2>1. CASE UNCHANGED vars
        BY <2>1, LeaseStays DEF vars, slotVars, Worked
    <2>2. CASE Next
        BY <2>2, WorkerImplements, UserImplements, ServerImplements DEF Next
    <2> QED
        BY <2>1, <2>2
<1> QED
    BY <1>1, <1>2, LeaseInvariant, PTL DEF Spec, LeaseKept, Lease!Spec

----------------------------------------------------------------------------
(* Stops.  LeaseInv alone does not tell where a request waits: StopInv adds   *)
(* who is registered, who was asked about, and what is owed to whom.          *)

(* The registry has the agent job that may still run, and the token of a      *)
(* driver turn or a join while its callback works.                            *)
LEMMA CallbackRegisters ==
    ASSUME LeaseInv, RegisteredOK, AskedOK,
           NEW j \in Jobs, WorkerStep(j) \/ Mishap(j)
    PROVE  RegisteredOK'
<1> USE DEF RegisteredOK, Active, Executing, LeaseInv, JobsTypeOK,
     OneActiveJob, WorkIsClaimed, WaitingIsKnown, DownIsQuiet, slotVars,
     registryVars, tokenVars, notebookVars, agentVars, userVars, historyVars
<1>1. CASE DispatchAgent(j)
    BY <1>1 DEF DispatchAgent, Go, RegisterAgent
<1>2. CASE Claim(j)
    BY <1>2 DEF Claim, Go, Claimable, ClaimRow
<1>3. CASE ClaimFails(j)
    BY <1>3 DEF ClaimFails, Go, Claimable, ClearPending, ClearAgent
<1>4. CASE BeginWork(j)
    BY <1>4 DEF BeginWork, Go, RegisterToken
<1>5. CASE StopSeen(j)
    BY <1>5 DEF StopSeen, FinishRow, Go, MustStop, AgentStopped
<1>6. CASE Proceed(j)
    BY <1>6 DEF Proceed, Go, MustStop, AgentStopped
<1>7. CASE EndEarly(j)
    BY <1>7 DEF EndEarly, FinishRow, Go
<1>8. CASE EnterStage(j)
    BY <1>8 DEF EnterStage, Go, RegisterNotebook
<1>9. CASE StageStops(j)
    BY <1>9 DEF StageStops, Go, UnregisterNotebook
<1>10. CASE StageEnds(j)
    BY <1>10 DEF StageEnds, Go, UnregisterNotebook
<1>11. CASE EndWork(j)
    BY <1>11 DEF EndWork, FinishRow, Go, Outcomes
<1>12. CASE Leave(j)
    BY <1>12 DEF Leave, Go, UnregisterToken, ClearAgent
<1>13. CASE RefuseDispatch(j)
    BY <1>13 DEF RefuseDispatch, FinishRow, Go
<1>14. CASE AbortDispatch(j)
    BY <1>14 DEF AbortDispatch, FinishRow, Go, ClearAgent
<1>15. CASE LoseCallback(j)
    BY <1>15 DEF LoseCallback, Go
<1>16. CASE Hang(j)
    BY <1>16 DEF Hang, Go
<1> QED BY <1>1, <1>2, <1>3, <1>4, <1>5, <1>6, <1>7, <1>8, <1>9, <1>10, <1>11,
     <1>12, <1>13, <1>14, <1>15, <1>16 DEF WorkerStep, Mishap

(* A callback asks for nothing: it only takes requests away or ends its row.  *)
LEMMA CallbackAsks ==
    ASSUME LeaseInv, RegisteredOK, AskedOK,
           NEW j \in Jobs, WorkerStep(j) \/ Mishap(j)
    PROVE  AskedOK'
<1> USE DEF AskedOK, Active, ActiveJobs, LeaseInv, JobsTypeOK, OneActiveJob,
     WorkIsClaimed, WaitingIsKnown, DownIsQuiet, slotVars, registryVars,
     tokenVars, notebookVars, agentVars, userVars, historyVars
<1>1. CASE DispatchAgent(j)
    BY <1>1 DEF DispatchAgent, Go, RegisterAgent
<1>2. CASE Claim(j)
    BY <1>2 DEF Claim, Go, Claimable, ClaimRow
<1>3. CASE ClaimFails(j)
    BY <1>3, JobsAssumption DEF ClaimFails, Go, Claimable, ClearPending,
       ClearAgent
<1>4. CASE BeginWork(j)
    BY <1>4 DEF BeginWork, Go, RegisterToken
<1>5. CASE StopSeen(j)
    BY <1>5 DEF StopSeen, FinishRow, Go, MustStop, AgentStopped
<1>6. CASE Proceed(j)
    BY <1>6 DEF Proceed, Go, MustStop, AgentStopped
<1>7. CASE EndEarly(j)
    BY <1>7 DEF EndEarly, FinishRow, Go
<1>8. CASE EnterStage(j)
    BY <1>8 DEF EnterStage, Go, RegisterNotebook
<1>9. CASE StageStops(j)
    BY <1>9 DEF StageStops, Go, UnregisterNotebook
<1>10. CASE StageEnds(j)
    BY <1>10 DEF StageEnds, Go, UnregisterNotebook
<1>11. CASE EndWork(j)
    BY <1>11 DEF EndWork, FinishRow, Go, Outcomes
<1>12. CASE Leave(j)
    BY <1>12, JobsAssumption DEF Leave, Go, UnregisterToken, ClearAgent
<1>13. CASE RefuseDispatch(j)
    BY <1>13 DEF RefuseDispatch, FinishRow, Go
<1>14. CASE AbortDispatch(j)
    BY <1>14, JobsAssumption DEF AbortDispatch, FinishRow, Go, ClearAgent
<1>15. CASE LoseCallback(j)
    BY <1>15 DEF LoseCallback, Go
<1>16. CASE Hang(j)
    BY <1>16 DEF Hang, Go
<1> QED BY <1>1, <1>2, <1>3, <1>4, <1>5, <1>6, <1>7, <1>8, <1>9, <1>10, <1>11,
     <1>12, <1>13, <1>14, <1>15, <1>16 DEF WorkerStep, Mishap

(* A callback whose stop waits meets it at the first checkpoint: Proceed is   *)
(* closed to it, and only its own end takes the request away before.          *)
LEMMA CallbackOwes ==
    ASSUME LeaseInv, RegisteredOK, AskedOK, OwedOK, EarlyStopHeard,
           RequestsHitTheirJob,
           NEW j \in Jobs, WorkerStep(j) \/ Mishap(j)
    PROVE  OwedOK' /\ EarlyStopHeard' /\ RequestsHitTheirJob'
<1> USE DEF LeaseInv, JobsTypeOK, OwedOK, EarlyStopHeard, RequestsHitTheirJob,
     Executing, slotVars, registryVars, tokenVars, notebookVars, agentVars,
     userVars, historyVars
<1>1. CASE DispatchAgent(j)
    BY <1>1, JobsAssumption DEF DispatchAgent, Go, RegisterAgent
<1>2. CASE Claim(j)
    BY <1>2 DEF Claim, Go, Claimable, ClaimRow
<1>3. CASE ClaimFails(j)
    BY <1>3 DEF ClaimFails, Go, Claimable, ClearPending, ClearAgent
<1>4. CASE BeginWork(j)
    BY <1>4 DEF BeginWork, Go, RegisterToken, RegisteredOK
<1>5. CASE StopSeen(j)
    BY <1>5 DEF StopSeen, FinishRow, Go, MustStop, AgentStopped, WorkIsClaimed,
       RegisteredOK, AskedOK, Active
<1>6. CASE Proceed(j)
  <2>1. j \notin owed
    <3>1. kind[j] = "agent" => agentActive = j
        BY <1>6 DEF Proceed, RegisteredOK, WorkIsClaimed, Active, Executing
    <3>2. kind[j] \in {"agent", "report", "driver", "join"}
        BY DEF Kinds
    <3> QED BY <1>6, <3>1, <3>2 DEF Proceed, MustStop, AgentStopped
  <2>2. worker' = [worker EXCEPT ![j] = "body"]
      BY <1>6 DEF Proceed, Go
  <2>3. UNCHANGED <<kind, registryVars, historyVars>>
      BY <1>6 DEF Proceed
  <2> QED BY <2>1, <2>2, <2>3
<1>7. CASE EndEarly(j)
    BY <1>7 DEF EndEarly, FinishRow, Go
<1>8. CASE EnterStage(j)
    BY <1>8 DEF EnterStage, Go, RegisterNotebook
<1>9. CASE StageStops(j)
    BY <1>9 DEF StageStops, Go, UnregisterNotebook
<1>10. CASE StageEnds(j)
    BY <1>10 DEF StageEnds, Go, UnregisterNotebook
<1>11. CASE EndWork(j)
    BY <1>11 DEF EndWork, FinishRow, Go, Outcomes
<1>12. CASE Leave(j)
    BY <1>12 DEF Leave, Go, UnregisterToken, ClearAgent
<1>13. CASE RefuseDispatch(j)
    BY <1>13 DEF RefuseDispatch, FinishRow, Go
<1>14. CASE AbortDispatch(j)
    BY <1>14 DEF AbortDispatch, FinishRow, Go, ClearAgent
<1>15. CASE LoseCallback(j)
    BY <1>15 DEF LoseCallback, Go
<1>16. CASE Hang(j)
    BY <1>16 DEF Hang, Go
<1> QED BY <1>1, <1>2, <1>3, <1>4, <1>5, <1>6, <1>7, <1>8, <1>9, <1>10, <1>11,
     <1>12, <1>13, <1>14, <1>15, <1>16 DEF WorkerStep, Mishap

(* A request registers nothing; a new row starts without one.                 *)
LEMMA UserRegisters ==
    ASSUME LeaseInv, RegisteredOK, AskedOK,
           UserStep
    PROVE  RegisteredOK'
<1> USE DEF RegisteredOK, Active, Executing, LeaseInv, JobsTypeOK,
     OneActiveJob, WorkIsClaimed, WaitingIsKnown, DownIsQuiet, slotVars,
     registryVars, tokenVars, notebookVars, agentVars, userVars, historyVars
<1>1. CASE BeginChat
    BY <1>1 DEF BeginChat
<1>2. CASE EndChat
    BY <1>2 DEF EndChat
<1>3. CASE BeginStop
    BY <1>3 DEF BeginStop
<1>4. CASE ReadActive
    BY <1>4 DEF ReadActive
<1>5. CASE RequestStop
    BY <1>5 DEF RequestStop, RequestToken, RequestAgent, Owe
<1>6. CASE StopNotebook
    BY <1>6 DEF StopNotebook, RequestNotebook, Idle
<1>7. CASE RequestCancel
    BY <1>7 DEF RequestCancel, RequestToken, RequestActiveNotebook, Owe
<1>8. ASSUME NEW j \in Jobs, StartJob(j) PROVE RegisteredOK'
    BY <1>8 DEF StartJob, Go, InsertRow, Ask
<1>9. ASSUME NEW j \in Jobs, ReadCancel(j) PROVE RegisteredOK'
    BY <1>9 DEF ReadCancel
<1> QED BY <1>1, <1>2, <1>3, <1>4, <1>5, <1>6, <1>7, <1>8, <1>9 DEF UserStep

(* Whoever asks names the jobs that are active, and a row that comes while    *)
(* the answer is under way is added to them.                                  *)
LEMMA UserAsks ==
    ASSUME LeaseInv, RegisteredOK, AskedOK,
           UserStep
    PROVE  AskedOK'
<1> USE DEF AskedOK, Active, ActiveJobs, LeaseInv, JobsTypeOK, OneActiveJob,
     WorkIsClaimed, WaitingIsKnown, DownIsQuiet, slotVars, registryVars,
     tokenVars, notebookVars, agentVars, userVars, historyVars
<1>1. CASE BeginChat
    BY <1>1 DEF BeginChat
<1>2. CASE EndChat
    BY <1>2 DEF EndChat
<1>3. CASE BeginStop
    BY <1>3 DEF BeginStop
<1>4. CASE ReadActive
    BY <1>4 DEF ReadActive
<1>5. CASE RequestStop
    BY <1>5 DEF RequestStop, RequestToken, RequestAgent, Owe
<1>6. CASE StopNotebook
    BY <1>6 DEF StopNotebook, RequestNotebook, Idle
<1>7. CASE RequestCancel
    BY <1>7 DEF RequestCancel, RequestToken, RequestActiveNotebook, Owe
<1>8. ASSUME NEW j \in Jobs, StartJob(j) PROVE AskedOK'
    BY <1>8 DEF StartJob, Go, InsertRow, Ask
<1>9. ASSUME NEW j \in Jobs, ReadCancel(j) PROVE AskedOK'
    BY <1>9 DEF ReadCancel
<1> QED BY <1>1, <1>2, <1>3, <1>4, <1>5, <1>6, <1>7, <1>8, <1>9 DEF UserStep

(* A request answered in time is left where the job will look: the registered *)
(* agent job, or the pending requests before a token is there.                *)
LEMMA UserOwes ==
    ASSUME LeaseInv, RegisteredOK, AskedOK, OwedOK, EarlyStopHeard,
           RequestsHitTheirJob,
           UserStep
    PROVE  OwedOK' /\ EarlyStopHeard' /\ RequestsHitTheirJob'
<1> USE DEF LeaseInv, JobsTypeOK, OwedOK, EarlyStopHeard, RequestsHitTheirJob,
     Executing, slotVars, registryVars, tokenVars, notebookVars, agentVars,
     userVars, historyVars
<1>1. CASE BeginChat
    BY <1>1 DEF BeginChat
<1>2. CASE EndChat
    BY <1>2 DEF EndChat
<1>3. CASE BeginStop
    BY <1>3 DEF BeginStop
<1>4. CASE ReadActive
    BY <1>4 DEF ReadActive
<1>5. CASE RequestStop
    BY <1>5, JobsAssumption DEF RequestStop, RequestToken, RequestAgent, Owe,
       AskedOK, RegisteredOK
<1>6. CASE StopNotebook
    BY <1>6 DEF StopNotebook, RequestNotebook, Idle
<1>7. CASE RequestCancel
    BY <1>7, JobsAssumption DEF RequestCancel, RequestToken,
       RequestActiveNotebook, Owe, AskedOK, RegisteredOK
<1>8. ASSUME NEW j \in Jobs, StartJob(j) PROVE OwedOK' /\ EarlyStopHeard' /\ RequestsHitTheirJob'
  <2>1. jobStatus[j] = "none" /\ j \notin owed
      BY <1>8 DEF StartJob, InsertRow, WaitingIsKnown
  <2>2. PICK w \in {"inserted", "scheduled"} : worker' = [worker EXCEPT ![j] = w]
      BY <1>8 DEF StartJob, Go
  <2>3. asked \subseteq asked' /\ UNCHANGED <<kind, registryVars, owed, stopped>>
      BY <1>8 DEF StartJob, Ask
  <2> QED BY <2>1, <2>2, <2>3
<1>9. ASSUME NEW j \in Jobs, ReadCancel(j) PROVE OwedOK' /\ EarlyStopHeard' /\ RequestsHitTheirJob'
    BY <1>9 DEF ReadCancel
<1> QED BY <1>1, <1>2, <1>3, <1>4, <1>5, <1>6, <1>7, <1>8, <1>9 DEF UserStep

(* A crash takes the registries and every callback; a restart or the watchdog *)
(* only ends rows.                                                            *)
LEMMA ServerRegisters ==
    ASSUME LeaseInv, RegisteredOK, AskedOK,
           Crash \/ Startup \/ \E j \in Jobs : Watchdog(j)
    PROVE  RegisteredOK'
<1> USE DEF RegisteredOK, Active, Executing, LeaseInv, JobsTypeOK,
     OneActiveJob, WorkIsClaimed, WaitingIsKnown, DownIsQuiet, slotVars,
     registryVars, tokenVars, notebookVars, agentVars, userVars, historyVars
<1>1. CASE Crash
    BY <1>1 DEF Crash, Exit, LoseRegistries, Idle
<1>2. CASE Startup
    BY <1>2 DEF Startup, Boot
<1>3. ASSUME NEW j \in Jobs, Watchdog(j) PROVE RegisteredOK'
    BY <1>3 DEF Watchdog, Sweep, FinishRow, Stale
<1> QED BY <1>1, <1>2, <1>3

(* A crash ends the questions with the process; a row that ends is no longer  *)
(* one to ask about.                                                          *)
LEMMA ServerAsks ==
    ASSUME LeaseInv, RegisteredOK, AskedOK,
           Crash \/ Startup \/ \E j \in Jobs : Watchdog(j)
    PROVE  AskedOK'
<1> USE DEF AskedOK, Active, ActiveJobs, LeaseInv, JobsTypeOK, OneActiveJob,
     WorkIsClaimed, WaitingIsKnown, DownIsQuiet, slotVars, registryVars,
     tokenVars, notebookVars, agentVars, userVars, historyVars
<1>1. CASE Crash
    BY <1>1, JobsAssumption DEF Crash, Exit, LoseRegistries, Idle
<1>2. CASE Startup
    BY <1>2 DEF Startup, Boot
<1>3. ASSUME NEW j \in Jobs, Watchdog(j) PROVE AskedOK'
    BY <1>3 DEF Watchdog, Sweep, FinishRow, Stale
<1> QED BY <1>1, <1>2, <1>3

(* No callback outlives the crash that takes the requests.                    *)
LEMMA ServerOwes ==
    ASSUME LeaseInv, RegisteredOK, AskedOK, OwedOK, EarlyStopHeard,
           RequestsHitTheirJob,
           Crash \/ Startup \/ \E j \in Jobs : Watchdog(j)
    PROVE  OwedOK' /\ EarlyStopHeard' /\ RequestsHitTheirJob'
<1> USE DEF LeaseInv, JobsTypeOK, OwedOK, EarlyStopHeard, RequestsHitTheirJob,
     Executing, slotVars, registryVars, tokenVars, notebookVars, agentVars,
     userVars, historyVars
<1>1. CASE Crash
    BY <1>1 DEF Crash, Exit, LoseRegistries, Idle
<1>2. CASE Startup
    BY <1>2 DEF Startup, Boot
<1>3. ASSUME NEW j \in Jobs, Watchdog(j) PROVE OwedOK' /\ EarlyStopHeard' /\ RequestsHitTheirJob'
    BY <1>3 DEF Watchdog, Sweep, FinishRow, Stale
<1> QED BY <1>1, <1>2, <1>3

(* Every request, callback and restart keeps what is said of the stops.       *)
LEMMA StopStep == LeaseInv /\ StopInv /\ [Next]_vars => StopInv'
<1> SUFFICES ASSUME LeaseInv, StopInv, [Next]_vars PROVE StopInv'
    OBVIOUS
<1> USE DEF StopInv
<1>1. CASE UNCHANGED vars
    BY <1>1 DEF vars, slotVars, registryVars, tokenVars, notebookVars, agentVars,
       userVars, historyVars, AskedOK, RegisteredOK, OwedOK, EarlyStopHeard,
       RequestsHitTheirJob, Active, ActiveJobs
<1>2. ASSUME NEW j \in Jobs, WorkerStep(j) \/ Mishap(j) PROVE StopInv'
    BY <1>2, CallbackRegisters, CallbackAsks, CallbackOwes
<1>3. CASE UserStep
    BY <1>3, UserRegisters, UserAsks, UserOwes
<1>4. CASE Crash \/ Startup \/ \E j \in Jobs : Watchdog(j)
    BY <1>4, ServerRegisters, ServerAsks, ServerOwes
<1> QED
    BY <1>1, <1>2, <1>3, <1>4 DEF Next

LEMMA StopInit == Init => StopInv
BY JobsAssumption
DEF Init, SlotInit, EmptyRegistries, StopInv, AskedOK, RegisteredOK, OwedOK,
    EarlyStopHeard, RequestsHitTheirJob, Active, ActiveJobs, Executing, Idle

(* What is known of registrations, questions and debts holds throughout.      *)
THEOREM StopInvariant == Spec => []StopInv
BY StopInit, StopStep, LeaseInvariant, PTL DEF Spec

(* A stop answered before the first checkpoint of a job keeps it from its     *)
(* work, for every set of jobs: the row, the registries and the callback pass *)
(* the request on in whatever order they are reached.                         *)
THEOREM EarlyStopHeardHolds == Spec => []EarlyStopHeard
<1>1. StopInv => EarlyStopHeard
    BY DEF StopInv
<1> QED
    BY <1>1, StopInvariant, PTL

(* A job stopped through a request to itself was active while somebody asked: *)
(* no request waits for a job that comes later.                               *)
THEOREM RequestsHitTheirJobHolds == Spec => []RequestsHitTheirJob
<1>1. StopInv => RequestsHitTheirJob
    BY DEF StopInv
<1> QED
    BY <1>1, StopInvariant, PTL
=============================================================================
