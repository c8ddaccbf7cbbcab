------------------------------ MODULE TaskJobs ------------------------------
(* The jobs of one task, from the request that inserts a job to the end of    *)
(* its callback, with the ways to stop them, the watchdog and restarts.       *)
(* A validation task has agent and report jobs, the other agent tasks have    *)
(* driver turns and joins.                                                    *)
EXTENDS StopRequests

VARIABLES
    chat,     \* an answer is streamed that no job stands for
    stop,     \* the agent stop in progress: where it is, the job it has read
    cancel,   \* the job a cancel route has read
    asked,    \* (history) jobs active at some moment of a stop or cancel
    owed,     \* (history) jobs asked to stop before their work began
    stopped   \* (history) what stopped a job: its own request, or the notebook token

userVars == <<chat, stop, cancel>>
historyVars == <<asked, owed, stopped>>
vars == <<slotVars, registryVars, userVars, historyVars>>

Idle == [at |-> "idle", job |-> NoJob]
ActiveJobs == {j \in Jobs : Active(j)}

(* Jobs that are in the task while somebody is asking to stop.                *)
Ask == asked' = IF stop.at = "idle" THEN asked ELSE asked \cup {j \in Jobs : Active(j)'}

Init ==
    /\ SlotInit /\ EmptyRegistries
    /\ chat = FALSE /\ stop = Idle /\ cancel = NoJob
    /\ asked = {} /\ owed = {} /\ stopped = [j \in Jobs |-> "no"]

----------------------------------------------------------------------------
(* A request inserts the row; an agent job is then registered before its      *)
(* callback is scheduled, the others are scheduled at once.                   *)
StartJob(j) ==
    /\ up /\ InsertRow(j)
    /\ Go(j, IF kind[j] = "agent" THEN "inserted" ELSE "scheduled")
    /\ Ask
    /\ UNCHANGED <<kind, up, registryVars, userVars, owed, stopped>>

DispatchAgent(j) ==
    /\ worker[j] = "inserted"
    /\ RegisterAgent(j)
    /\ Go(j, "scheduled")
    /\ UNCHANGED <<kind, jobStatus, up, tokenVars, notebookVars, userVars, historyVars>>

(* The stage is found not to be ready after the row was inserted.             *)
RefuseDispatch(j) ==
    /\ worker[j] = "inserted" \/ (worker[j] = "scheduled" /\ kind[j] = "report")
    /\ FinishRow(j, "failed")
    /\ Go(j, "ended")
    /\ UNCHANGED <<kind, up, registryVars, userVars, historyVars>>

(* The callback cannot be scheduled: the agent's request is withdrawn as well. *)
AbortDispatch(j) ==
    /\ worker[j] = "scheduled" /\ kind[j] = "agent"
    /\ FinishRow(j, "failed")
    /\ Go(j, "ended")
    /\ ClearAgent(j) /\ nbPending' = FALSE
    /\ UNCHANGED <<kind, up, tokenVars, nbToken, nbCancelled, userVars, historyVars>>

(* The request dies, or its response is never sent: nothing runs the callback. *)
LoseCallback(j) ==
    /\ worker[j] \in {"inserted", "scheduled"}
    /\ Go(j, "ended")
    /\ UNCHANGED <<kind, jobStatus, up, registryVars, userVars, historyVars>>

Claim(j) ==
    /\ worker[j] = "scheduled" /\ Claimable(j)
    /\ ClaimRow(j)
    /\ Go(j, "claimed")
    /\ UNCHANGED <<kind, up, registryVars, userVars, historyVars>>

(* The row is no longer queued: the callback leaves it alone.                 *)
ClaimFails(j) ==
    /\ worker[j] = "scheduled" /\ ~Claimable(j)
    /\ Go(j, "ended")
    /\ CASE kind[j] = "join"  -> ClearPending(j) /\ UNCHANGED <<notebookVars, agentVars>>
         [] kind[j] = "agent" -> ClearAgent(j) /\ nbPending' = FALSE
                                 /\ UNCHANGED <<tokenVars, nbToken, nbCancelled>>
         [] OTHER             -> UNCHANGED registryVars
    /\ UNCHANGED <<kind, jobStatus, up, userVars, historyVars>>

BeginWork(j) ==
    /\ worker[j] = "claimed"
    /\ Go(j, "working")
    /\ IF kind[j] \in {"driver", "join"} THEN RegisterToken(j) ELSE UNCHANGED tokenVars
    /\ UNCHANGED <<kind, jobStatus, up, notebookVars, agentVars, userVars, historyVars>>

(* What a checkpoint of the job looks at.                                     *)
MustStop(j) ==
    \/ kind[j] = "agent" /\ AgentStopped
    \/ kind[j] \in {"driver", "join"} /\ j \in cancelled

(* A checkpoint raises: the job is closed as cancelled.                       *)
StopSeen(j) ==
    /\ worker[j] \in {"working", "body", "after"} /\ MustStop(j)
    /\ FinishRow(j, "cancelled")
    /\ Go(j, "finishing")
    /\ stopped' = [stopped EXCEPT ![j] = "request"]
    /\ UNCHANGED <<kind, up, registryVars, userVars, asked, owed>>

(* The first checkpoint is passed and the work begins.                        *)
Proceed(j) ==
    /\ worker[j] = "working" /\ ~MustStop(j)
    /\ Go(j, "body")
    /\ UNCHANGED <<kind, jobStatus, up, registryVars, userVars, historyVars>>

(* An agent job without a next stage succeeds before its first checkpoint;    *)
(* an agent job, a join or a driver turn may fail before it.                  *)
EndEarly(j) ==
    /\ worker[j] = "working" /\ kind[j] # "report"
    /\ \E s \in {"failed"} \cup (IF kind[j] = "agent" THEN {"succeeded"} ELSE {}) :
          FinishRow(j, s)
    /\ Go(j, "finishing")
    /\ UNCHANGED <<kind, up, registryVars, userVars, historyVars>>

EnterStage(j) ==
    /\ worker[j] = "body" /\ kind[j] \in {"agent", "report"}
    /\ RegisterNotebook(j)
    /\ Go(j, "stage")
    /\ UNCHANGED <<kind, jobStatus, up, tokenVars, agentVars, userVars, historyVars>>

StageStops(j) ==
    /\ worker[j] = "stage" /\ nbCancelled
    /\ UnregisterNotebook(j)
    /\ Go(j, "after")
    /\ stopped' = [stopped EXCEPT ![j] = "notebook"]
    /\ UNCHANGED <<kind, jobStatus, up, tokenVars, agentVars, userVars, asked, owed>>

(* The stage returns or fails without a look at a cancel that came late.      *)
StageEnds(j) ==
    /\ worker[j] = "stage"
    /\ UnregisterNotebook(j)
    /\ Go(j, "after")
    /\ UNCHANGED <<kind, jobStatus, up, tokenVars, agentVars, userVars, historyVars>>

(* The status the callback reports when its work is over: a driver turn looks *)
(* at its token and its plan, a report stage at the task it marked as stopped. *)
Outcomes(j) ==
    CASE kind[j] = "driver" /\ j \in cancelled -> {"cancelled", "failed"}
      [] kind[j] = "driver" /\ j \notin cancelled -> {"succeeded", "failed", "cancelled"}
      [] kind[j] = "report" /\ stopped[j] # "no" -> {"cancelled"}
      [] OTHER -> {"succeeded", "failed"}

EndWork(j) ==
    /\ worker[j] = "after" \/ (worker[j] = "body" /\ kind[j] # "report")
    /\ \E s \in Outcomes(j) : FinishRow(j, s)
    /\ Go(j, "finishing")
    /\ UNCHANGED <<kind, up, registryVars, userVars, historyVars>>

(* A disk stall, an unbounded query or a deadlock inside the work.            *)
Hang(j) ==
    /\ worker[j] \in {"body", "stage"}
    /\ Go(j, "hung")
    /\ UNCHANGED <<kind, jobStatus, up, registryVars, userVars, historyVars>>

(* The finally clauses, after the row is finished.                            *)
Leave(j) ==
    /\ worker[j] = "finishing"
    /\ Go(j, "ended")
    /\ CASE kind[j] \in {"driver", "join"} ->
                UnregisterToken(j) /\ UNCHANGED <<notebookVars, agentVars>>
         [] kind[j] = "agent" -> ClearAgent(j) /\ nbPending' = FALSE
                                 /\ UNCHANGED <<tokenVars, nbToken, nbCancelled>>
         [] OTHER -> UNCHANGED registryVars
    /\ UNCHANGED <<kind, jobStatus, up, userVars, historyVars>>

(* Timing: the sweep's timeout (ten minutes) outlasts the synchronous part of *)
(* a request, but not the wait of a scheduled callback for a free thread.     *)
Watchdog(j) ==
    /\ worker[j] # "inserted"
    /\ Sweep(j)
    /\ UNCHANGED <<registryVars, userVars, historyVars>>

Crash ==
    /\ Exit /\ LoseRegistries
    /\ chat' = FALSE /\ stop' = Idle /\ cancel' = NoJob
    /\ UNCHANGED historyVars

Startup == Boot /\ UNCHANGED <<registryVars, userVars, historyVars>>

----------------------------------------------------------------------------
(* A chat answer is streamed by the request itself; every delta looks at the  *)
(* agent requests of the task.                                                *)
BeginChat ==
    /\ up /\ ~chat
    /\ \E j \in Jobs : kind[j] = "agent"
    /\ chat' = TRUE
    /\ UNCHANGED <<slotVars, registryVars, stop, cancel, historyVars>>

EndChat ==
    /\ chat
    /\ chat' = FALSE
    /\ UNCHANGED <<slotVars, registryVars, stop, cancel, historyVars>>

(* The agent stop: is there anything to stop, which job is active, its        *)
(* request, and the unbound request to the notebook token of the task.        *)
BeginStop ==
    /\ up /\ stop.at = "idle"
    /\ chat \/ \E j \in ActiveJobs : kind[j] \in {"agent", "driver"}
    /\ stop' = [at |-> "read", job |-> NoJob]
    /\ asked' = asked \cup ActiveJobs
    /\ UNCHANGED <<slotVars, registryVars, chat, cancel, owed, stopped>>

ReadActive ==
    /\ stop.at = "read"
    /\ IF ActiveJobs = {}
       THEN stop' = [at |-> "request", job |-> NoJob]
       ELSE \E j \in ActiveJobs : stop' = [at |-> "request", job |-> j]
    /\ UNCHANGED <<slotVars, registryVars, chat, cancel, historyVars>>

(* A stop or cancel is owed to a job that has not passed its first checkpoint. *)
Owe(j) ==
    owed' = IF worker[j] \in {"inserted", "scheduled", "claimed", "working"}
            THEN owed \cup {j} ELSE owed

RequestStop ==
    /\ stop.at = "request"
    /\ stop' = [stop EXCEPT !.at = "notebook"]
    /\ IF stop.job # NoJob /\ kind[stop.job] = "driver"
       THEN RequestToken(stop.job) /\ UNCHANGED agentVars
       ELSE RequestAgent(stop.job) /\ UNCHANGED tokenVars
    /\ IF stop.job # NoJob /\ kind[stop.job] \in {"agent", "driver"}
       THEN Owe(stop.job) ELSE UNCHANGED owed
    /\ UNCHANGED <<slotVars, notebookVars, chat, cancel, asked, stopped>>

StopNotebook ==
    /\ stop.at = "notebook"
    /\ stop' = Idle
    /\ RequestNotebook
    /\ UNCHANGED <<slotVars, tokenVars, agentVars, chat, cancel, historyVars>>

(* The cancel routes of a join and of a report: the active job, then its token. *)
ReadCancel(j) ==
    /\ up /\ cancel = NoJob
    /\ Active(j) /\ kind[j] \in {"join", "report"}
    /\ cancel' = j
    /\ asked' = asked \cup {j}
    /\ UNCHANGED <<slotVars, registryVars, chat, stop, owed, stopped>>

RequestCancel ==
    /\ cancel # NoJob
    /\ cancel' = NoJob
    /\ IF kind[cancel] = "join"
       THEN RequestToken(cancel) /\ Owe(cancel) /\ UNCHANGED notebookVars
       ELSE RequestActiveNotebook(cancel)
            /\ UNCHANGED <<tokenVars, owed>>
    /\ UNCHANGED <<slotVars, agentVars, chat, stop, asked, stopped>>

----------------------------------------------------------------------------
(* The steps of the callback of j, and those nothing makes happen.            *)
WorkerStep(j) ==
    \/ DispatchAgent(j) \/ Claim(j) \/ ClaimFails(j) \/ BeginWork(j)
    \/ StopSeen(j) \/ Proceed(j) \/ EndEarly(j) \/ EnterStage(j)
    \/ StageStops(j) \/ StageEnds(j) \/ EndWork(j) \/ Leave(j)

Mishap(j) == RefuseDispatch(j) \/ AbortDispatch(j) \/ LoseCallback(j) \/ Hang(j)

UserStep ==
    \/ BeginChat \/ EndChat \/ BeginStop \/ ReadActive \/ RequestStop
    \/ StopNotebook \/ RequestCancel
    \/ \E j \in Jobs : StartJob(j) \/ ReadCancel(j)

Next ==
    \/ \E j \in Jobs : WorkerStep(j) \/ Mishap(j) \/ Watchdog(j)
    \/ UserStep \/ Crash \/ Startup

Spec == Init /\ [][Next]_vars

(* A scheduled callback runs and a claimed job goes on until it is over or    *)
(* hangs; the watchdog thread sweeps for ever; the service is started again.  *)
FairSpec ==
    /\ Spec
    /\ \A j \in Jobs : WF_vars(WorkerStep(j)) /\ WF_vars(Watchdog(j))
    /\ WF_vars(Startup)

----------------------------------------------------------------------------
JobsTypeOK ==
    /\ kind \in [Jobs -> Kinds]
    /\ jobStatus \in [Jobs -> JobStatuses]
    /\ worker \in [Jobs -> Workers]
    /\ up \in BOOLEAN

(* The lease of the task.  A task has one active job; a callback that works   *)
(* has a running row, so nobody else was given the task meanwhile; without a  *)
(* process nothing works.  (start_job, mark_job_running, the sweep and the    *)
(* startup recovery together.)                                                *)
OneActiveJob == \A i, j \in Jobs : Active(i) /\ Active(j) => i = j
WorkIsClaimed == \A j \in Jobs : worker[j] \in Executing => jobStatus[j] = "running"
WaitingIsKnown == \A j \in Jobs : worker[j] = "none" <=> jobStatus[j] = "none"
DownIsQuiet == up \/ \A j \in Jobs : worker[j] \in {"none", "ended"}
LeaseInv == JobsTypeOK /\ OneActiveJob /\ WorkIsClaimed /\ WaitingIsKnown /\ DownIsQuiet

(* No two callbacks work on a task at the same time, whatever the watchdog    *)
(* and restarts do: the jobs table is the only lock the work on a task has.   *)
OneExecutor ==
    \A i, j \in Jobs : worker[i] \in Executing /\ worker[j] \in Executing => i = j

(* A stop that is answered before a job has passed its first checkpoint is    *)
(* not lost between the row, the registries and the callback: the job never   *)
(* gets past it (a join or a plan step before its first table or tool).       *)
EarlyStopHeard ==
    \A j \in owed : worker[j] \notin {"body", "stage", "after", "hung"}

(* A job stopped through a request to itself was active while somebody was    *)
(* asking: no request outlives its job and stops the next one.                *)
RequestsHitTheirJob == \A j \in Jobs : stopped[j] = "request" => j \in asked

(* orchestrator.py:61-62: a stop without a job "must not poison a later job". *)
StopsHitTheirJob == \A j \in Jobs : stopped[j] # "no" => j \in asked

(* What makes these two provable.  Whoever asks knows the jobs that are       *)
(* active meanwhile, and a request names a job that was asked about, or one   *)
(* that is over.                                                              *)
AskedOK ==
    /\ asked \subseteq {j \in Jobs : jobStatus[j] # "none"}
    /\ stop.at # "idle" => ActiveJobs \subseteq asked
    /\ stop.job # NoJob => stop.job \in asked
    /\ cancel # NoJob => cancel \in asked
    /\ pending \cup cancelled \subseteq asked
    /\ \A j \in Jobs \cap agentRequests : Active(j) => j \in asked
    /\ \A j \in Jobs \cap (agentRequests \cup {agentActive}) : jobStatus[j] # "none"

(* A callback that may still do agent work is the registered one: a later     *)
(* registration needs the lease.  A token is there while its job works.       *)
RegisteredOK ==
    /\ \A j \in Jobs : worker[j] = "inserted" => jobStatus[j] = "queued"
    /\ \A j \in Jobs :
        kind[j] = "agent" /\ Active(j) /\ worker[j] \in Executing \cup {"scheduled"}
            => agentActive = j
    /\ \A j \in Jobs : kind[j] \in {"driver", "join"} =>
        /\ worker[j] \in {"none", "inserted", "scheduled", "claimed"} => j \notin tokens
        /\ worker[j] = "working" => j \in tokens

(* What is owed to a job waits where its first checkpoint looks.              *)
OwedOK ==
    \A j \in owed :
        /\ j \in Jobs /\ kind[j] # "report" /\ worker[j] # "none"
        /\ kind[j] = "agent" /\ worker[j] \in {"inserted", "scheduled", "claimed", "working"}
            => j \in agentRequests
        /\ kind[j] \in {"driver", "join"} =>
            /\ worker[j] \in {"inserted", "scheduled", "claimed"} => j \in pending
            /\ worker[j] = "working" => j \in cancelled

StopInv == AskedOK /\ RegisteredOK /\ OwedOK /\ EarlyStopHeard /\ RequestsHitTheirJob

(* The jobs table implements the lease.                                       *)
Worked == {j \in Jobs : worker[j] \in Executing}
Only(S) == IF S = {} THEN NoJob ELSE CHOOSE j \in S : TRUE
Holder == Only(ActiveJobs)
Busy == Only(Worked)
Over == {j \in Jobs : jobStatus[j] \in {"succeeded", "failed", "cancelled"}}
Lease == INSTANCE TaskLease WITH holder <- Holder, busy <- Busy, over <- Over
LeaseKept == Lease!Spec

(* The task is not wedged: an active job ends, unless its work hangs.  A lost *)
(* callback, a failed dispatch and a restart all give the task back.          *)
TaskComesFree == \A j \in Jobs : Active(j) ~> (~Active(j) \/ worker[j] = "hung")
=============================================================================
