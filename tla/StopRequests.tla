---------------------------- MODULE StopRequests ----------------------------
(* The three in-memory registries through which work on a task is stopped:    *)
(* tokens by job (marvis/job_cancellation.py), the notebook token by task     *)
(* (marvis/notebook_cancellation.py) and the requests to agent jobs           *)
(* (marvis/agent/orchestrator.py).  A restart of the process empties them.    *)
EXTENDS JobQueue

VARIABLES
    tokens,        \* jobs with a registered cancellation token
    pending,       \* jobs whose cancel came before the token
    cancelled,     \* jobs whose token is cancelled
    nbToken,       \* the job whose stage registered the task's notebook token
    nbPending,     \* an unbound notebook cancel waits for the next token
    nbCancelled,   \* the registered notebook token is cancelled
    agentActive,   \* _ACTIVE_AGENT_JOBS of the task
    agentRequests  \* job ids in _AGENT_CANCELLATION_REQUESTS of the task

tokenVars    == <<tokens, pending, cancelled>>
notebookVars == <<nbToken, nbPending, nbCancelled>>
agentVars    == <<agentActive, agentRequests>>
registryVars == <<tokenVars, notebookVars, agentVars>>

EmptyRegistries ==
    /\ tokens = {} /\ pending = {} /\ cancelled = {}
    /\ nbToken = NoJob /\ nbPending = FALSE /\ nbCancelled = FALSE
    /\ agentActive = NoJob /\ agentRequests = {}

LoseRegistries ==
    /\ tokens' = {} /\ pending' = {} /\ cancelled' = {}
    /\ nbToken' = NoJob /\ nbPending' = FALSE /\ nbCancelled' = FALSE
    /\ agentActive' = NoJob /\ agentRequests' = {}

----------------------------------------------------------------------------
(* Tokens by job id.                                                          *)
(* Mutation: the cancel that came first is discarded, not handed to the token. *)
RegisterTokenForgets(j) ==
    /\ tokens' = tokens \cup {j}
    /\ pending' = pending \ {j}
    /\ UNCHANGED cancelled

(* register: a cancel that came first is handed to the new token.             *)
RegisterToken(j) ==
    /\ tokens' = tokens \cup {j}
    /\ pending' = pending \ {j}
    /\ cancelled' = IF j \in pending THEN cancelled \cup {j} ELSE cancelled

UnregisterToken(j) ==
    /\ tokens' = tokens \ {j}
    /\ pending' = pending \ {j}
    /\ UNCHANGED cancelled

RequestToken(j) ==
    /\ IF j \in tokens
       THEN cancelled' = cancelled \cup {j} /\ UNCHANGED pending
       ELSE pending' = pending \cup {j} /\ UNCHANGED cancelled
    /\ UNCHANGED tokens

ClearPending(j) == pending' = pending \ {j} /\ UNCHANGED <<tokens, cancelled>>

----------------------------------------------------------------------------
(* The notebook token of the task.  Only unbound requests are ever left       *)
(* pending: the routes that name a job pass allow_pending=False.              *)
RegisterNotebook(j) ==
    nbToken' = j /\ nbCancelled' = nbPending /\ nbPending' = FALSE

UnregisterNotebook(j) ==
    IF nbToken = j
    THEN nbToken' = NoJob /\ nbPending' = FALSE /\ nbCancelled' = FALSE
    ELSE UNCHANGED notebookVars

(* request_notebook_cancellation(task_id), from the stop of an agent.         *)
RequestNotebook ==
    /\ IF nbToken # NoJob
       THEN nbCancelled' = TRUE /\ UNCHANGED nbPending
       ELSE nbPending' = TRUE /\ UNCHANGED nbCancelled
    /\ UNCHANGED nbToken

(* request_active_notebook_cancellation for the report job a route has read:  *)
(* the token of another job refuses.                                          *)
RequestActiveNotebook(j) ==
    /\ nbCancelled' = (nbCancelled \/ nbToken = j)
    /\ UNCHANGED <<nbToken, nbPending>>

----------------------------------------------------------------------------
(* Requests to agent jobs.                                                    *)
RegisterAgent(j) ==
    agentActive' = j /\ agentRequests' = agentRequests \ {NoJob}

RequestAgent(j) ==
    /\ agentRequests' = agentRequests \cup {IF j = NoJob THEN agentActive ELSE j}
    /\ UNCHANGED agentActive

ClearAgent(j) ==
    /\ agentRequests' = agentRequests \ {j}
    /\ agentActive' = IF agentActive = j THEN NoJob ELSE agentActive

(* Mutation: any request of the task stops whoever asks. *)
AgentStoppedByAny == agentRequests # {}

(* raise_if_agent_cancelled(task_id), with the job that is active now.        *)
AgentStopped == agentActive \in agentRequests
=============================================================================
