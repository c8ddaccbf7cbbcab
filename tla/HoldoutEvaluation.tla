-------------------------- MODULE HoldoutEvaluation --------------------------
(* The blind evaluation of a sealed cohort: the frozen model, the durable     *)
(* budget of one read, its recovery by the custodian and the signed result    *)
(* (marvis/modeling_holdout/service.py), and the time facts a conclusion may  *)
(* rest on (marvis/time_facts.py).  One cohort with its three bound people.   *)
EXTENDS Naturals

CONSTANTS
    Calls,          \* calls of evaluate; a call has its own owner token
    Models,         \* artifacts that were developed blind
    MaxRecoveries,  \* bound: recoveries the custodian grants
    Nobody, NoModel, NoResult

ASSUME EvaluationBounds ==
    MaxRecoveries \in Nat /\ Nobody \notin Calls /\ NoModel \notin Models

People == {"custodian", "developer", "evaluator"}
Recoveries == 1..MaxRecoveries
Facts == {"labels", "provenance"}
Recorder(f) == IF f = "labels" THEN "custodian" ELSE "developer"

(* A signed result: whose read, of which model, resting on which facts.       *)
Results == [by : Calls, model : Models, facts : SUBSET Facts]

ASSUME NotAResult == NoResult \notin Results

VARIABLES
    active,         \* people whose session and role are good
    frozen,         \* blind_oot_freezes, or NoModel
    recordedAt,     \* time_facts.recorded_at, 0 when there is none
    clock,          \* instants that were stamped
    state, owner, readAt,   \* blind_oot_evaluations; state none: no row
    committed,      \* its result_hash, as the file that has it
    result,         \* results/<cohort>.json
    granted,        \* how many blind_oot_recoveries there are
    mode, boundTo,  \* what each is for, and the owner it was granted against
    spent, lapsed,  \* consumed_at; expires_at has passed
    pc, body,       \* a call: where it is, the result it has built
    reads,          \* (world) calls that opened the sealed rows
    known,          \* (world) facts on record when the read was marked
    told            \* (world) results that callers were given

peopleVars == <<active, frozen, recordedAt, clock>>
rowVars == <<state, owner, readAt, committed>>
recoveryVars == <<granted, mode, boundTo, spent, lapsed>>
callVars == <<pc, body>>
worldVars == <<reads, known, told>>
vars == <<peopleVars, rowVars, recoveryVars, result, callVars, worldVars>>

AtWork == {"reserved", "marked", "scored", "built", "published"}
Over == {"done", "refused", "failed", "dead"}

TypeOK ==
    /\ active \subseteq People
    /\ frozen \in Models \cup {NoModel}
    /\ recordedAt \in [Facts -> Nat] /\ clock \in Nat
    /\ state \in {"none", "prepared", "reading", "committed", "uncertain"}
    /\ owner \in Calls \cup {Nobody} /\ readAt \in Nat
    /\ committed \in Results \cup {NoResult} /\ result \in Results \cup {NoResult}
    /\ granted \in 0..MaxRecoveries
    /\ mode \in [Recoveries -> {"none", "resume_before_read", "publish_result"}]
    /\ boundTo \in [Recoveries -> Calls \cup {Nobody}]
    /\ spent \subseteq Recoveries /\ lapsed \subseteq Recoveries
    /\ pc \in [Calls -> {"idle", "failing"} \cup AtWork \cup Over]
    /\ body \in [Calls -> Results \cup {NoResult}]
    /\ reads \subseteq Calls /\ known \subseteq Facts
    /\ told \subseteq Results

(* The cohort has been sealed.                                                *)
Init ==
    /\ active = People /\ frozen = NoModel
    /\ recordedAt = [f \in Facts |-> 0] /\ clock = 0
    /\ state = "none" /\ owner = Nobody /\ readAt = 0
    /\ committed = NoResult /\ result = NoResult
    /\ granted = 0 /\ mode = [r \in Recoveries |-> "none"]
    /\ boundTo = [r \in Recoveries |-> Nobody]
    /\ spent = {} /\ lapsed = {}
    /\ pc = [c \in Calls |-> "idle"] /\ body = [c \in Calls |-> NoResult]
    /\ reads = {} /\ known = {} /\ told = {}

-----------------------------------------------------------------------------
(* The people.                                                                *)
LoseRole(p) ==
    /\ p \in active /\ active' = active \ {p}
    /\ UNCHANGED <<frozen, recordedAt, clock, rowVars, recoveryVars, result, callVars, worldVars>>

RegainRole(p) ==
    /\ p \notin active /\ active' = active \cup {p}
    /\ UNCHANGED <<frozen, recordedAt, clock, rowVars, recoveryVars, result, callVars, worldVars>>

(* Mutation: the model may be frozen again.                                   *)
FreezeAgain(m) ==
    /\ "developer" \in active
    /\ frozen' = m
    /\ UNCHANGED <<active, recordedAt, clock, rowVars, recoveryVars, result, callVars, worldVars>>

(* freeze: the model of a cohort is final.                                    *)
Freeze(m) ==
    /\ "developer" \in active /\ frozen = NoModel
    /\ frozen' = m
    /\ UNCHANGED <<active, recordedAt, clock, rowVars, recoveryVars, result, callVars, worldVars>>

(* record_fact_on_connection: the label time by the intake repeated, the      *)
(* rest at the end of a development upload, which looked for the freeze when  *)
(* it began.  A fact is recorded once.                                        *)
RecordFact(f) ==
    /\ Recorder(f) \in active /\ recordedAt[f] = 0
    /\ clock' = clock + 1
    /\ recordedAt' = [recordedAt EXCEPT ![f] = clock + 1]
    /\ UNCHANGED <<active, frozen, rowVars, recoveryVars, result, callVars, worldVars>>

Open == state \notin {"none", "committed"}

(* recover: a recovery is granted against the owner of the moment.            *)
Recover(what) ==
    /\ "custodian" \in active /\ Open /\ granted < MaxRecoveries
    /\ \/ what = "resume_before_read" /\ readAt = 0
       \/ what = "publish_result" /\ result # NoResult
    /\ granted' = granted + 1
    /\ mode' = [mode EXCEPT ![granted + 1] = what]
    /\ boundTo' = [boundTo EXCEPT ![granted + 1] = owner]
    /\ UNCHANGED <<spent, lapsed, peopleVars, rowVars, result, callVars, worldVars>>

RecoveryLapses(r) ==
    /\ r <= granted /\ r \notin spent \cup lapsed
    /\ lapsed' = lapsed \cup {r}
    /\ UNCHANGED <<granted, mode, boundTo, spent, peopleVars, rowVars, result, callVars, worldVars>>

-----------------------------------------------------------------------------
(* The transaction evaluate begins with.                                      *)
Begins(c) == pc[c] = "idle" /\ "evaluator" \in active /\ frozen # NoModel

Go(c, place) == pc' = [pc EXCEPT ![c] = place]

(* The result is there, also for the result route.                            *)
Answer(c) ==
    /\ Begins(c) /\ state = "committed"
    /\ Go(c, "done") /\ told' = told \cup {result}
    /\ UNCHANGED <<body, reads, known, peopleVars, rowVars, recoveryVars, result>>

Reserve(c) ==
    /\ Begins(c) /\ state = "none"
    /\ state' = "prepared" /\ owner' = c
    /\ Go(c, "reserved")
    /\ UNCHANGED <<readAt, committed, body, peopleVars, recoveryVars, result, worldVars>>

Honoured(r) ==
    /\ r <= granted /\ r \notin spent \cup lapsed
    /\ boundTo[r] = owner /\ "custodian" \in active

(* The budget goes to another call, unless the rows were read; a refusal      *)
(* leaves the recovery unspent.                                               *)
Resume(c, r) ==
    /\ Begins(c) /\ Open /\ Honoured(r)
    /\ mode[r] = "resume_before_read" /\ readAt = 0
    /\ spent' = spent \cup {r}
    /\ state' = "prepared" /\ owner' = c
    /\ Go(c, "reserved")
    /\ UNCHANGED <<readAt, committed, granted, mode, boundTo, lapsed, body>>
    /\ UNCHANGED <<peopleVars, result, worldVars>>

PublishRecovered(c, r) ==
    /\ Begins(c) /\ Open /\ Honoured(r)
    /\ mode[r] = "publish_result" /\ result # NoResult
    /\ spent' = spent \cup {r}
    /\ state' = "committed" /\ committed' = result
    /\ Go(c, "done") /\ told' = told \cup {result}
    /\ UNCHANGED <<owner, readAt, granted, mode, boundTo, lapsed, body, reads, known>>
    /\ UNCHANGED <<peopleVars, result>>

(* A wrong freeze, a lost role, a recovery that does not fit, a row in place.  *)
Refuse(c) ==
    /\ pc[c] = "idle"
    /\ Go(c, "refused")
    /\ UNCHANGED <<body, peopleVars, rowVars, recoveryVars, result, worldVars>>

-----------------------------------------------------------------------------
(* The rest of a call.                                                        *)

(* Mutation: whose reservation it is does not matter.                         *)
MayReadAny(c) == "evaluator" \in active /\ state = "prepared"

(* _mark_read_started: one conditional update, before any sealed row.         *)
MayRead(c) ==
    /\ "evaluator" \in active
    /\ owner = c /\ state = "prepared" /\ readAt = 0

MarkReadStarted(c) ==
    /\ pc[c] = "reserved" /\ MayRead(c)
    /\ state' = "reading" /\ readAt' = clock + 1 /\ clock' = clock + 1
    /\ known' = {f \in Facts : recordedAt[f] # 0}
    /\ Go(c, "marked")
    /\ UNCHANGED <<owner, committed, active, frozen, recordedAt, body, reads, told>>
    /\ UNCHANGED <<recoveryVars, result>>

(* _score_sealed, here or in the isolated worker.                             *)
ScoreSealed(c) ==
    /\ pc[c] = "marked"
    /\ reads' = reads \cup {c}
    /\ Go(c, "scored")
    /\ UNCHANGED <<body, known, told, peopleVars, rowVars, recoveryVars, result>>

(* facts_for with the start of the read as its cutoff.                        *)
Established == {f \in Facts : recordedAt[f] # 0 /\ recordedAt[f] <= readAt}

BuildResult(c) ==
    /\ pc[c] = "scored"
    /\ body' = [body EXCEPT ![c] = [by |-> c, model |-> frozen, facts |-> Established]]
    /\ Go(c, "built")
    /\ UNCHANGED <<peopleVars, rowVars, recoveryVars, result, worldVars>>

(* _publish: an object that is there already is not replaced.                 *)
Publish(c) ==
    /\ pc[c] = "built" /\ result \in {NoResult, body[c]}
    /\ result' = body[c]
    /\ Go(c, "published")
    /\ UNCHANGED <<body, peopleVars, rowVars, recoveryVars, worldVars>>

(* _commit_result, and the answer.                                            *)
CommitResult(c) ==
    /\ pc[c] = "published"
    /\ "evaluator" \in active /\ owner = c /\ state = "reading"
    /\ state' = "committed" /\ committed' = body[c]
    /\ Go(c, "done") /\ told' = told \cup {body[c]}
    /\ UNCHANGED <<owner, readAt, body, reads, known, peopleVars, recoveryVars, result>>

(* An update that found no row, a lost role, a file or a worker that failed.  *)
Fail(c) ==
    /\ pc[c] \in AtWork
    /\ Go(c, "failing")
    /\ UNCHANGED <<body, peopleVars, rowVars, recoveryVars, result, worldVars>>

(* Mutation: a failed evaluation gives its reservation back.                  *)
ReleaseReservation(c) ==
    /\ pc[c] = "failing"
    /\ IF owner = c /\ state # "committed"
       THEN state' = "none" /\ owner' = Nobody /\ readAt' = 0
       ELSE UNCHANGED <<state, owner, readAt>>
    /\ Go(c, "failed")
    /\ UNCHANGED <<committed, body, peopleVars, recoveryVars, result, worldVars>>

(* Mutation: only the call remembers that it failed.                          *)
LeaveReserved(c) ==
    /\ pc[c] = "failing"
    /\ Go(c, "failed")
    /\ UNCHANGED <<rowVars, body, peopleVars, recoveryVars, result, worldVars>>

(* The handler of evaluate: every error keeps its budget.                     *)
MarkUncertain(c) ==
    /\ pc[c] = "failing"
    /\ state' = IF owner = c /\ state # "committed" THEN "uncertain" ELSE state
    /\ Go(c, "failed")
    /\ UNCHANGED <<owner, readAt, committed, body, peopleVars, recoveryVars, result, worldVars>>

(* The process of a call dies.                                                *)
Die(c) ==
    /\ pc[c] \in AtWork \cup {"failing"}
    /\ Go(c, "dead")
    /\ UNCHANGED <<body, peopleVars, rowVars, recoveryVars, result, worldVars>>

-----------------------------------------------------------------------------
Step(c) ==
    \/ MarkReadStarted(c) \/ ScoreSealed(c) \/ BuildResult(c) \/ Publish(c)
    \/ CommitResult(c) \/ Fail(c) \/ MarkUncertain(c)

Begin(c) ==
    \/ Answer(c) \/ Reserve(c) \/ Refuse(c)
    \/ \E r \in Recoveries : Resume(c, r) \/ PublishRecovered(c, r)

PeopleNext ==
    \/ \E p \in People : LoseRole(p) \/ RegainRole(p)
    \/ \E m \in Models : Freeze(m)
    \/ \E f \in Facts : RecordFact(f)
    \/ \E what \in {"resume_before_read", "publish_result"} : Recover(what)
    \/ \E r \in Recoveries : RecoveryLapses(r)

Next == PeopleNext \/ \E c \in Calls : Begin(c) \/ Step(c) \/ Die(c)

Spec == Init /\ [][Next]_vars

(* A thread that evaluates runs on; nothing makes people act.                 *)
LiveSpec == Spec /\ \A c \in Calls : WF_vars(Step(c))

-----------------------------------------------------------------------------
(* Calls and the row: after its mark a call is the owner for good, and what   *)
(* it has built is the result or will be.                                     *)
MarkedOK(c) ==
    /\ pc[c] \in {"marked", "scored", "built", "published"} =>
           owner = c /\ readAt # 0 /\ state \in {"reading", "committed"}
    /\ pc[c] = "reserved" /\ owner = c => state = "prepared" /\ readAt = 0
    /\ pc[c] = "idle" => owner # c
    /\ pc[c] = "marked" => reads = {}
    /\ pc[c] \in {"scored", "built", "published"} => c \in reads
    /\ pc[c] \in {"marked", "scored", "built"} => result = NoResult
    /\ pc[c] \in {"built", "published"} =>
           body[c] = [by |-> c, model |-> frozen, facts |-> known]
    /\ pc[c] = "published" => result = body[c]

RowOK ==
    /\ state = "none" <=> owner = Nobody
    /\ state # "none" => frozen # NoModel
    /\ readAt = 0 => state \in {"none", "prepared", "uncertain"} /\ reads = {}
    /\ readAt # 0 => state \in {"reading", "uncertain", "committed"}
    /\ reads \subseteq {owner}
    /\ readAt <= clock /\ \A f \in Facts : recordedAt[f] <= clock
    /\ readAt # 0 => known = Established

ResultOK ==
    /\ result # NoResult =>
           reads = {owner} /\ result = [by |-> owner, model |-> frozen, facts |-> known]
    /\ IF state = "committed" THEN committed = result /\ result # NoResult /\ told = {result}
       ELSE committed = NoResult /\ told = {}

(* The row, the calls, the result file and the answers agree in every state.  *)
EvaluationInv == TypeOK /\ RowOK /\ ResultOK /\ \A c \in Calls : MarkedOK(c)

(* The sealed rows are opened once, by the call that owns the budget and      *)
(* whose mark is on record: never by one that a recovery has superseded, a    *)
(* second call or one after a crash.                                          *)
OneRead == reads \subseteq {owner} /\ (reads # {} => readAt # 0)

(* Whoever asks, whenever and through whichever recovery, is given the one    *)
(* result: of that read and of the model that was frozen before it.           *)
OneAnswer ==
    \A b \in told : b = committed /\ reads = {b.by} /\ b.model = frozen

(* A conclusion rests only on facts that were on record before the sealed     *)
(* rows were read.                                                            *)
FactsPrecedeRead == result # NoResult => result.facts = known

(* A signed result is never lost to the ledger: until it is committed, its    *)
(* read is that of the current owner and a recovery may still publish it.     *)
ResultRecoverable == result # NoResult => result.by = owner /\ (Open \/ committed = result)

-----------------------------------------------------------------------------
Budget == INSTANCE OneReadBudget WITH
    Lookers   <- Calls,
    Outcomes  <- Results,
    NoOutcome <- NoResult,
    budget    <- IF readAt = 0 THEN "kept" ELSE "spent",
    looked    <- reads,
    outcome   <- committed

(* Reservation, mark, file and commit together keep the promise of one read:  *)
(* it is spent before the rows are looked at, is never given back, and an     *)
(* outcome stays.                                                             *)
ImplementsOneReadBudget == Budget!Spec

(* A reservation does not hang: unless the process of its call dies, it is    *)
(* committed, left uncertain for the custodian, or taken over.                *)
ReservationSettles ==
    \A c \in Calls : owner = c /\ state \in {"prepared", "reading"} ~>
        state \in {"committed", "uncertain"} \/ owner # c \/ pc[c] = "dead"
=============================================================================
