------------------------- MODULE NotificationOutbox -------------------------
(* The outbox of monitoring outcomes and the local inbox it is delivered to   *)
(* (marvis/operations/repository.py, local_inbox.py).  An item is an outcome, *)
(* and the outbox has at most one row for it.                                 *)
EXTENDS Integers

CONSTANTS
    Items,
    MaxSends    \* notification_retry_policy.max_attempts

VARIABLES
    note,      \* operations_notification_outbox.status, none without a row
    sends,     \* its attempt_count
    noteDue,   \* next_attempt_at has passed
    noteLive,  \* lease_expires_at is still to come
    inbox      \* operations_local_inbox

outboxVars == <<note, sends, noteDue, noteLive, inbox>>

OutboxTypeOK ==
    /\ note \in [Items -> {"none", "pending", "sending", "sent", "exhausted"}]
    /\ sends \in [Items -> 0..MaxSends]
    /\ noteDue \in [Items -> BOOLEAN] /\ noteLive \in [Items -> BOOLEAN]
    /\ inbox \subseteq Items

OutboxInit ==
    /\ note = [k \in Items |-> "none"]
    /\ sends = [k \in Items |-> 0]
    /\ noteDue = [k \in Items |-> FALSE] /\ noteLive = [k \in Items |-> FALSE]
    /\ inbox = {}

(* enqueue_notification: a row that exists is left as it is.                  *)
Enqueue(K) ==
    /\ note' = [k \in Items |-> IF k \in K /\ note[k] = "none" THEN "pending" ELSE note[k]]
    /\ noteDue' = [k \in Items |-> noteDue[k] \/ (k \in K /\ note[k] = "none")]
    /\ UNCHANGED <<sends, noteLive, inbox>>

Sendable(k) == note[k] = "pending" /\ noteDue[k]
ClaimNotification(k) ==
    /\ note' = [note EXCEPT ![k] = "sending"]
    /\ sends' = [sends EXCEPT ![k] = @ + 1]
    /\ noteLive' = [noteLive EXCEPT ![k] = TRUE]
    /\ noteDue' = [noteDue EXCEPT ![k] = FALSE]
    /\ UNCHANGED inbox

(* LocalInboxAdapter.send: an item is stored once under its stable id.        *)
Store(k) == inbox' = inbox \cup {k} /\ UNCHANGED <<note, sends, noteDue, noteLive>>

NoteCurrent(k, attempt) == note[k] = "sending" /\ sends[k] = attempt

CompleteNotification(k) ==
    /\ note' = [note EXCEPT ![k] = "sent"]
    /\ noteLive' = [noteLive EXCEPT ![k] = FALSE]
    /\ UNCHANGED <<sends, noteDue, inbox>>

(* A failed or expired send is tried again until its attempts are used up.    *)
SendFailure(K) ==
    /\ note' = [k \in Items |->
                    IF k \notin K THEN note[k]
                    ELSE IF sends[k] >= MaxSends THEN "exhausted" ELSE "pending"]
    /\ noteLive' = [k \in Items |-> k \notin K /\ noteLive[k]]
    /\ UNCHANGED <<sends, noteDue, inbox>>

RecoverExpiredSends == SendFailure({k \in Items : note[k] = "sending" /\ ~noteLive[k]})

SendLeaseRunsOut(k) ==
    /\ note[k] = "sending" /\ noteLive[k]
    /\ noteLive' = [noteLive EXCEPT ![k] = FALSE]
    /\ UNCHANGED <<note, sends, noteDue, inbox>>

SendBackoffElapses(k) ==
    /\ note[k] = "pending" /\ ~noteDue[k]
    /\ noteDue' = [noteDue EXCEPT ![k] = TRUE]
    /\ UNCHANGED <<note, sends, noteLive, inbox>>
=============================================================================
