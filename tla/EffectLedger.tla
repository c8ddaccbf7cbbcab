---------------------------- MODULE EffectLedger ----------------------------
(* What the step-run ledger promises about tool calls: an attempt with side   *)
(* effects is followed by another attempt of its step only when its outcome   *)
(* is known, and what is known stays known.                                   *)
EXTENDS Naturals

CONSTANTS Steps, Effectful, MaxAttempts

VARIABLES called, \* attempts whose tool was called
          known   \* attempts whose outcome is settled

Attempts == Steps \X (1..MaxAttempts)

Init == called = {} /\ known = {}

(* A tool is called once per attempt, never for an attempt already settled.   *)
Call(r) ==
    /\ r \notin called \cup known
    /\ \A q \in called : q[1] = r[1] /\ q[2] < r[2] /\ q[1] \in Effectful => q \in known
    /\ \A q \in called : q[1] = r[1] => q[2] < r[2]
    /\ called' = called \cup {r}
    /\ UNCHANGED known

Settle(r) == r \notin known /\ known' = known \cup {r} /\ UNCHANGED called

Next == \E r \in Attempts : Call(r) \/ Settle(r)

Spec == Init /\ [][Next]_<<called, known>>
=============================================================================
