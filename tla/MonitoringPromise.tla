-------------------------- MODULE MonitoringPromise --------------------------
(* What the local monitoring schedules promise: the periods of a schedule are *)
(* taken up in order, each is tried at most so many times and gets one        *)
(* verdict for good, a period is given up only when its tries are used up,    *)
(* and only an outcome is ever announced.  No scheduler or lease is in sight. *)
EXTENDS Naturals

CONSTANTS Schedules, MaxPeriods, MaxAttempts

Periods == Schedules \X (1..MaxPeriods)

VARIABLES
    admitted,   \* periods taken up
    tries,      \* how often a period was tried
    verdict,    \* open, outcome, given_up
    announced   \* periods whose outcome the recipient has

vars == <<admitted, tries, verdict, announced>>

Init ==
    /\ admitted = {} /\ announced = {}
    /\ tries = [k \in Periods |-> 0]
    /\ verdict = [k \in Periods |-> "open"]

Admit(k) ==
    /\ k \notin admitted
    /\ \A n \in 1..MaxPeriods : n < k[2] => <<k[1], n>> \in admitted
    /\ admitted' = admitted \cup {k}
    /\ tries' = [tries EXCEPT ![k] = 1]
    /\ UNCHANGED <<verdict, announced>>

TryAgain(k) ==
    /\ k \in admitted /\ verdict[k] = "open" /\ tries[k] < MaxAttempts
    /\ tries' = [tries EXCEPT ![k] = @ + 1]
    /\ UNCHANGED <<admitted, verdict, announced>>

Conclude(k) ==
    /\ k \in admitted /\ verdict[k] = "open"
    /\ verdict' = [verdict EXCEPT ![k] = "outcome"]
    /\ UNCHANGED <<admitted, tries, announced>>

GiveUp(K) ==
    /\ \A k \in K : verdict[k] = "open" /\ tries[k] = MaxAttempts
    /\ verdict' = [k \in Periods |-> IF k \in K THEN "given_up" ELSE verdict[k]]
    /\ UNCHANGED <<admitted, tries, announced>>

Announce(k) ==
    /\ verdict[k] = "outcome"
    /\ announced' = announced \cup {k}
    /\ UNCHANGED <<admitted, tries, verdict>>

Next ==
    \/ \E k \in Periods : Admit(k) \/ TryAgain(k) \/ Conclude(k) \/ Announce(k)
    \/ \E K \in SUBSET Periods : GiveUp(K)

Spec == Init /\ [][Next]_vars
=============================================================================
