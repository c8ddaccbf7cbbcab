---------------------------- MODULE GovernedEffect ----------------------------
(* What human approval of an effect promises: a permit is granted when        *)
(* somebody was asked, lapses for good, and pays for one effect; the effect   *)
(* happens at most once, and after it nobody is asked again.  No session,     *)
(* reservation, worker or crash is in sight.                                  *)

CONSTANT Permits

VARIABLES
    permit,     \* none, granted, spent, void
    phase,      \* asking, allowed, rejected, closed
    applied     \* permits the effect happened under

vars == <<permit, phase, applied>>

Init ==
    /\ permit = [n \in Permits |-> "none"]
    /\ phase = "asking" /\ applied = {}

Grant(n) ==
    /\ phase = "asking" /\ permit[n] = "none"
    /\ permit' = [permit EXCEPT ![n] = "granted"]
    /\ phase' = "allowed"
    /\ UNCHANGED applied

Granted == {n \in Permits : permit[n] = "granted"}
Without(N) == [n \in Permits |-> IF n \in N THEN "void" ELSE permit[n]]

Lapse ==
    /\ \E N \in SUBSET Granted : permit' = Without(N)
    /\ UNCHANGED <<phase, applied>>

Reject ==
    /\ phase = "asking" /\ phase' = "rejected"
    /\ permit' = Without(Granted)
    /\ UNCHANGED applied

Apply(n) ==
    /\ phase = "allowed" /\ permit[n] = "granted" /\ applied = {}
    /\ permit' = [permit EXCEPT ![n] = "spent"]
    /\ applied' = {n}
    /\ UNCHANGED phase

AskAgain ==
    /\ phase = "allowed" /\ applied = {}
    /\ phase' = "asking"
    /\ UNCHANGED <<permit, applied>>

Close ==
    /\ phase = "allowed" /\ applied # {}
    /\ phase' = "closed"
    /\ UNCHANGED <<permit, applied>>

Next ==
    \/ \E n \in Permits : Grant(n) \/ Apply(n)
    \/ Lapse \/ Reject \/ AskAgain \/ Close

Spec == Init /\ [][Next]_vars
=============================================================================
