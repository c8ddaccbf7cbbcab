-------------------------- MODULE AtMostOnceHooks ---------------------------
(* What completion hooks promise, with no attempt, process or receipt in      *)
(* sight: the obligations are bound once, each takes effect at most once, is  *)
(* acknowledged only afterwards and for good, and the step completes when all *)
(* the required ones are acknowledged.                                        *)
CONSTANTS Targets, Required, Attempts

VARIABLES
    bound, obligations,  \* whether the obligations are bound, and to what
    delivered,           \* the attempts of a target that took effect
    acknowledged,        \* targets known to have taken effect
    complete             \* the step is complete

vars == <<bound, obligations, delivered, acknowledged, complete>>

Init ==
    /\ bound = FALSE /\ obligations = {} /\ acknowledged = {} /\ complete = FALSE
    /\ delivered = [t \in Targets |-> {}]

Bind ==
    /\ ~bound /\ bound' = TRUE
    /\ obligations' \in SUBSET Targets
    /\ UNCHANGED <<delivered, acknowledged, complete>>

Deliver(t) ==
    /\ t \in obligations /\ delivered[t] = {}
    /\ \E attempt \in Attempts : delivered' = [delivered EXCEPT ![t] = {attempt}]
    /\ UNCHANGED <<bound, obligations, acknowledged, complete>>

Acknowledge(t) ==
    /\ delivered[t] # {}
    /\ acknowledged' = acknowledged \cup {t}
    /\ UNCHANGED <<bound, obligations, delivered, complete>>

Finish ==
    /\ bound /\ obligations \cap Required \subseteq acknowledged
    /\ complete' = TRUE
    /\ UNCHANGED <<bound, obligations, delivered, acknowledged>>

(* A process that lost track of a delivery fails the step again.              *)
Withdraw ==
    /\ complete' = FALSE
    /\ UNCHANGED <<bound, obligations, delivered, acknowledged>>

Next ==
    \/ Bind \/ Finish \/ Withdraw
    \/ \E t \in Targets : Deliver(t) \/ Acknowledge(t)

Spec == Init /\ [][Next]_vars
=============================================================================
