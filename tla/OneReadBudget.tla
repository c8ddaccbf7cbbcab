---------------------------- MODULE OneReadBudget ----------------------------
(* What a blind evaluation promises: the sealed rows are looked at once, by   *)
(* somebody who had spent the budget before, and one outcome comes of it,     *)
(* which is all that anybody is ever told.  A budget that is spent stays      *)
(* spent, with or without an outcome.  No owner, recovery or crash is in      *)
(* sight.                                                                     *)

CONSTANTS Lookers, Outcomes, NoOutcome

VARIABLES
    budget,     \* kept or spent
    looked,     \* who looked at the sealed rows
    outcome,    \* what came of it, for good
    told        \* what callers were given

vars == <<budget, looked, outcome, told>>

Init == budget = "kept" /\ looked = {} /\ outcome = NoOutcome /\ told = {}

Spend ==
    /\ budget = "kept" /\ budget' = "spent"
    /\ UNCHANGED <<looked, outcome, told>>

Look ==
    /\ budget = "spent" /\ looked = {}
    /\ \E c \in Lookers : looked' = {c}
    /\ UNCHANGED <<budget, outcome, told>>

Settle ==
    /\ looked # {} /\ outcome = NoOutcome
    /\ outcome' \in Outcomes /\ told' = {outcome'}
    /\ UNCHANGED <<budget, looked>>

Next == Spend \/ Look \/ Settle

Spec == Init /\ [][Next]_vars
=============================================================================
