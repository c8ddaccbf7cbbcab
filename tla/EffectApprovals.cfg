\* Two sessions, three decisions, three runs of the step, one crash.
SPECIFICATION Spec
CONSTANTS
    Sessions = {p, q}
    MaxDecisions = 3
    MaxRuns = 3
    CrashLimit = 1
    Nobody = Nobody
INVARIANTS
    ApprovalInv
    OneShot
    ProofsHold
    OverruledNeverActs
PROPERTY ImplementsGovernedEffect
SYMMETRY SessionSymmetry
\* A decided step, or one that cannot be reconciled, may rest.
CHECK_DEADLOCK FALSE
