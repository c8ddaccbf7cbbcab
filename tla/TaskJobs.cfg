\* Two jobs of one task in any order; requests, stops, crashes at any step.
SPECIFICATION FairSpec
CONSTANTS
    NoJob = NoJob
    Jobs = {a, b}
    Workflows <- TaskTypes
INVARIANTS
    LeaseInv
    EarlyStopHeard
    RequestsHitTheirJob
PROPERTIES
    LeaseKept
    TaskComesFree
CHECK_DEADLOCK FALSE
