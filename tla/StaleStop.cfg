\* A stop that finds no job, and a report job inserted after it is over.
SPECIFICATION Spec
CONSTANTS
    NoJob = NoJob
    Jobs = {a, b}
    Workflows <- TaskTypes
INVARIANT StopsHitTheirJob
CHECK_DEADLOCK FALSE
