\* Two schedulers, two periods of a schedule, two attempts and two sends.
SPECIFICATION Spec
CONSTANTS
    Schedules = {s}
    MaxPeriods = 2
    MaxRevision = 2
    MaxAttempts = 2
    Schedulers = {p, q}
    Budget = 2
    CatchUp = 1
    NotifyBudget = 1
    MaxSends = 2
    CrashLimit = 1
    Nothing = Nothing
INVARIANTS
    OperationsInv
    LatestAttemptDecides
PROPERTY
    ImplementsPromise
SYMMETRY SchedulerSymmetry
CHECK_DEADLOCK FALSE
