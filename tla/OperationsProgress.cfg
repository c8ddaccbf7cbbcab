\* Liveness: two schedulers that crash and race over one period.
SPECIFICATION FairSpec
CONSTANTS
    Schedules = {s}
    MaxPeriods = 1
    MaxRevision = 2
    MaxAttempts = 2
    Schedulers = {p, q}
    Budget = 2
    CatchUp = 1
    NotifyBudget = 1
    MaxSends = 2
    CrashLimit = 1
    Nothing = Nothing
PROPERTIES
    
    OutcomesAnnounced
CHECK_DEADLOCK FALSE
