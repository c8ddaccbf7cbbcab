SPECIFICATION FairSpec
CONSTANTS
    Steps = {1, 2}
    Deps <- ChainDeps
    Contracted = {1}
    ReadOnly = {}
    Gated = {2}
    Skippable = {1}
    Hooked = {1}
    WorkflowHooked = TRUE
    NoOutput = NoOutput
    MaxAttempts = 2
    CrashLimit = 2
\* The user may leave a finished, failed or cancelled plan alone.
CHECK_DEADLOCK FALSE
INVARIANTS
    LedgerInv
    LedgerTellsTheTruth
    LineageCurrent
    
    ConfirmationCurrent
PROPERTIES
    CancelSticks
    EvidenceImmutable
    RefinesEffectLedger
    JobAdvances
    JobEnds
