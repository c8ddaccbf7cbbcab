SPECIFICATION Spec
CONSTANTS
    Steps = {1, 2}
    Deps <- ChainDeps
    Contracted = {1, 2}
    ReadOnly = {2}
    Gated = {2}
    Skippable = {2}
    Hooked = {1}
    WorkflowHooked = TRUE
    NoOutput = NoOutput
    MaxAttempts = 2
    CrashLimit = 1
\* The user may leave a finished, failed or cancelled plan alone.
CHECK_DEADLOCK FALSE
INVARIANT CompletePlanIsRecoverable
