\* Two calls of evaluate, two candidate models, two recoveries.
SPECIFICATION LiveSpec
CONSTANTS
    Calls = {a, b}
    Models = {m, n}
    MaxRecoveries = 2
    Nobody = Nobody
    NoModel = NoModel
    NoResult = NoResult
INVARIANTS
    EvaluationInv
    OneAnswer
PROPERTIES
    ImplementsOneReadBudget
    ReservationSettles
\* A committed evaluation, with every call over, may rest.
CHECK_DEADLOCK FALSE
