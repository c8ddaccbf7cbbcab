\* Two processes, a required hook per event, at most three attempts per hook.
SPECIFICATION Spec
CONSTANTS
    Processes = {p, q}
    Targets = {1, 2}
    Required = {1, 2}
    SecondEvent = {2}
    MaxGeneration = 3
    CrashLimit = 1
    NoOne = NoOne
INVARIANTS
    HookInv
    DoneMeansDelivered
PROPERTIES
    ImplementsPromise
SYMMETRY ProcessSymmetry
CHECK_DEADLOCK FALSE
