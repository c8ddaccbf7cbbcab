SPECIFICATION Spec
CONSTANTS
    Units = {u, v}
    Files = {f}
    Directories = {d}
    Plugins = {g}
    Handoffs = {h}
    Original = Original
    Absent = Absent
    Torn = Torn
    CrashLimit = 2
INVARIANTS
    ArtifactInv
    
    DatabaseDecides
    FailureLeavesNoTrace
 
SYMMETRY UnitSymmetry
CHECK_DEADLOCK FALSE
