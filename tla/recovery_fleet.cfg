SPECIFICATION Spec
CONSTANTS
    d1 = d1
    d2 = d2
    MaxSteps = 2
    MaxFaults = 1
    Semantics = {"COMPENSABLE"}
    CompKinds = {"keyed"}
    Fallbacks = FALSE
    Parallel = FALSE
    LateEffects = FALSE
    DurableCommit = TRUE
    HaltOnFailure = TRUE
    Daemons = {d1, d2}
    Handlers = {"keyed"}
    MaxTrouble = 1
CHECK_DEADLOCK FALSE
SYMMETRY DaemonSymmetry
INVARIANTS
    
    RecoveredMeansUndone
    DaemonsApplyOnce
PROPERTIES
    RecoveryLIFO
