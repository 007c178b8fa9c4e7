SPECIFICATION WatchedSpec
CONSTANTS
    d1 = d1
    MaxSteps = 2
    MaxFaults = 0
    Semantics = {"COMPENSABLE", "IRREVERSIBLE"}
    CompKinds = {"plain"}
    Fallbacks = FALSE
    Parallel = FALSE
    LateEffects = FALSE
    DurableCommit = FALSE
    HaltOnFailure = FALSE
    Daemons = {d1}
    Handlers = {"plain"}
    MaxTrouble = 1
CHECK_DEADLOCK FALSE
PROPERTIES
    CrashResolved
