SPECIFICATION LiveSpec
CONSTANTS
    MaxSteps = 2
    MaxFaults = 1
    Semantics = {"REVERSIBLE", "COMPENSABLE"}
    CompKinds = {"none", "plain"}
    Fallbacks = TRUE
    Parallel = FALSE
    LateEffects = TRUE
    DurableCommit = TRUE
    HaltOnFailure = TRUE
CHECK_DEADLOCK FALSE
INVARIANTS
    IntentBeforeEffect
    InverseBeforeReturn
    NothingForgotten
PROPERTIES
    UndoLIFO
    RollbackEnds
