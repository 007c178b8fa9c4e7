SPECIFICATION LiveSpec
CONSTANTS
    Boundaries = {"session", "explicit"}
    MaxCalls = 3
    MaxFaults = 1
    ServerFaults = {"dead", "mute"}
CHECK_DEADLOCK FALSE
INVARIANTS
    CleanMeansUndone
    NotKeptUnasked
PROPERTIES
    SessionEnds
