SPECIFICATION Spec
CONSTANTS
    d1 = d1
    Ops = {"update", "insert", "delete"}
    Daemons = {d1}
    FreshKeys = TRUE
    MaxSteps = 3
    MaxTheirs = 1
    MaxTrouble = 2
CHECK_DEADLOCK FALSE
INVARIANTS
    CleanMeansRestored
PROPERTIES
    
    StaysUndone
