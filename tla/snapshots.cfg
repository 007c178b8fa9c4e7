SPECIFICATION SweptSpec
CONSTANTS
    MaxSteps = 2
    Grace = 1
    MaxTrouble = 2
CHECK_DEADLOCK FALSE
INVARIANTS
    
    UndoneMeansRestored
PROPERTIES
    GarbageGoes
