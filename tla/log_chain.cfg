SPECIFICATION Spec
CONSTANTS
    s1 = s1
    s2 = s2
    Sagas = {s1, s2}
    Housekeepers = {"shared", "path"}
    Beside = FALSE
    MaxLives = 2
    MaxCompactions = 2
    MaxFaults = 2
CHECK_DEADLOCK FALSE
INVARIANTS
    BrokenForAReason
    

    
