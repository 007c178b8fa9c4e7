SPECIFICATION Spec
CONSTANTS
    n1 = n1
    n2 = n2
    d1 = d1
    d2 = d2
    Nodes = {n1, n2}
    Daemons = {d1, d2}
    Keepers = {d1, d2}
    Size <- MCSize
    Chunk = 1
    MaxTrouble = 1
    MaxPasses = 2
SYMMETRY Symmetry
CHECK_DEADLOCK FALSE
INVARIANTS
    
    GlobalOrder
    FinishedLooksFinished
