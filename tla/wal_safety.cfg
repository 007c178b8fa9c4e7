SPECIFICATION FairSpec
CONSTANTS
    c1 = c1
    c2 = c2
    Clients = {c1, c2}
    Policies = {"RAISE", "BLOCK", "DROP_SILENT"}
    MaxBuffer = 2
    BarrierTimeout = TRUE
    MaxSeq = 3
    MaxDropped = 1
INVARIANTS
    NoRecordVanishes
    
    OnlyRejectedMissing
    DiskInOrder
PROPERTIES
    
    NoLostWakeup
    
