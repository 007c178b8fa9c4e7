SPECIFICATION Spec
CONSTANTS
    s1 = s1
    s2 = s2
    Sagas = {s1, s2}
    n1 = n1
    n2 = n2
    Nodes = {n1, n2}
    acct = acct
    card = card
    Resources = {acct, card}
    Reach <- MCReach
    Homes <- MCHomes
    Managers = {"process", "redis"}
    NoSaga = NoSaga
    Ttl = 2
    Patience = 1
    MaxFaults = 1
CHECK_DEADLOCK FALSE
INVARIANTS
    KeptUnlessCut
PROPERTIES
    ClaimsEnd
