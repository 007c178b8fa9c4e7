SPECIFICATION WatchedSpec
CONSTANTS
    acct = acct
    card = card
    Resources = {acct, card}
    Reverts = {"closure", "keyed"}
    Imported = {"keyed"}
    SlowCallbacks = FALSE
    MaxFaults = 1
    MaxTrouble = 1
CHECK_DEADLOCK FALSE
INVARIANTS
    OutcomeAgrees
    FailureOnRecord
PROPERTIES
    NeverStranded
