SPECIFICATION Spec
CONSTANTS
    c1 = c1
    c2 = c2
    Calls = {c1, c2}
    Verdict <- MCVerdict
    Limits <- MCLimits
    Requests <- MCRequests
    Amounts <- MCAmounts
    ApprovalStores = {"file", "redis"}
    LimitStores = {"process", "redis"}
    MaxTime = 2
    MaxFaults = 1
CHECK_DEADLOCK FALSE
INVARIANTS
    BudgetHolds
    HumanInTheLoop
PROPERTIES
    EvaluationEnds
