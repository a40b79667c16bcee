SPECIFICATION Spec
CONSTANTS
    Requests = {r1, r2}
    Plans = {p1, p2}
    Keys = {k1, k2}
    Total = 2
    Late = {p2}
    Acts = {"createPlan", "updatePlan", "deletePlan", "register", "correct", "remove", "submit", "approve", "reject", "cancel"}
    Alone = {"createPlan", "updatePlan", "deletePlan", "correct", "remove"}
    r1 = r1
    r2 = r2
    p1 = p1
    p2 = p2
    k1 = k1
    k2 = k2
CHECK_DEADLOCK FALSE
SYMMETRY LedgerSymmetry
INVARIANTS
    RecordsWithinPlan
    NeverOverstated
    ReceiptTellsTheTruth
