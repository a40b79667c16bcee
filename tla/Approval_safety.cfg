SPECIFICATION Spec
CONSTANTS
    Requests = {r1, r2}
    N = 2
    Acts = {"submit", "submitContract", "approve", "reject", "cancel", "edit", "delete"}
    Alone = TRUE
    Dated = TRUE
    MaxApprovals = 3
    MaxEdits = 1
    r1 = r1
    r2 = r2
CHECK_DEADLOCK FALSE
SYMMETRY RequestSymmetry
INVARIANTS
    UnderReviewHasOneApproval
    SignedByAllNodes
    NodeDecidedByItsRole
PROPERTIES
    DecidedStays
    DeletionSparesReviewed
