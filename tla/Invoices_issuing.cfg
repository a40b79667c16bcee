SPECIFICATION Spec
CONSTANTS
    r1 = r1
    r2 = r2
    None = None
    Requests <- MCRequests
    Reissues = 1
    MaxEdits = 1
    MaxRounds = 2
    Acts <- MCActs
SYMMETRY MCSymmetry
INVARIANTS
    IssuedAsReviewed
    OffsetsFollowCompletion
PROPERTIES
    IssuedOnce
CHECK_DEADLOCK FALSE
