SPECIFICATION Spec
CONSTANTS
    Requests = {r1, r2}
    Users = {u1, u2}
    Customers = {c1, c2}
    Names = {n1}
    nobody = nobody
    Acts = {"claimLead", "assignLead", "returnLead", "invalidLead", "editLead", "deleteLead", "convert", "claim", "return", "assign", "legacyAssign", "lifecycle", "edit", "setStatus", "lose", "delete"}
    MaxRequests = 4
    r1 = r1
    r2 = r2
    u1 = u1
    u2 = u2
    c1 = c1
    c2 = c2
    n1 = n1
    n2 = n2
CHECK_DEADLOCK FALSE
SYMMETRY OwnershipSymmetry
PROPERTIES
    ActsOnWhatIsShown
    ClosedStaysClosed
    ReviewedKeepsOwner
