SPECIFICATION Spec
CONSTANTS
    Workers = {w1, w2}
    NoWorker = NoWorker
    MaxAttempts = 2
    Nodes = {n1}
    Outcomes = {}
    Events = {}
    Uuids = {x1}
    First = First
    Users = {u1}
    NoKey = NoKey
    MaxResets = 1
    MaxCrashes = 0
    w1 = w1
    w2 = w2
    n1 = n1
    e1 = e1
    b1 = b1
    x1 = x1
    u1 = u1
    u2 = u2
SYMMETRY WorkerSymmetry
CHECK_DEADLOCK FALSE
INVARIANTS
    CopiesBounded
    CompletedWasHandedOver
PROPERTIES
    ImplementsDurableJob
