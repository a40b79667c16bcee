SPECIFICATION FairSpec
CONSTANTS
    Workers = {w1, w2}
    NoWorker = NoWorker
    MaxAttempts = 2
    Nodes = {}
    Outcomes = {e1}
    Events = {b1}
    Uuids = {}
    First = First
    Users = {u1}
    NoKey = NoKey
    MaxResets = 0
    MaxCrashes = 1
    w1 = w1
    w2 = w2
    n1 = n1
    e1 = e1
    b1 = b1
    x1 = x1
    u1 = u1
    u2 = u2
CHECK_DEADLOCK FALSE
PROPERTY
    EveryJobSettles
