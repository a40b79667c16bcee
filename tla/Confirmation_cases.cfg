SPECIFICATION MCSpec
CONSTANTS
    Workers = {w1, w2}
    NoWorker = NoWorker
    Requests = {r1, r2}
    Activities = {a1, a2}
    MaxRevision = 2
    MaxCases = 2
    MaxAttempts = 2
    Outcomes = {"sent", "unnamed", "failed", "skipped"}
    w1 = w1
    w2 = w2
    r1 = r1
    r2 = r2
    a1 = a1
    a2 = a2
SYMMETRY Symmetry
CHECK_DEADLOCK FALSE
INVARIANTS PendingIsCurrent AnsweredOnce PromptsCounted
PROPERTIES ClosedStaysClosed
