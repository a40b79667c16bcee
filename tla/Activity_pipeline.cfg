SPECIFICATION FairSpec
CONSTANTS
    Workers = {w1, w2}
    NoWorker = NoWorker
    MaxAttempts = 3
    Activities = {a1}
    NoActivity = NoActivity
    MaxRevision = 3
    MaxCrashes = 2
    w1 = w1
    w2 = w2
    a1 = a1
    a2 = a2
CHECK_DEADLOCK FALSE
INVARIANTS
    FollowUpMatchesFinalization
PROPERTIES
    NoWriteAfterDeletion
    ImplementsPromise
    FormActivitySettles
