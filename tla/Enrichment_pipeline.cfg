SPECIFICATION FairSpec
CONSTANTS
    Workers = {w1, w2}
    NoWorker = NoWorker
    MaxAttempts = 3
    Customers = {c1}
    NoCustomer = NoCustomer
    MaxEdits = 2
    MaxCrashes = 1
    w1 = w1
    w2 = w2
    c1 = c1
    c2 = c2
CHECK_DEADLOCK FALSE
INVARIANTS
    CompletedMeansWrittenOnce
PROPERTIES
    UserValueSurvives
    ImplementsDurableJob
    SuccessIsRefreshed
    MissedJobIsRegistered
    LostAttemptIsRetaken
