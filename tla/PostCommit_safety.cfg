SPECIFICATION Spec
CONSTANTS
    Workers = {w1, w2}
    NoWorker = NoWorker
    MaxAttempts = 2
    MaxCrashes = 1
    UserActs = {"close", "reply", "delete"}
    w1 = w1
    w2 = w2
CHECK_DEADLOCK FALSE
SYMMETRY WorkerSymmetry
PROPERTIES
    NoEffectAfterDeletion
    CompletedMeansReconciled
    ClosingSettlesTheCase
