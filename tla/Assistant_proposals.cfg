SPECIFICATION Spec
CONSTANTS
    Workers = {w1, w2}
    Requests = {}
    MaxTurns = 8
    MaxCards = 3
    MaxFaults = 2
    Proposals <- BothSorts
    Claimed <- Stage
    Acts <- Settling
SYMMETRY Symmetry
VIEW Unsettled
INVARIANTS
    SettledIsProven
PROPERTIES
    AnswersItsCard
CHECK_DEADLOCK FALSE
