SPECIFICATION LiveSpec
CONSTANTS
    Workers = {w1, w2}
    Requests = {r1}
    MaxTurns = 3
    MaxCards = 2
    MaxFaults = 1
    Proposals = {}
    Claimed = {}
    Acts <- Drafting
INVARIANTS
    OneOpenTurn
PROPERTIES
    LatestInputWins
    EveryTurnSettles
CHECK_DEADLOCK FALSE
