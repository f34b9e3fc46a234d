SPECIFICATION FairSpec
CONSTANTS
    right = right
    wrong = wrong
    NoCode = NoCode
    Codes = {right, wrong}
    GoodCodes = {right}
    Limit = 1
    MaxNow = 3
    MaxFaults = 2
    Deletable = TRUE
INVARIANTS StatusFollowsJournal VerdictIsBacked ReplayMatches
PROPERTIES Lifecycle LateMeansNoBrowser FirstCodeCounts EndsUnlessBlocked
CHECK_DEADLOCK FALSE
