SPECIFICATION FairSpec
CONSTANTS
    Codes = {right, wrong}
    RightCode = right
    right = right
    wrong = wrong
    NoCode = NoCode
    EmptyCode = EmptyCode
    MaxRewrites = 1
    MaxFaults = 2
    Client = "anthropic"
CHECK_DEADLOCK FALSE
INVARIANTS TypeOK AcceptedSyncHasCode OwnCodeIsUsed SuccessMeansSession
PROPERTIES LoginEnds
