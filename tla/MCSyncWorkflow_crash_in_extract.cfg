SPECIFICATION FairSpec
CONSTANTS
    right = right
    wrong = wrong
    NoCode = NoCode
    Codes = {right, wrong}
    GoodCodes = {right}
    Limit = 2
    MaxNow = 1
    MaxFaults = 1
    Deletable = FALSE
PROPERTY CrashRecovery
CHECK_DEADLOCK FALSE
