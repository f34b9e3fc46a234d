SPECIFICATION Spec
CONSTANTS
    right = right
    wrong = wrong
    NoCode = NoCode
    Codes = {right, wrong}
    GoodCodes = {right}
    Limit = 1
    MaxNow = 2
    MaxFaults = 1
    Deletable = FALSE
INVARIANT CheckNeverBreaksReplay
CHECK_DEADLOCK FALSE
