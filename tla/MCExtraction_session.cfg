SPECIFICATION FairSpec
CONSTANTS
    NumAccounts = 2
    PageCounts = {1, 3}
    MaxPages = 2
    MaxLlmCalls = 8
    LoginCalls = {8}
    MaxAttempts = 2
    Adapters = {TRUE, FALSE}
    Client = "anthropic"
CHECK_DEADLOCK FALSE
INVARIANTS TypeOK OneResultEach HistoryIsFaithful StartsFromDashboard BudgetIsKept
PROPERTIES SessionEnds
