SPECIFICATION FairSpec
CONSTANTS
    NumAccounts = 2
    PageCounts = {1}
    MaxPages = 2
    MaxLlmCalls = 8
    LoginCalls = {2}
    MaxAttempts = 1
    Adapters = {TRUE, FALSE}
    Client = "anthropic"
CHECK_DEADLOCK FALSE
PROPERTIES HungPageLetsGo
