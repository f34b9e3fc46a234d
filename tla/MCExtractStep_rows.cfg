SPECIFICATION Spec
CONSTANTS
    j1 = j1
    j2 = j2
    t1 = t1
    t2 = t2
    Jobs = {j1, j2}
    NumAccounts = 2
    Txns = {t1, t2}
    MaxFaults = 1
    Deletable = TRUE
SYMMETRY MCSymmetry
CHECK_DEADLOCK FALSE
INVARIANTS CountersMatchLedger OneBalancePerSuccess ReturnMatchesRows
           CountedAccountsExist ResultsAreStored DeletedStaysGone
PROPERTIES ImplementsContract
