SPECIFICATION FairSpec
CONSTANTS
    a1 = a1
    a2 = a2
    a3 = a3
    b1 = b1
    b2 = b2
    bankA = bankA
    bankB = bankB
    Global = Global
    Syncs = {a1, a2, a3, b1, b2}
    Banks = {bankA, bankB}
    BankOf <- MCBankOf
    MaxConcurrentSyncs = 3
    MaxConcurrentPerBank = 2
INVARIANTS NoUnitLost NoLostWakeUp
PROPERTIES ImplementsPool NoOvertaking EveryoneServed
