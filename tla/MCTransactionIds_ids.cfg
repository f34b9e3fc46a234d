SPECIFICATION Spec
CONSTANTS
    rent = rent
    fee = fee
    Texts = {rent, fee}
    PageSize = 2
    MaxPages = 2
    MaxPosted = 4
    MaxSyncs = 3
CHECK_DEADLOCK FALSE
INVARIANTS NothingLost
PROPERTIES SyncIsIdempotent
