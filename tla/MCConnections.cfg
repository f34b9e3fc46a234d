SPECIFICATION Spec
CONSTANTS
    u1 = u1
    u2 = u2
    c1 = c1
    c2 = c2
    Users = {u1, u2}
    Clients = {c1, c2}
    Urls <- MCUrls
    Hosts = {"acme", "heritage"}
    HeritageHosts = {"heritage"}
    MaxIds = 2
    Synced = {1}
    None = None
SYMMETRY MCSymmetry
CHECK_DEADLOCK FALSE
INVARIANTS OnePerBank AnswersAreTrue OwnRowsOnly
