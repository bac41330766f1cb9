SPECIFICATION JSpec
CONSTANTS
    SessionIds = {s1}
    Requests = {r1}
    Instances = {i1, i2}
    Remotes = {v1}
    Unit = 2
    TTLs <- AskedTTLs
    MaxTokenTTL = 4
    MaxAge = 4
    MaxRequest = 1
    MaxKey = 2
    MaxTokens = 1
    MaxClock = 10
INVARIANTS RevocationWindow GoodWhileDue RetiredKeyDies
SYMMETRY Symmetry
