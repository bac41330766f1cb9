SPECIFICATION BSpec
CONSTANTS
    Requests = {r1, r2}
    Accounts = {a1}
    Addresses = {i1}
    NoAddress = NoAddress
    UserFree = 0
    IpFree = 1
    MaxDelay = 2
    Doublings = 1
    MaxStreak = 4
    MaxLost = 1
INVARIANTS BTypeOK
PROPERTIES AttemptsAreSpaced SelfRecovers
SYMMETRY Symmetry
