SPECIFICATION WSpec
CONSTANTS
    Users = {u1}
    SessionIds = {s1, s2, s3}
    Tokens = {t1, t2, t3, t4}
    Requests = {r1, r2}
    Nobody = Nobody
    NoToken = NoToken
    NoSession = NoSession
    Idle = 1
    Absolute = 1
    RefreshAfter = 1
    TxLag = 0
    MaxClock = 1
    MaxOutages = 0
PROPERTIES SignedOutOnlyByLogout
SYMMETRY Symmetry
