SPECIFICATION SSpec
CONSTANTS
    Users = {u1, u2}
    SessionIds = {s1, s2}
    Tokens = {t1, t2, t3}
    Nobody = Nobody
    NoToken = NoToken
    Idle = 3
    Absolute = 4
    RefreshAfter = 1
    TxLag = 0
    MaxClock = 6
INVARIANTS STypeOK LifetimeBound IdleWindow FactorWithinSession
PROPERTIES DeadSessionsStayDead ImplementsCredential
SYMMETRY Symmetry
