SPECIFICATION Spec
CONSTANTS
    Users = {u1, u2}
    SessionIds = {s1}
    Tokens = {t1}
    Requests = {r1, r2}
    Emails = {e1}
    Passwords = {p1}
    Links = {l1, l2}
    Nobody = Nobody
    NoToken = NoToken
    NoEmail = NoEmail
    NoPassword = NoPassword
    NoLink = NoLink
    NoSession = NoSession
    Ops = {"register", "verify", "invite", "accept", "forgot"}
    Provisioned = {}
    AllowUnverified = FALSE
    VerifyTTL = 2
    ResetTTL = 1
    InviteTTL = 3
    MaxHashes = 4
    Idle = 2
    Absolute = 2
    RefreshAfter = 1
    TxLag = 0
    MaxClock = 3
INVARIANTS VerifiedByMailbox OneAccountPerAddress LinksBurnOnce
SYMMETRY Symmetry
