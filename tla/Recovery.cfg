SPECIFICATION Spec
CONSTANTS
    Users = {u1}
    SessionIds = {s1, s2}
    Tokens = {t1, t2}
    Requests = {r1, r2}
    Emails = {e1}
    Passwords = {p1, p2}
    Links = {l1}
    Nobody = Nobody
    NoToken = NoToken
    NoEmail = NoEmail
    NoPassword = NoPassword
    NoLink = NoLink
    NoSession = NoSession
    Ops = {"login", "logout", "change", "forgot", "reset"}
    Provisioned = {u1}
    AllowUnverified = FALSE
    VerifyTTL = 1
    ResetTTL = 1
    InviteTTL = 1
    MaxHashes = 3
    Idle = 2
    Absolute = 3
    RefreshAfter = 1
    TxLag = 0
    MaxClock = 1
INVARIANTS ResetEndsEarlierSessions ReplacedCredentialsDead
PROPERTIES RehashKeepsPassword ChangeClobbersNothing
SYMMETRY Symmetry
