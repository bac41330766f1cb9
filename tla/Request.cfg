SPECIFICATION RSpec
CONSTANTS
    Users = {u1, u2}
    Nobody = Nobody
    Roles = {"Admin", "staff"}
    Fold <- Lower
    BypassRole = "admin"
    NoRole = "none"
    Fields = {"login", "item", "staff", "pay", "notes"}
    Auth <- SmallSchema
    Wired = TRUE
    Rows = {x1}
    Clauses <- TwoConditions
    Extras <- NamesAdded
    Conns = {c1}
    Requests = {r1}
    NoRequest = NoRequest
    MFAWindow = 0
    MaxSkew = 1
    MaxChanges = 1
    MaxClock = 3
    SensitiveFields = {"login"}
    MaxAliases = 3
    MaxDepth = 0
    DefaultMaxAliases = 100
    DefaultMaxDepth = 2
    MaxInt = 1000
    Documents <- SmallDocuments
    NoDocument = NoDocument
INVARIANTS RTypeOK ShownRowsAreOwned SettingsAreTheCallers SensitiveOnce NestingBounded
PROPERTIES RolesWereHeld StepUpFresh WrittenRowsWereOwned
SYMMETRY Symmetry
