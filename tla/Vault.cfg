SPECIFICATION VSpec
CONSTANTS
    Devices = {d1, d2}
    Passwords = {p1, p2}
    KDFs = {k1, k2}
    Ops = {"rewrap", "discard", "redeploy", "rehash", "close"}
    MaxHashes = 2
    MaxVersion = 2
    MaxRoots = 2
INVARIANTS VTypeOK 
PROPERTIES RootKeyStable ConflictMeansAnotherWrote
SYMMETRY Symmetry
