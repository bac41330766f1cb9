SPECIFICATION VSpec
CONSTANTS
    Devices = {d1, d2}
    Passwords = {p1, p2}
    KDFs = {k1}
    Ops = {"discard"}
    MaxHashes = 2
    MaxVersion = 2
    MaxRoots = 2
PROPERTIES LoserLearns
SYMMETRY Symmetry
