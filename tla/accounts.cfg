SPECIFICATION Spec
CONSTANTS
    Reqs = {r1, r2, r3}
    OpenIDs = {wx, 1}
    r1 = r1
    r2 = r2
    r3 = r3
    wx = wx
    WxIDs = {wx}
    Calm = {wx}
    Nobody = Nobody
    Versions = {v1, v2}
    v1 = v1
    v2 = v2
    TestVersion = v2
    Blank = Blank
    TokenLife = 1
    LastSecond = 3
    MaxBoots = 2
    Faults = TRUE
SYMMETRY Symmetry
CHECK_DEADLOCK FALSE
INVARIANTS
    OneAccount
    TokenOwner
    HashesApart
    CacheAgrees
    FreshAccepted
    RestartLogsOut
