SPECIFICATION Spec
CONSTANTS
    Reqs = {r1, r2}
    Players = {p1, p2}
    Phones = {x, y, z}
    Codes = {c, d}
    r1 = r1
    r2 = r2
    p1 = p1
    p2 = p2
    x = x
    y = y
    z = z
    c = c
    d = d
    WithOpenID = {p1}
    NoPhone = NoPhone
    NoCode = NoCode
    Nobody = Nobody
    Faults = TRUE
SYMMETRY Symmetry
CHECK_DEADLOCK FALSE
INVARIANTS
    Verified
    HasBindedExact
    OneOwner
