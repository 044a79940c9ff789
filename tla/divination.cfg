SPECIFICATION Spec
CONSTANTS
    Reqs = {r1, r2, r3, r4}
    Players = {p1, p2}
    r1 = r1
    r2 = r2
    r3 = r3
    r4 = r4
    p1 = p1
    p2 = p2
    Nobody = Nobody
    RankLen = 2
    Bonus = {0}
    LastDay = 1
    Faults = TRUE
SYMMETRY Symmetry
CHECK_DEADLOCK FALSE
INVARIANTS
    DrawnIsFound
    RankIsTodays
    NoQuietLoss
