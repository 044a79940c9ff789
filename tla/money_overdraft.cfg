SPECIFICATION Spec
CONSTANTS
    Reqs = {r1, r2, r3}
    Players = {p1}
    r1 = r1
    r2 = r2
    r3 = r3
    p1 = p1
    Nobody = Nobody
    Kinds = {"see", "getout"}
    MaxAdNum = 1
    SeeEarnings = 1
    Amounts = {1}
    LastDay = 0
    Timely = TRUE
    Faults = FALSE
    OneAtATime = FALSE
SYMMETRY Symmetry
CHECK_DEADLOCK FALSE
INVARIANTS
    NoOverdraft
