SPECIFICATION Spec
CONSTANTS
    Reqs = {r1, r2, r3}
    Players = {p1, p2}
    r1 = r1
    r2 = r2
    r3 = r3
    p1 = p1
    p2 = p2
    Nobody = Nobody
    Kinds = {"see"}
    MaxAdNum = 1
    SeeEarnings = 1
    Amounts = {1}
    LastDay = 1
    Timely = FALSE
    Faults = TRUE
    OneAtATime = FALSE
SYMMETRY Symmetry
CHECK_DEADLOCK FALSE
INVARIANTS
    NeverOverReported
    HistoryNotOverstated
