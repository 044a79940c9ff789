SPECIFICATION Spec
CONSTANTS
    Reqs = {r1, r2, r3, r4, r5}
    Players = {p1}
    r1 = r1
    r2 = r2
    r3 = r3
    r4 = r4
    r5 = r5
    p1 = p1
    Nobody = Nobody
    Kinds = {"see", "getout", "entrance"}
    MaxAdNum = 2
    SeeEarnings = 1
    Amounts = {1, 2}
    LastDay = 1
    Timely = TRUE
    Faults = FALSE
    OneAtATime = TRUE
SYMMETRY Symmetry
CHECK_DEADLOCK FALSE
INVARIANTS
    QuotaRespected
    NeverTooFast
    RecordsAgree
PROPERTIES
    ImplementsWallet
