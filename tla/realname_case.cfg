SPECIFICATION Spec
CONSTANTS
    Reqs = {r1}
    Players = {p1, p2}
    r1 = r1
    p1 = p1
    p2 = p2
    Nobody = Nobody
    Cards <- MCCards
    Names <- MCNames
    NoCard = NoCard
    NoName = NoName
    Timely = TRUE
    Faults = FALSE
SYMMETRY Symmetry
CHECK_DEADLOCK FALSE
INVARIANTS
    OneIdentity
