SPECIFICATION Spec
CONSTANTS
    Reqs = {r1, r2, r3}
    Players = {p1, p2}
    r1 = r1
    r2 = r2
    r3 = r3
    p1 = p1
    p2 = p2
    Nobody = Nobody
    Cards <- MCCards
    Names <- MCNames
    NoCard = NoCard
    NoName = NoName
    Timely = TRUE
    Faults = TRUE
SYMMETRY Symmetry
CHECK_DEADLOCK FALSE
INVARIANTS
    CardsExact
    OneOwner
    GenuineOnly
PROPERTIES
    Permanent
