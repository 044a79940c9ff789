SPECIFICATION Spec
CONSTANTS
    UnitOffest = 3
    LZ = 6
    Scale = 64
    Tolerance = 2
    Round <- MCRound
    Texts <- MCTexts
    BigNumbers = {2187, 150000}
    MaxFloat = 20000
    MaxCalls = 6
    Header <- MCHeader
    Longer <- MCLonger
    Rows <- MCRows
    MaxRows = 3
    MaxLoads = 2
CHECK_DEADLOCK FALSE
INVARIANTS
    OrderExact
    Aligned
    MapAgrees
PROPERTIES
    SubKeepsSign
    AddGrows
