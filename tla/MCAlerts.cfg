SPECIFICATION Spec
CONSTANTS
    u1 = u1
    u2 = u2
    Lines <- TwoLines
    Types <- Readers
    OutboxSize = 1
    MayCrash = TRUE
    MaxFires = 2
    MaxRuns = 2
    MaxDowns = 0
    MaxMoves = 0
    MaxBlips = 0
SYMMETRY Symmetry
CHECK_DEADLOCK FALSE
INVARIANTS
    Inv
    NothingLost
PROPERTIES
    OnlyNews
