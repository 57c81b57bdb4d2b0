SPECIFICATION Spec
CONSTANTS
    u1 = u1
    u2 = u2
    Lines <- TwoLines
    Types <- Match
    OutboxSize = 2
    MayCrash = FALSE
    MaxFires = 2
    MaxRuns = 2
    MaxDowns = 0
    MaxMoves = 0
    MaxBlips = 0
CHECK_DEADLOCK FALSE
INVARIANTS
    NeverToldTwice
