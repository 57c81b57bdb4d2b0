SPECIFICATION Spec
CONSTANTS
    u1 = u1
    u2 = u2
    Lines <- OneLine
    Types <- Match
    OutboxSize = 2
    MayCrash = FALSE
    MaxFires = 1
    MaxRuns = 1
    MaxDowns = 1
    MaxMoves = 0
    MaxBlips = 1
CHECK_DEADLOCK FALSE
PROPERTIES
    DropsOnlyWhenGone
