SPECIFICATION FairSpec
CONSTANTS
    u1 = u1
    u2 = u2
    Lines <- OneLine
    Types <- Shown
    OutboxSize = 1
    MayCrash = FALSE
    MaxFires = 1
    MaxRuns = 1
    MaxDowns = 1
    MaxMoves = 1
    MaxBlips = 1
CHECK_DEADLOCK FALSE
PROPERTIES
    BlipKeepsFire
    LetGoWhenGone
    OwedIsTried
    SenderEnds
