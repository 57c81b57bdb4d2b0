SPECIFICATION Spec
CONSTANTS
    Places = {0, 2, 8}
    Sizes = {1, 2}
    Keys = {"k1", "k2", "narrow"}
    Narrow = {"narrow"}
    LearnReadings = 2
    SettleChecks = 3
    SettleGiveUp = 4
    Window = 2
    ReadRun = 2
    LostAfter = 2
    LostChecks = 2
    MoveMin = 3
    MaxMove = 6
    Agree = 2
    Bounds <- MCBounds
INVARIANTS
    Inv
PROPERTIES
    ToldOnce
CHECK_DEADLOCK FALSE
