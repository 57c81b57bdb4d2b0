SPECIFICATION Spec
CONSTANTS
    Scenes <- SharedCount
    FrameSlots = 1
    SlotWait = 1
    GrabTimeout = 2
    FFmpegTimeout = 4
    WaitDelay = 1
    ReadBudget = 1
    MaxAnswers = 2
    MaxNonces = 3
CHECK_DEADLOCK FALSE
INVARIANTS
    CountsApart
