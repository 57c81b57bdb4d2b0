SPECIFICATION Spec
CONSTANTS
    blank = blank
    a = a
    b = b
    Texts <- MCTexts
    Blank = blank
    Watches <- MCWatches
    HealthAfter = 2
    Base = 1
    MaxIvl = 3
    GateLongAfter = 2
    MaxTime = 6
    MaxStarts = 3
CHECK_DEADLOCK FALSE
INVARIANTS
    HookHearsDown
