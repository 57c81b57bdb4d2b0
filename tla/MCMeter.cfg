SPECIFICATION Spec
CONSTANTS
    Watches <- MCWatches
    PaceKept = 2
    RecentKept = 3
INVARIANTS
    Inv
PROPERTIES
    DropBacked
    RisesJudged
