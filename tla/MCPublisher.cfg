CONSTANTS
    Names = {"A", "A2", "B"}
    SlugOf <- MCSlugOf
    NoSlug = "none"
    QueueCap = 2
    Scenarios <- MCScenarios
SPECIFICATION Spec
INVARIANTS
    Inv
PROPERTIES
    OthersLeftAlone
    Mirrors
CHECK_DEADLOCK FALSE
