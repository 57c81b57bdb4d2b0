CONSTANTS
    Names = {"A", "A2", "B"}
    SlugOf <- MCSlugOf
    NoSlug = "none"
    QueueCap = 2
    Scenarios <- MCRenamed
SPECIFICATION Spec
INVARIANTS
    VanishedAreCleared
CHECK_DEADLOCK FALSE
