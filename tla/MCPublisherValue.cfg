CONSTANTS
    Names = {"A", "A2", "B"}
    SlugOf <- MCSlugOf
    NoSlug = "none"
    QueueCap = 2
    Scenarios <- MCRetyped
SPECIFICATION Spec
INVARIANTS
    NoValueLeft
CHECK_DEADLOCK FALSE
