CONSTANTS
    Names = {"A", "A2", "B"}
    SlugOf <- MCSlugOf
    NoSlug = "none"
    QueueCap = 2
    Scenarios <- MCRetired
SPECIFICATION Spec
INVARIANTS
    RetiredShieldsNothing
CHECK_DEADLOCK FALSE
