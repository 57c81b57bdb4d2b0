CONSTANTS
    Names = {"A", "A2", "B"}
    SlugOf <- MCSlugOf
    NoSlug = "none"
    QueueCap = 1
    Scenarios <- MCDrop
SPECIFICATION DropSpec
INVARIANTS
    DropsAreSafe
CHECK_DEADLOCK FALSE
