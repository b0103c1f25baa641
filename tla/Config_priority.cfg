CONSTANTS
    Dirs <- SearchPaths
    Boxed = {"missing", "value"}
SPECIFICATION LoadSpec
INVARIANTS DocumentedPriority
CHECK_DEADLOCK FALSE
