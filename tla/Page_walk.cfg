CONSTANTS
    W = 4
    DefaultPageSize = 3
    MaxPageSize = 4
    Sizes <- MCSizes
    Numbers <- MCNumbers
    MaxDeletes = 1
SPECIFICATION Spec
INVARIANTS NoRowTwice WalkComplete PageExact
CHECK_DEADLOCK FALSE
