CONSTANTS
    Call = {c1, c2}
    Hops = 3
    Given <- ClientIds
SYMMETRY Symmetry
SPECIFICATION Spec
INVARIANTS TraceContinues CallsDistinct
CHECK_DEADLOCK FALSE
