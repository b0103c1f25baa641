CONSTANTS
    Request = {r1, r2}
    Kinds = {"http", "grpc"}
    Op = {"root", "api"}
    Creds = {"none", "good", "nil"}
    Extra <- BetaExtra
    AuthSkip = {"root"}
    LimitSkip = {}
    TimeoutSkip = {}
    Outcomes = {"ok", "panic"}
    Burst = 1
SYMMETRY Symmetry
SPECIFICATION Spec
INVARIANTS TypeOK HandlerAuthorised PanicsNeverEscape ErrorsSurface
PROPERTIES AnonymousSpendsNothing
CHECK_DEADLOCK FALSE
