CONSTANTS
    Request = {r1}
    Kinds = {"grpc"}
    Op = {"call"}
    Creds = {"none"}
    Extra <- GammaExtra
    AuthSkip = {}
    LimitSkip = {}
    TimeoutSkip = {}
    Outcomes = {"ok", "panic"}
    Burst = 0
SYMMETRY Symmetry
SPECIFICATION Spec
INVARIANTS PanicsNeverEscape
CHECK_DEADLOCK FALSE
