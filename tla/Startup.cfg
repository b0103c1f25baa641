CONSTANTS
    Dirs <- SearchPaths
    Boxed = {"missing", "unreadable", "silent", "empty", "value"}
    p1 = p1
    p2 = p2
    p3 = p3
    p4 = p4
    p5 = p5
    Pool <- UnnamedPools
    Kind <- UnnamedKind
    Name <- UnnamedName
    MaxConns = 2
    MaxCheckouts = 2
SYMMETRY UnnamedSymmetry
SPECIFICATION BootSpec
INVARIANTS NothingMissed SecretDecision NothingLeaks NoDuplicateSeries MongoCountersExact
CHECK_DEADLOCK FALSE
