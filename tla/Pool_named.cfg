CONSTANTS
    p1 = p1
    p2 = p2
    p3 = p3
    p4 = p4
    p5 = p5
    Pool <- NamedPools
    Kind <- NamedKind
    Name <- NamedName
    MaxConns = 0
    MaxCheckouts = 0
SPECIFICATION Spec
INVARIANTS PoolsDisambiguated
