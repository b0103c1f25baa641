CONSTANTS
    Proc = {p1, p2}
    NoProc = NoProc
    Key = {k1, k2}
    Cost = 2
    Burst = 2
    MaxTime = 3
    MaxReqs = 2
SPECIFICATION FairSpec
INVARIANTS TypeOK MapExclusive OneLimiterPerKey Quota
PROPERTIES RejectedWithCause KeepsPromise
CHECK_DEADLOCK FALSE
