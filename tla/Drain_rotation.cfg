CONSTANTS
    Services <- AllServices
    Delay = 6
    Period = 2
    Threshold = 2
    ProbeTime = 1
    MaxChanges = 4
    MaxTime = 12
SPECIFICATION FairSpec
INVARIANTS DrainedBeforeStop NoLateReady RotationFollowsUpstream
PROPERTIES Stops
CHECK_DEADLOCK FALSE
