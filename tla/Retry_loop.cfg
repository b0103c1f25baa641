CONSTANTS
    W = 5
    MaxAttempts = {0, 2, 3, 7}
    Initials = {0, 1, 5}
    Caps = {0, 1, 3}
    DefaultInitialBackoff = 2
    DefaultMaxBackoff = 8
    Deadline = 18
    Answers = {"ok", "deadline", "timeout", "operr", "dns", "503", "504", "429", "app"}
SPECIFICATION FairSpec
INVARIANTS ResultFaithful NeverLate ScheduleKept PanicOnlyWhenTiny
PROPERTIES RetryJustified CallReturns
CHECK_DEADLOCK FALSE
