CONSTANTS
    Request = {r1}
    Kinds = {"grpc"}
    Op = {"api", "health"}
    Creds = {"none", "good", "bad", "nil", "infra"}
    Extra <- FullExtra
    AuthSkip = {"health"}
    LimitSkip = {"health"}
    TimeoutSkip = {"health"}
    Outcomes = {"ok", "HANDLER", "panic"}
    Burst = 1
SPECIFICATION FairSpec
INVARIANTS LogsFinalCode AnswerHasCause CountedOnce
PROPERTIES TimeoutAnswers WorkerEnds
CHECK_DEADLOCK FALSE
