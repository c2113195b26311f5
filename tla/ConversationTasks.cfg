CONSTANTS
    t1 = t1
    t2 = t2
    t3 = t3
    Turns = {t1, t2, t3}
    SummarizeEvery = 2
    MinToSummarize = 3
    KeepTail = 2
    MaxRetries = 1
    MaxRuns = 2
    Spread = 10
    Troubles = {"agent", "request", "broker", "model", "database", "worker"}
SPECIFICATION Spec
SYMMETRY AnyTurn
INVARIANT TypeOK
INVARIANT NothingForgotten
INVARIANT TailIsKept
INVARIANT SummariesFollowFailures
PROPERTY AnswersOwnMessage
CHECK_DEADLOCK FALSE
