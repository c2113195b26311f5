CONSTANTS
    t1 = t1
    t2 = t2
    t3 = t3
    Turns = {t1, t2, t3}
    SummarizeEvery = 4
    MinToSummarize = 4
    KeepTail = 2
    MaxRetries = 1
    MaxRuns = 2
    Spread = 10
    Troubles = {}
SPECIFICATION Spec
SYMMETRY AnyTurn
INVARIANT DispatchedEveryTwenty
CHECK_DEADLOCK FALSE
