\* Not an invariant, and so no run of the project: the last messages are not always kept.
\* TLC ends with two tasks that took different rows of one turn for the first of the tail.
CONSTANTS
    t1 = t1
    t2 = t2
    t3 = t3
    t4 = t4
    Turns = {t1, t2, t3, t4}
    SummarizeEvery = 2
    MinToSummarize = 4
    KeepTail = 2
    MaxRetries = 0
    MaxRuns = 1
    Spread = 10
    Troubles = {"agent"}
SPECIFICATION Spec
SYMMETRY AnyTurn
INVARIANT LastMessagesVerbatim
CHECK_DEADLOCK FALSE
