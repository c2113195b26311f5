\* Three calls interleaved at every Redis command; the tool may fail.
CONSTANTS
    c1 = c1
    c2 = c2
    c3 = c3
    Calls = {c1, c2, c3}
    FailureThreshold = 2
    SuccessThreshold = 2
    RecoveryTimeout = 2
    MaxStall = 1
    Troubles = {"tool"}
SPECIFICATION Spec
INVARIANT TypeOK
INVARIANT CountersSettle
INVARIANT OpenIsStamped
PROPERTY FailFastUntilTimeout
