\* Two calls; tool failures, Redis outages and dying workers come and go.
CONSTANTS
    c1 = c1
    c2 = c2
    Calls = {c1, c2}
    FailureThreshold = 2
    SuccessThreshold = 2
    RecoveryTimeout = 1
    MaxStall = 1
    Troubles = {"tool", "redis", "worker"}
SPECIFICATION FairSpec
PROPERTY Recovers
