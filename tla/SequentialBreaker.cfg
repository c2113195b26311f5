\* One call at a time, with the thresholds the container configures.
CONSTANTS
    c1 = c1
    Calls = {c1}
    FailureThreshold = 5
    SuccessThreshold = 2
    RecoveryTimeout = 3
    MaxStall = 1
    Troubles = {"tool"}
SPECIFICATION RecordedSpec
PROPERTY MeetsContract
