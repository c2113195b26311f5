CONSTANTS
    k1 = k1
    k2 = k2
    k3 = k3
    k4 = k4
    k5 = k5
    Checks = {k1, k2, k3, k4, k5}
    Limit = 2
    Window = 3
    KeyTTL = 4
    MaxStall = 1
    Lifetime = 6
SPECIFICATION Spec
SYMMETRY AnyCheck
INVARIANT TypeOK
INVARIANT SlidingWindow
INVARIANT RejectedOnlyUnderLoad
CHECK_DEADLOCK FALSE
