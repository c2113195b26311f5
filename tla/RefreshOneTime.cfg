CONSTANTS
    r1 = r1
    r2 = r2
    r3 = r3
    NoRequest = NoRequest
    Requests = {r1, r2, r3}
    Troubles = {}
SPECIFICATION Spec
SYMMETRY AnyRequest
INVARIANT RefreshIsOneTime
CHECK_DEADLOCK FALSE
