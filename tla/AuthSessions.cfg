CONSTANTS
    r1 = r1
    r2 = r2
    r3 = r3
    r4 = r4
    r5 = r5
    p1 = p1
    p2 = p2
    somebody = somebody
    NoRequest = NoRequest
    Requests = {r1, r2, r3, r4, r5}
    Registrations = {p1, p2}
    Addresses = {somebody}
    Troubles = {"request", "age"}
SPECIFICATION AccountSpec
SYMMETRY AnyRequest
INVARIANT TypeOK
INVARIANT DeviceKeepsSession
INVARIANT OneSessionPerDevice
INVARIANT OneRegistrationWins
CHECK_DEADLOCK FALSE
