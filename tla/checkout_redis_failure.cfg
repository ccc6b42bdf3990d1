SPECIFICATION Spec
CONSTANTS
    Request = {r1, r2}
    Key = {k1}
    Payload = {p1, p2}
    VoucherPayload = {p2}
    User = {u1}
    Line = {l1, l2}
    UsageLimit = 1
    InitialStock = 2
    Faults = {"redis"}
    NoRequest = NoRequest
INVARIANTS FailedMeansNoSale
CHECK_DEADLOCK FALSE
