SPECIFICATION Spec
CONSTANTS
    Request = {r1, r2, r3}
    Key = {k1, k2}
    Payload = {p1, p2}
    VoucherPayload = {p2}
    User = {u1, u2}
    Line = {l1, l2}
    UsageLimit = 1
    InitialStock = 2
    Faults = {"crash", "stall", "redis", "lost_ack"}
    NoRequest = NoRequest
SYMMETRY Symmetry
INVARIANTS TypeOK CompletedNamesItsSale VoucherLimit CartLineSoldOnce
CHECK_DEADLOCK FALSE
