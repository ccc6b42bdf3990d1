SPECIFICATION FairSpec
CONSTANTS
    Request = {r1, r2, r3}
    Key = {k1, k2}
    Payload = {p1, p2}
    VoucherPayload = {p2}
    User = {u1}
    Line = {l1}
    UsageLimit = 1
    InitialStock = 2
    Faults = {"crash", "overlap"}
    NoRequest = NoRequest
INVARIANTS AtMostOneInvoicePerKey ReplayedSameRequest FailedMeansNoSale
PROPERTIES CompletedIsFinal ImplementsCommand KeyReleased
CHECK_DEADLOCK FALSE
