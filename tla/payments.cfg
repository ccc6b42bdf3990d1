SPECIFICATION ChosenSpec
CONSTANTS
    Request = {r1, r2, r3}
    Key = {k1, k2}
    Payload <- Bodies
    Amount <- Amounts
    Price = {2}
    MaxDebt = 2
    Faults = {"stall", "lost_ack"}
    None = None
    small = small
    large = large
SYMMETRY Symmetry
INVARIANTS PaidWithinDebt OneIntentPerKey
PROPERTIES OnlyOwnerFails ImplementsCommand
CHECK_DEADLOCK FALSE
