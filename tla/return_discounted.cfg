SPECIFICATION ReturnsOnly
CONSTANTS
    i1 = i1
    i2 = i2
    None = None
    Item <- OneItem
    Sold <- TwoOfEach
    UnitValue <- Values
    Stocked <- NoService
    Paid = 1
    Return = {x1, x2}
    Lines <- OneOrBoth
    Worker = {w1, w2, w3, w4}
    Amount = {1, 2}
    MaxVersion = 1
    Key = {k1}
    Faults = {"crash"}
SYMMETRY Symmetry
INVARIANTS RefundsWithinPaid
CHECK_DEADLOCK FALSE
