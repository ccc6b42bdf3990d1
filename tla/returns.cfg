SPECIFICATION BothSpec
CONSTANTS
    i1 = i1
    i2 = i2
    None = None
    Item <- TwoItems
    Sold <- TwoOfEach
    UnitValue <- Values
    Stocked <- NoService
    Paid = 4
    Return = {x1, x2}
    Lines <- SomeLines
    Worker = {w1, w2, w3}
    Amount = {1, 4}
    MaxVersion = 2
    Key = {k1, k2}
    Faults = {"crash"}
SYMMETRY CommandSymmetry
INVARIANTS CommandTypeOK ReturnedWithinSold RestoredOnce RefundsWithinReturn
PROPERTIES RefundImplementsCommand
CHECK_DEADLOCK FALSE
