SPECIFICATION PurchasingOnly
CONSTANTS
    o1 = o1
    o2 = o2
    nails = nails
    paint = paint
    tape = tape
    Order = {o1, o2}
    Item = {nails, paint, tape}
    Return = {x1, x2}
    OrderOf <- OrderOfItem
    Ordered <- OrderedQuantity
    UnitCost <- Costs
    Discount <- Discounts
    Opening <- Before
    Lines <- DistinctLines
    NoCost = NoCost
    Warehouse = {a, b}
    Transfer = {t1}
    Count = {c1}
    Adjustment = {j1}
    Call = {x1, x2}
    Quantity = {1}
    Delta <- Down
    Counted <- OneEntry
    Price = {2, 7}
    MaxBought = 1
    AllowNegative = FALSE
SYMMETRY Symmetry
INVARIANTS ReturnsWithinReceived
CHECK_DEADLOCK FALSE
