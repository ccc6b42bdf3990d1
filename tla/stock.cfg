SPECIFICATION BothSpec
CONSTANTS
    o1 = o1
    o2 = o2
    nails = nails
    paint = paint
    tape = tape
    Order = {o1, o2}
    Item = {nails, paint, tape}
    Return = {x1, x2, x3}
    OrderOf <- OrderOfItem
    Ordered <- OrderedQuantity
    UnitCost <- Costs
    Discount <- Discounts
    Opening <- Before
    Lines <- AllLines
    NoCost = NoCost
    Warehouse = {a, b}
    Transfer = {t1}
    Count = {c1}
    Adjustment = {j1}
    Call = {x1, x2, x3}
    Quantity = {1}
    Delta <- Down
    Counted <- OneEntry
    Price = {2, 7}
    MaxBought = 1
    AllowNegative = FALSE
SYMMETRY BothSymmetry
INVARIANTS TypesOK PostedOnce ReturnsOneAtATime AverageWithinPrices
CHECK_DEADLOCK FALSE
