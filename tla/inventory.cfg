SPECIFICATION FairSpec
CONSTANTS
    Tx = {t1, t2, t3}
    Cell = {p, q}
    Documents <- MixedDocuments
    AllowNegative = FALSE
    NoTx = NoTx
    NoCost = NoCost
    p = p
    q = q
INVARIANTS StockIsLedger NoNegativeStock
PROPERTIES PostsWholeDocuments EveryTransactionEnds
CHECK_DEADLOCK FALSE
