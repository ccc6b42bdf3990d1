-------------------------------- MODULE StockProofs --------------------------------
(***************************************************************************)
(* Proofs about what moves stock and debt besides the sales: Purchasing,    *)
(* StockDocuments and, since a step of MCStock is a step of one of them and *)
(* leaves the other alone, MCStock as a whole.                              *)
(***************************************************************************)
EXTENDS MCStock, SumTheorems

---------------------------------------------------------------------------
(* Purchasing *)

Existing == {x \in Return : doc[x].status # "NONE"}
FinitelyMany == IsFiniteSet(Existing) /\ IsFiniteSet(Received)

(* An order is received once. *)
ReceivedOnce ==
    \A i \in Item : received[i] = IF OrderOf[i] \in Received THEN Ordered[i] ELSE 0

(* A return is what its creation has checked. *)
ReturnCreated ==
    \A x \in Return : doc[x].status # "NONE" =>
        create[x].pc = "done" /\ doc[x].lines = create[x].lines

(* What the sums over documents add up. *)
Listed(i) == [x \in Return |-> QuantityOf(doc[x].lines, i)]
Totals == [x \in Return |-> ReturnTotal(doc[x].lines)]
OrderTotals == [o \in Order |-> OrderTotal(o)]

Checking(x) == create[x].pc = "check"

OneIsAlone == \A x, y \in Return : Checking(x) /\ Checking(y) /\ x # y => ~create[x].alone

(* Nothing takes away what a creation that runs alone has found free.       *)
CheckedHolds ==
    \A x \in Return : Checking(x) /\ create[x].alone =>
        \A n \in DOMAIN create[x].lines : n < create[x].next =>
            LET line == create[x].lines[n] IN
            AlreadyReturned(line.item) + line.quantity <= received[line.item]

(* The careful returns alone, whatever the others have done.                *)
CarefulReturns == {x \in ReturnsIn(Uncancelled) : Careful(x)}
CarefulWithinReceived ==
    \A i \in Item : SumFunctionOnSet(Listed(i), CarefulReturns) <= received[i]

PurchasingInv ==
    /\ TypeOK /\ FinitelyMany /\ ReceivedOnce /\ ReturnCreated /\ OneIsAlone /\ CheckedHolds
    /\ CarefulWithinReceived /\ StockExplained /\ DebtExplained

---------------------------------------------------------------------------
(* StockDocuments *)

DocumentsFinite ==
    /\ IsFiniteSet({t \in Transfer : transfer[t].status # "NONE"})
    /\ IsFiniteSet({c \in Count : count[c].status # "NONE"})
    /\ IsFiniteSet({a \in Adjustment : adjustment[a].status # "NONE"})

(* The version of a transfer counts its changes of status. *)
TransferHistory ==
    \A t \in Transfer :
        /\ transfer[t].status # "NONE" =>
            transfer[t].from \in Warehouse /\ transfer[t].to \in Warehouse /\ transfer[t].quantity > 0
        /\ transfer[t].status \in {"NONE", "PENDING"} => transfer[t].version = 1
        /\ transfer[t].status = "APPROVED" => transfer[t].version = 2 /\ transfer[t].unitCost \in Int

(* What a call has seen is an earlier version of the transfer, or the one   *)
(* that is there.                                                           *)
SeenBefore ==
    \A r \in Call : call[r].pc = "claim" =>
        LET row == transfer[call[r].of] IN
        /\ call[r].of \in Transfer /\ call[r].seen.status # "NONE"
        /\ call[r].version <= call[r].seen.version /\ call[r].seen.version <= row.version
        /\ call[r].seen.version = row.version => call[r].seen = row
        /\ call[r].op = "cancel" => call[r].seen.status \in {"PENDING", "APPROVED"}

DocumentsPlaced ==
    /\ \A c \in Count : count[c].status # "NONE" => count[c].at \in Warehouse
    /\ \A a \in Adjustment : adjustment[a].status # "NONE" => adjustment[a].at \in Warehouse

DocumentsInv ==
    /\ Documents!TypeOK /\ DocumentsFinite /\ TransferHistory /\ SeenBefore /\ DocumentsPlaced

NeverNegative ==
    Documents!CostKnown => \A w \in Warehouse : cell[w].quantity >= 0
---------------------------------------------------------------------------
(* Sums over lines *)

LEMMA LinesTyped ==
    ASSUME NEW lines \in Lines \cup {<<>>}
    PROVE  /\ lines \in Seq(Line) /\ IsFiniteSet(DOMAIN lines) /\ DOMAIN lines = 1 .. Len(lines)
           /\ \A n \in DOMAIN lines : lines[n].item \in Item /\ lines[n].quantity \in Nat \ {0}
PROOF
<1>1. lines \in Seq(Line)
    <2>1. <<>> \in Seq(Line)
        OBVIOUS
    <2>2. \A l \in Lines : l \in Seq(Line)
        BY PurchasingAssumption
    <2> QED BY <2>1, <2>2
<1>2. Len(lines) \in Int /\ 1 \in Int /\ DOMAIN lines = 1 .. Len(lines)
    BY <1>1
<1>3. IsFiniteSet(1 .. Len(lines))
    BY <1>2, FS_Interval
<1>4. \A n \in DOMAIN lines : lines[n] \in Line
    BY <1>1
<1> QED BY <1>1, <1>2, <1>3, <1>4 DEF Line

LEMMA QuantityTyped ==
    ASSUME NEW lines \in Lines \cup {<<>>}, NEW i
    PROVE  QuantityOf(lines, i) \in Nat
PROOF
<1> DEFINE f == [n \in DOMAIN lines |-> IF lines[n].item = i THEN lines[n].quantity ELSE 0]
<1>1. DOMAIN f = DOMAIN lines /\ \A n \in DOMAIN lines : f[n] \in Nat
    BY LinesTyped
<1>2. QuantityOf(lines, i) = SumFunctionOnSet(f, DOMAIN lines)
    BY <1>1 DEF QuantityOf, SumFunction
<1>3. IsFiniteSet(DOMAIN lines) /\ \A n \in DOMAIN lines : f[n] \in Nat
    BY <1>1, LinesTyped
<1> HIDE DEF f
<1> QED BY <1>2, <1>3, SumType

LEMMA ReturnTotalTyped ==
    ASSUME NEW lines \in Lines \cup {<<>>}
    PROVE  ReturnTotal(lines) \in Nat
PROOF
<1> DEFINE f == [n \in DOMAIN lines |-> lines[n].quantity * UnitCost[lines[n].item]]
<1>1. \A n \in DOMAIN lines : f[n] \in Nat
    <2>1. \A q, c \in Nat : q * c \in Nat
        OBVIOUS
    <2>2. \A n \in DOMAIN lines : lines[n].quantity \in Nat /\ UnitCost[lines[n].item] \in Nat
        BY LinesTyped, PurchasingAssumption
    <2> QED BY <2>1, <2>2
<1>2. ReturnTotal(lines) = SumFunctionOnSet(f, DOMAIN lines)
    BY DEF ReturnTotal, SumFunction
<1> HIDE DEF f
<1> QED BY <1>1, <1>2, LinesTyped, SumType

LEMMA OrderTotalTyped ==
    ASSUME NEW o \in Order
    PROVE  OrderTotal(o) \in Int
PROOF
<1> DEFINE f == [i \in ItemsOf(o) |-> Ordered[i] * UnitCost[i] - Discount[i]]
<1>1. IsFiniteSet(ItemsOf(o))
    BY PurchasingAssumption DEF ItemsOf
<1>2. \A i \in ItemsOf(o) : f[i] \in Int
    <2>1. \A q, c \in Nat, d \in Int : q * c - d \in Int
        OBVIOUS
    <2>2. \A i \in ItemsOf(o) : Ordered[i] \in Nat /\ UnitCost[i] \in Nat /\ Discount[i] \in Int
        BY PurchasingAssumption DEF ItemsOf
    <2> QED BY <2>1, <2>2
<1>3. OrderTotal(o) = SumFunctionOnSet(f, ItemsOf(o))
    BY DEF OrderTotal, SumFunction
<1> HIDE DEF f
<1> QED BY <1>1, <1>2, <1>3, SumType

(* Of an item that is named once, or not at all.                            *)
Once(lines) == IsInjective([n \in DOMAIN lines |-> lines[n].item])

LEMMA QuantityOnce ==
    ASSUME NEW lines \in Lines \cup {<<>>}, Once(lines), NEW i
    PROVE  \/ QuantityOf(lines, i) = 0
           \/ \E n \in DOMAIN lines : lines[n].item = i /\ QuantityOf(lines, i) = lines[n].quantity
PROOF
<1> DEFINE f == [n \in DOMAIN lines |-> IF lines[n].item = i THEN lines[n].quantity ELSE 0]
<1>1. /\ DOMAIN f = DOMAIN lines /\ IsFiniteSet(DOMAIN lines)
      /\ \A n \in DOMAIN lines : f[n] = IF lines[n].item = i THEN lines[n].quantity ELSE 0
    BY LinesTyped
<1>2. QuantityOf(lines, i) = SumFunctionOnSet(f, DOMAIN lines)
    BY <1>1 DEF QuantityOf, SumFunction
<1>3. \A m, n \in DOMAIN lines : lines[m].item = lines[n].item => m = n
    BY DEF Once, IsInjective
<1> HIDE DEF f
<1>4. CASE \A n \in DOMAIN lines : lines[n].item # i
    <2>1. \A n \in DOMAIN lines : f[n] = 0
        BY <1>1, <1>4
    <2> QED BY <1>1, <1>2, <2>1, SumZeros
<1>5. ASSUME NEW n \in DOMAIN lines, lines[n].item = i
      PROVE  QuantityOf(lines, i) = lines[n].quantity
    <2>1. f[n] = lines[n].quantity /\ f[n] \in Int
        BY <1>1, <1>5, LinesTyped
    <2>2. \A m \in DOMAIN lines : m # n => f[m] = 0
        BY <1>1, <1>3, <1>5
    <2> QED BY <1>1, <1>2, <2>1, <2>2, SumSingle
<1> QED BY <1>4, <1>5

(* Sums over returns and orders, before and after a step.                   *)
LEMMA SumsAre ==
    /\ \A i, s : ReturnedOf(i, s) = SumFunctionOnSet(Listed(i), ReturnsIn(s))
    /\ \A i, s : ReturnedOf(i, s)' = SumFunctionOnSet(Listed(i)', ReturnsIn(s)')
    /\ \A i : AlreadyReturned(i) = SumFunctionOnSet(Listed(i), ReturnsIn(Uncancelled))
    /\ \A i : AlreadyReturned(i)' = SumFunctionOnSet(Listed(i)', ReturnsIn(Uncancelled)')
    /\ \A x : Careful(x) <=> create[x].alone /\ Once(doc[x].lines)
    /\ \A x : Careful(x)' <=> create'[x].alone /\ Once(doc'[x].lines)
    /\ DebtExplained <=>
        debt = SumFunctionOnSet(OrderTotals, Received)
               - SumFunctionOnSet(Totals, ReturnsIn({"COMPLETED"}))
    /\ DebtExplained' <=>
        debt' = SumFunctionOnSet(OrderTotals, Received')
                - SumFunctionOnSet(Totals', ReturnsIn({"COMPLETED"})')
PROOF
<1>1. /\ \A i, s : ReturnedOf(i, s) = SumFunctionOnSet(Listed(i), ReturnsIn(s))
      /\ \A i, s : ReturnedOf(i, s)' = SumFunctionOnSet(Listed(i)', ReturnsIn(s)')
    BY DEF ReturnedOf, Listed
<1>2. /\ \A i : AlreadyReturned(i) = SumFunctionOnSet(Listed(i), ReturnsIn(Uncancelled))
      /\ \A i : AlreadyReturned(i)' = SumFunctionOnSet(Listed(i)', ReturnsIn(Uncancelled)')
    BY DEF AlreadyReturned, ReturnedOf, Listed
<1>3. /\ \A x : Careful(x) <=> create[x].alone /\ Once(doc[x].lines)
      /\ \A x : Careful(x)' <=> create'[x].alone /\ Once(doc'[x].lines)
    BY DEF Careful, NamesOnce, Once
<1>4. /\ DebtExplained <=>
          debt = SumFunctionOnSet(OrderTotals, Received)
                 - SumFunctionOnSet(Totals, ReturnsIn({"COMPLETED"}))
      /\ DebtExplained' <=>
          debt' = SumFunctionOnSet(OrderTotals, Received')
                  - SumFunctionOnSet(Totals', ReturnsIn({"COMPLETED"})')
    BY DEF DebtExplained, OrderTotals, Totals
<1> QED BY <1>1, <1>2, <1>3, <1>4

LEMMA ReturnTypes ==
    ASSUME PurchasingInv
    PROVE  /\ \A s : "NONE" \notin s => ReturnsIn(s) \subseteq Existing /\ IsFiniteSet(ReturnsIn(s))
           /\ CarefulReturns \subseteq Existing /\ IsFiniteSet(CarefulReturns)
           /\ \A x \in Return : doc[x].lines \in Lines \cup {<<>>} /\ Totals[x] \in Int
           /\ \A i : \A x \in Return : Listed(i)[x] \in Nat
           /\ \A o \in Order : OrderTotals[o] \in Int
           /\ IsFiniteSet(Received) /\ Received \subseteq Order
PROOF
<1>1. \A s : "NONE" \notin s => ReturnsIn(s) \subseteq Existing
    BY DEF ReturnsIn, Existing
<1>2. CarefulReturns \subseteq Existing
    BY DEF CarefulReturns, ReturnsIn, Uncancelled, Existing
<1>3. \A S : S \subseteq Existing => IsFiniteSet(S)
    BY FS_Subset DEF PurchasingInv, FinitelyMany
<1>4. \A x \in Return : doc[x].lines \in Lines \cup {<<>>}
    BY DEF PurchasingInv, TypeOK
<1>5. /\ \A x \in Return : Totals[x] \in Int
      /\ \A i : \A x \in Return : Listed(i)[x] \in Nat
      /\ \A o \in Order : OrderTotals[o] \in Int
    <2>1. \A x \in Return : ReturnTotal(doc[x].lines) \in Nat
        BY <1>4, ReturnTotalTyped
    <2>2. \A i : \A x \in Return : QuantityOf(doc[x].lines, i) \in Nat
        BY <1>4, QuantityTyped
    <2> QED BY <2>1, <2>2, OrderTotalTyped DEF Totals, Listed, OrderTotals
<1> QED BY <1>1, <1>2, <1>3, <1>4, <1>5 DEF PurchasingInv, FinitelyMany, Received

(* A step that leaves the returns alone.                                    *)
LEMMA SameReturns ==
    ASSUME UNCHANGED doc
    PROVE  /\ Existing' = Existing /\ \A s : ReturnsIn(s)' = ReturnsIn(s)
           /\ \A i : Listed(i)' = Listed(i) /\ Totals' = Totals
BY DEF Existing, ReturnsIn, Listed, Totals

(* What a cell may hold, and hold after goods came in or went out.          *)
LEMMA LevelType ==
    /\ \A q \in Level : q \in Int
    /\ \A q \in Level, n \in Nat : q + n \in Level
BY DEF Level

LEMMA GoodsOut ==
    ASSUME NEW q \in Level, NEW n \in Nat, AllowNegative \/ n <= q
    PROVE  q - n \in Level
PROOF
<1>1. CASE AllowNegative
    BY <1>1 DEF Level
<1>2. CASE ~AllowNegative
    BY <1>2 DEF Level
<1> QED BY <1>1, <1>2

LEMMA InitPurchasing == Init => PurchasingInv
PROOF
<1> SUFFICES ASSUME Init PROVE PurchasingInv
    OBVIOUS
<1>1. /\ order = [o \in Order |-> [status |-> "NONE", version |-> 1]]
      /\ received = [i \in Item |-> 0] /\ stock = Opening /\ sold = [i \in Item |-> 0] /\ debt = 0
      /\ doc = [x \in Return |-> [status |-> "NONE", version |-> 1, lines |-> <<>>]]
      /\ create = [x \in Return |-> [pc |-> "idle", lines |-> <<>>, next |-> 1, alone |-> TRUE]]
    BY DEF Init
<1>2. TypeOK
    BY <1>1, PurchasingAssumption DEF TypeOK, OrderStatus, ReturnStatus
<1>3. Existing = {} /\ Received = {} /\ \A s : "NONE" \notin s => ReturnsIn(s) = {}
    BY <1>1 DEF Existing, Received, ReturnsIn
<1>4. CarefulReturns = {} /\ FinitelyMany
    BY <1>3, FS_EmptySet DEF CarefulReturns, FinitelyMany, Uncancelled
<1>5. ReceivedOnce /\ ReturnCreated /\ OneIsAlone /\ CheckedHolds
    BY <1>1, <1>3 DEF ReceivedOnce, ReturnCreated, OneIsAlone, CheckedHolds, Checking
<1>6. CarefulWithinReceived
    BY <1>1, <1>4, SumEmpty DEF CarefulWithinReceived
<1>7. StockExplained
    <2>1. \A i \in Item : ReturnedOf(i, {"COMPLETED"}) = 0
        BY <1>3, SumsAre, SumEmpty
    <2>2. \A i \in Item : Opening[i] \in Int
        BY PurchasingAssumption, LevelType
    <2> QED BY <1>1, <1>3, <2>1, <2>2 DEF StockExplained
<1>8. DebtExplained
    <2>1. SumFunctionOnSet(OrderTotals, Received) = 0
          /\ SumFunctionOnSet(Totals, ReturnsIn({"COMPLETED"})) = 0
        BY <1>3, SumEmpty
    <2> QED BY <1>1, <2>1, SumsAre
<1> QED BY <1>2, <1>4, <1>5, <1>6, <1>7, <1>8 DEF PurchasingInv

---------------------------------------------------------------------------
(* The steps of Purchasing *)

OrderRow == [status : OrderStatus, version : 1..2]
ReturnRow == [status : ReturnStatus, version : 1..2, lines : Lines \cup {<<>>}]
Creation == [pc : {"idle", "check", "done", "refused"}, lines : Lines \cup {<<>>}, next : Nat,
             alone : BOOLEAN]

LEMMA RowTypes ==
    ASSUME PurchasingInv
    PROVE  /\ order \in [Order -> OrderRow] /\ doc \in [Return -> ReturnRow]
           /\ create \in [Return -> Creation] /\ received \in [Item -> Nat]
           /\ stock \in [Item -> Level] /\ sold \in [Item -> Nat] /\ debt \in Int
BY DEF PurchasingInv, TypeOK, OrderRow, ReturnRow, Creation

(* What speaks of returns and their creation alone stays true as long as    *)
(* nothing is taken from what was received.                                 *)
LEMMA ReturnsStay ==
    ASSUME PurchasingInv, UNCHANGED <<doc, create>>, \A i \in Item : received'[i] >= received[i],
           received' \in [Item -> Nat]
    PROVE  ReturnCreated' /\ OneIsAlone' /\ CheckedHolds' /\ CarefulWithinReceived'
PROOF
<1>1. ReturnCreated' /\ OneIsAlone'
    BY DEF PurchasingInv, ReturnCreated, OneIsAlone, Checking
<1>2. received \in [Item -> Nat] /\ \A i : \A x \in Return : Listed(i)[x] \in Nat
    BY RowTypes, ReturnTypes
<1>3. CheckedHolds'
    <2> SUFFICES ASSUME NEW x \in Return, Checking(x), create[x].alone,
                        NEW n \in DOMAIN create[x].lines, n < create[x].next,
                        NEW i, i = create[x].lines[n].item
                 PROVE  AlreadyReturned(i)' + create[x].lines[n].quantity <= received'[i]
        BY DEF CheckedHolds, Checking
    <2>1. AlreadyReturned(i) + create[x].lines[n].quantity <= received[i]
        BY DEF PurchasingInv, CheckedHolds
    <2>2. AlreadyReturned(i)' = AlreadyReturned(i)
        BY SumsAre, SameReturns
    <2>3. i \in Item /\ create[x].lines[n].quantity \in Nat
        BY RowTypes, LinesTyped DEF Creation
    <2>4. AlreadyReturned(i) \in Nat
        <3>1. IsFiniteSet(ReturnsIn(Uncancelled)) /\ ReturnsIn(Uncancelled) \subseteq Return
            BY ReturnTypes DEF Uncancelled, ReturnsIn
        <3> QED BY <1>2, <3>1, SumsAre, SumType
    <2> QED BY <1>2, <2>1, <2>2, <2>3, <2>4
<1>4. CarefulWithinReceived'
    <2>1. CarefulReturns' = CarefulReturns
        BY SumsAre, SameReturns DEF CarefulReturns
    <2> SUFFICES ASSUME NEW i \in Item
                 PROVE  SumFunctionOnSet(Listed(i)', CarefulReturns') <= received'[i]
        BY DEF CarefulWithinReceived
    <2>2. SumFunctionOnSet(Listed(i), CarefulReturns) <= received[i]
        BY DEF PurchasingInv, CarefulWithinReceived
    <2>3. SumFunctionOnSet(Listed(i), CarefulReturns) \in Nat
        <3>1. IsFiniteSet(CarefulReturns) /\ CarefulReturns \subseteq Return
            BY ReturnTypes DEF CarefulReturns, ReturnsIn
        <3> QED BY <1>2, <3>1, SumType
    <2> QED BY <1>2, <2>1, <2>2, <2>3, SameReturns
<1> QED BY <1>1, <1>3, <1>4

LEMMA OrderMoves ==
    ASSUME PurchasingInv, NEW o \in Order, NEW status \in OrderStatus \ {"RECEIVED"},
           order' = [order EXCEPT ![o].status = status], order[o].status # "RECEIVED",
           UNCHANGED <<received, doc, create, stock, sold, debt>>
    PROVE  PurchasingInv'
PROOF
<1>1. order \in [Order -> OrderRow]
    BY RowTypes
<1>2. order' \in [Order -> OrderRow] /\ Received' = Received
    BY <1>1 DEF OrderRow, Received
<1>3. TypeOK'
    BY <1>2 DEF PurchasingInv, TypeOK, OrderRow
<1>4. FinitelyMany' /\ ReceivedOnce'
    BY <1>2, SameReturns DEF PurchasingInv, FinitelyMany, ReceivedOnce
<1>5. ReturnCreated' /\ OneIsAlone' /\ CheckedHolds' /\ CarefulWithinReceived'
    BY RowTypes, ReturnsStay
<1>6. StockExplained'
    BY <1>2, SumsAre, SameReturns DEF PurchasingInv, StockExplained
<1>7. DebtExplained'
    BY <1>2, SumsAre, SameReturns DEF PurchasingInv
<1> QED BY <1>3, <1>4, <1>5, <1>6, <1>7 DEF PurchasingInv

LEMMA ReceiveInv ==
    ASSUME PurchasingInv, NEW o \in Order, NEW version, ReceiveOrder(o, version)
    PROVE  PurchasingInv'
PROOF
<1>1. /\ order \in [Order -> OrderRow] /\ received \in [Item -> Nat] /\ stock \in [Item -> Level]
      /\ sold \in [Item -> Nat] /\ debt \in Int /\ Ordered \in [Item -> Nat \ {0}]
      /\ Opening \in [Item -> Level]
    BY RowTypes, PurchasingAssumption
<1>2. /\ order[o].status = "APPROVED" /\ UNCHANGED <<doc, create, sold>>
      /\ order' = [order EXCEPT ![o] = [status |-> "RECEIVED", version |-> 2]]
      /\ stock' = [i \in Item |-> IF OrderOf[i] = o THEN stock[i] + Ordered[i] ELSE stock[i]]
      /\ received' = [i \in Item |-> IF OrderOf[i] = o THEN Ordered[i] ELSE received[i]]
      /\ debt' = debt + OrderTotal(o)
    BY DEF ReceiveOrder, OrderClaimed
<1>3. /\ order' \in [Order -> OrderRow] /\ Received' = Received \cup {o} /\ o \notin Received
    BY <1>1, <1>2 DEF OrderRow, OrderStatus, Received
<1>4. stock' \in [Item -> Level] /\ received' \in [Item -> Nat] /\ debt' \in Int
    BY <1>1, <1>2, OrderTotalTyped, LevelType
<1>5. TypeOK'
    BY <1>2, <1>3, <1>4 DEF PurchasingInv, TypeOK, OrderRow
<1>6. FinitelyMany'
    BY <1>2, <1>3, SameReturns, FS_AddElement DEF PurchasingInv, FinitelyMany
<1>7. ReceivedOnce'
    BY <1>2, <1>3 DEF PurchasingInv, ReceivedOnce
<1>8. \A i \in Item : received'[i] >= received[i]
    BY <1>1, <1>2, <1>3 DEF PurchasingInv, ReceivedOnce
<1>9. ReturnCreated' /\ OneIsAlone' /\ CheckedHolds' /\ CarefulWithinReceived'
    BY <1>2, <1>4, <1>8, ReturnsStay
<1>10. StockExplained'
    <2> SUFFICES ASSUME NEW i \in Item
                 PROVE  stock'[i] = Opening[i] + (IF OrderOf[i] \in Received' THEN Ordered[i] ELSE 0)
                                    - sold'[i] - ReturnedOf(i, {"COMPLETED"})'
        BY DEF StockExplained
    <2>1. stock[i] = Opening[i] + (IF OrderOf[i] \in Received THEN Ordered[i] ELSE 0)
                     - sold[i] - ReturnedOf(i, {"COMPLETED"})
        BY DEF PurchasingInv, StockExplained
    <2>2. ReturnedOf(i, {"COMPLETED"})' = ReturnedOf(i, {"COMPLETED"})
        BY <1>2, SumsAre, SameReturns
    <2>3. ReturnedOf(i, {"COMPLETED"}) \in Nat
        <3>1. IsFiniteSet(ReturnsIn({"COMPLETED"})) /\ ReturnsIn({"COMPLETED"}) \subseteq Return
            BY ReturnTypes DEF ReturnsIn
        <3>2. \A x \in Return : Listed(i)[x] \in Nat
            BY ReturnTypes
        <3> QED BY <3>1, <3>2, SumsAre, SumType
    <2>4. stock[i] \in Int /\ Opening[i] \in Int
        BY <1>1, LevelType
    <2> QED BY <1>1, <1>2, <1>3, <2>1, <2>2, <2>3, <2>4
<1>11. DebtExplained'
    <2>1. /\ IsFiniteSet(Received) /\ \A p \in Received : OrderTotals[p] \in Int
          /\ OrderTotals[o] \in Int /\ OrderTotals[o] = OrderTotal(o)
        BY ReturnTypes DEF OrderTotals
    <2>2. SumFunctionOnSet(OrderTotals, Received \cup {o})
            = SumFunctionOnSet(OrderTotals, Received) + OrderTotals[o]
        BY <1>3, <2>1, SumAdd
    <2>3. SumFunctionOnSet(OrderTotals, Received) \in Int
        BY <2>1, SumType
    <2>4. SumFunctionOnSet(Totals, ReturnsIn({"COMPLETED"})) \in Int
        <3>1. /\ IsFiniteSet(ReturnsIn({"COMPLETED"})) /\ ReturnsIn({"COMPLETED"}) \subseteq Return
              /\ \A x \in Return : Totals[x] \in Int
            BY ReturnTypes DEF ReturnsIn
        <3> QED BY <3>1, SumType
    <2>5. Totals' = Totals /\ ReturnsIn({"COMPLETED"})' = ReturnsIn({"COMPLETED"})
        BY <1>2, SameReturns
    <2>6. debt = SumFunctionOnSet(OrderTotals, Received)
                 - SumFunctionOnSet(Totals, ReturnsIn({"COMPLETED"}))
        BY SumsAre DEF PurchasingInv
    <2>7. debt' = SumFunctionOnSet(OrderTotals, Received \cup {o})
                  - SumFunctionOnSet(Totals, ReturnsIn({"COMPLETED"}))
        BY <1>2, <2>1, <2>2, <2>3, <2>4, <2>6
    <2> QED BY <1>3, <2>5, <2>7, SumsAre
<1> QED BY <1>5, <1>6, <1>7, <1>9, <1>10, <1>11 DEF PurchasingInv

(* A creation goes on: it begins, has checked a line, or is refused.        *)
LEMMA CreationInv ==
    ASSUME PurchasingInv, create' \in [Return -> Creation],
           UNCHANGED <<order, received, doc, stock, sold, debt>>,
           \A x \in Return : create[x].pc = "done" => create'[x] = create[x],
           OneIsAlone', CheckedHolds'
    PROVE  PurchasingInv'
PROOF
<1>1. TypeOK'
    BY DEF PurchasingInv, TypeOK, Creation
<1>2. Received' = Received /\ \A x \in Return : doc[x].status # "NONE" => create'[x] = create[x]
    BY DEF Received, PurchasingInv, ReturnCreated
<1>3. FinitelyMany' /\ ReceivedOnce'
    BY <1>2, SameReturns DEF PurchasingInv, FinitelyMany, ReceivedOnce
<1>4. ReturnCreated'
    BY <1>2 DEF PurchasingInv, ReturnCreated
<1>5. CarefulReturns' = CarefulReturns
    <2>1. \A x \in Return : x \in ReturnsIn(Uncancelled) => doc[x].status # "NONE"
        BY DEF ReturnsIn, Uncancelled
    <2>2. \A x \in Return : x \in ReturnsIn(Uncancelled) => (Careful(x)' <=> Careful(x))
        BY <1>2, <2>1, SumsAre
    <2>3. ReturnsIn(Uncancelled) \subseteq Return
        BY DEF ReturnsIn
    <2> QED BY <2>2, <2>3, SameReturns DEF CarefulReturns
<1>6. CarefulWithinReceived'
    BY <1>5, SameReturns DEF PurchasingInv, CarefulWithinReceived
<1>7. StockExplained'
    BY <1>2, SumsAre, SameReturns DEF PurchasingInv, StockExplained
<1>8. DebtExplained'
    BY <1>2, SumsAre, SameReturns DEF PurchasingInv
<1> QED BY <1>1, <1>3, <1>4, <1>6, <1>7, <1>8 DEF PurchasingInv

LEMMA StartReturnInv ==
    ASSUME PurchasingInv, NEW x \in Return, NEW o, NEW lines \in Lines, StartReturn(x, o, lines)
    PROVE  PurchasingInv'
PROOF
<1> DEFINE busy == {y \in Return : create[y].pc = "check"}
           begun == [pc |-> "check", lines |-> lines, next |-> 1, alone |-> busy = {}]
<1>1. create \in [Return -> Creation]
    BY RowTypes
<1>2. /\ create[x].pc = "idle" /\ UNCHANGED <<order, received, doc, stock, sold, debt>>
      /\ create' = [y \in Return |-> IF y = x THEN begun
                    ELSE [create[y] EXCEPT !.alone = create[y].alone /\ y \notin busy]]
    BY DEF StartReturn
<1>3. begun \in Creation /\ begun.pc = "check" /\ begun.lines = lines /\ begun.next = 1
      /\ (begun.alone <=> busy = {})
    BY DEF Creation
<1> HIDE DEF begun
<1>4. /\ create'[x] = begun
      /\ \A y \in Return : y # x =>
            /\ create'[y] = [create[y] EXCEPT !.alone = create[y].alone /\ y \notin busy]
            /\ create'[y] \in Creation /\ create'[y].pc = create[y].pc
            /\ create'[y].lines = create[y].lines /\ create'[y].next = create[y].next
            /\ (create'[y].alone <=> create[y].alone /\ y \notin busy)
    BY <1>1, <1>2 DEF Creation
<1>5. create' \in [Return -> Creation]
    BY <1>2, <1>3, <1>4
<1>6. \A y \in Return : create[y].pc = "done" => create'[y] = create[y]
    BY <1>1, <1>2, <1>4 DEF Creation
<1>7. OneIsAlone'
    BY <1>3, <1>4 DEF OneIsAlone, Checking
<1>8. CheckedHolds'
    <2> SUFFICES ASSUME NEW y \in Return, create'[y].pc = "check", create'[y].alone,
                        NEW n \in DOMAIN create'[y].lines, n < create'[y].next
                 PROVE  FALSE
        BY DEF CheckedHolds, Checking
    <2>1. y = x
        BY <1>4
    <2>2. n \in 1 .. Len(lines) /\ n < 1
        BY <1>3, <1>4, <2>1, LinesTyped
    <2> QED BY <2>2
<1> QED BY <1>2, <1>5, <1>6, <1>7, <1>8, CreationInv

LEMMA CheckLineInv ==
    ASSUME PurchasingInv, NEW x \in Return, CheckLine(x)
    PROVE  PurchasingInv'
PROOF
<1> DEFINE n == create[x].next
           line == create[x].lines[n]
<1>1. create \in [Return -> Creation] /\ create[x] \in Creation /\ n \in Nat
    BY RowTypes DEF Creation
<1>2. create[x].pc = "check" /\ UNCHANGED <<order, received, doc, stock, sold, debt>>
    BY DEF CheckLine
<1>3. \A i : AlreadyReturned(i)' = AlreadyReturned(i)
    BY <1>2, SumsAre, SameReturns
<1>4. CASE /\ AlreadyReturned(line.item) + line.quantity <= received[line.item]
           /\ create' = [create EXCEPT ![x].next = n + 1]
    <2> DEFINE on == [create[x] EXCEPT !.next = n + 1]
    <2>1. /\ on \in Creation /\ on.pc = "check" /\ on.lines = create[x].lines /\ on.next = n + 1
          /\ on.alone = create[x].alone
        BY <1>1, <1>2 DEF Creation
    <2>2. create' = [create EXCEPT ![x] = on]
        BY <1>4
    <2> HIDE DEF on
    <2>3. /\ create' \in [Return -> Creation] /\ create'[x] = on
          /\ \A y \in Return : y # x => create'[y] = create[y]
        BY <1>1, <2>1, <2>2
    <2>4. OneIsAlone'
        BY <1>2, <2>1, <2>3 DEF PurchasingInv, OneIsAlone, Checking
    <2>5. CheckedHolds'
        <3> SUFFICES ASSUME NEW y \in Return, create'[y].pc = "check", create'[y].alone,
                            NEW m \in DOMAIN create'[y].lines, m < create'[y].next,
                            NEW l, l = create'[y].lines[m]
                     PROVE  AlreadyReturned(l.item)' + l.quantity <= received'[l.item]
            BY DEF CheckedHolds, Checking
        <3>1. create[y].pc = "check" /\ create[y].alone /\ create'[y].lines = create[y].lines
            BY <1>2, <2>1, <2>3
        <3>2. CASE m < create[y].next
            <4>1. AlreadyReturned(l.item) + l.quantity <= received[l.item]
                BY <3>1, <3>2 DEF PurchasingInv, CheckedHolds, Checking
            <4> QED BY <1>2, <1>3, <4>1
        <3>3. CASE ~(m < create[y].next)
            <4>1. y = x /\ l = line
                <5>1. y = x
                    BY <2>3, <3>3
                <5>2. m \in Nat
                    BY <1>1, <2>1, <2>3, <5>1, LinesTyped DEF Creation
                <5>3. m = n
                    BY <1>1, <2>1, <2>3, <3>3, <5>1, <5>2
                <5> QED BY <3>1, <5>1, <5>3
            <4> QED BY <1>2, <1>3, <1>4, <4>1
        <3> QED BY <3>2, <3>3
    <2> QED BY <1>2, <2>3, <2>4, <2>5, CreationInv
<1>5. CASE create' = [create EXCEPT ![x].pc = "refused"]
    <2>1. /\ create' \in [Return -> Creation] /\ create'[x].pc = "refused"
          /\ \A y \in Return : y # x => create'[y] = create[y]
        BY <1>1, <1>5 DEF Creation
    <2>2. OneIsAlone'
        BY <2>1 DEF PurchasingInv, OneIsAlone, Checking
    <2>3. CheckedHolds'
        BY <1>2, <1>3, <2>1 DEF PurchasingInv, CheckedHolds, Checking
    <2> QED BY <1>2, <2>1, <2>2, <2>3, CreationInv
<1> QED BY <1>4, <1>5 DEF CheckLine

(* What was returned of an item is a sum of naturals.                       *)
LEMMA ReturnedTyped ==
    ASSUME PurchasingInv, NEW i
    PROVE  /\ AlreadyReturned(i) \in Nat /\ ReturnedOf(i, {"COMPLETED"}) \in Nat
           /\ SumFunctionOnSet(Totals, ReturnsIn({"COMPLETED"})) \in Int
           /\ SumFunctionOnSet(OrderTotals, Received) \in Int
           /\ SumFunctionOnSet(Listed(i), CarefulReturns) \in Nat
           /\ SumFunctionOnSet(Listed(i), CarefulReturns) <= AlreadyReturned(i)
PROOF
<1>1. /\ IsFiniteSet(ReturnsIn({"COMPLETED"})) /\ ReturnsIn({"COMPLETED"}) \subseteq Return
      /\ IsFiniteSet(ReturnsIn(Uncancelled)) /\ ReturnsIn(Uncancelled) \subseteq Return
    BY ReturnTypes DEF ReturnsIn, Uncancelled
<1>2. /\ IsFiniteSet(CarefulReturns) /\ CarefulReturns \in SUBSET ReturnsIn(Uncancelled)
      /\ IsFiniteSet(Received) /\ Received \subseteq Order
    BY ReturnTypes DEF CarefulReturns
<1>3. /\ \A x \in Return : Listed(i)[x] \in Nat /\ Totals[x] \in Int
      /\ \A o \in Order : OrderTotals[o] \in Int
    BY ReturnTypes
<1>4. AlreadyReturned(i) \in Nat
    BY <1>1, <1>3, SumsAre, SumType
<1>5. ReturnedOf(i, {"COMPLETED"}) \in Nat
    BY <1>1, <1>3, SumsAre, SumType
<1>6. SumFunctionOnSet(Totals, ReturnsIn({"COMPLETED"})) \in Int
    BY <1>1, <1>3, SumType
<1>7. SumFunctionOnSet(OrderTotals, Received) \in Int
    BY <1>2, <1>3, SumType
<1>8. SumFunctionOnSet(Listed(i), CarefulReturns) \in Nat
    BY <1>1, <1>2, <1>3, SumType
<1>9. \A x \in ReturnsIn(Uncancelled) : Listed(i)[x] \in Nat
    BY <1>1, <1>3
<1>10. SumFunctionOnSet(Listed(i), CarefulReturns) <= AlreadyReturned(i)
    BY <1>1, <1>2, <1>9, SumsAre, SumPart
<1> QED BY <1>4, <1>5, <1>6, <1>7, <1>8, <1>10

LEMMA InsertReturnInv ==
    ASSUME PurchasingInv, NEW x \in Return, InsertReturn(x)
    PROVE  PurchasingInv'
PROOF
<1> DEFINE lines == create[x].lines
           row == [doc[x] EXCEPT !.status = "DRAFT", !.lines = lines]
           made == [create[x] EXCEPT !.pc = "done"]
<1>1. create \in [Return -> Creation] /\ create[x] \in Creation /\ doc \in [Return -> ReturnRow]
    BY RowTypes
<1>2. /\ create[x].pc = "check" /\ create[x].next > Len(lines)
      /\ create' = [create EXCEPT ![x] = made] /\ doc' = [doc EXCEPT ![x] = row]
      /\ UNCHANGED <<order, received, stock, sold, debt>>
    BY DEF InsertReturn
<1>3. /\ made \in Creation /\ made.pc = "done" /\ made.lines = lines
      /\ made.alone = create[x].alone
      /\ row \in ReturnRow /\ row.status = "DRAFT" /\ row.lines = lines
      /\ lines \in Lines \cup {<<>>}
    BY <1>1 DEF Creation, ReturnRow, ReturnStatus
<1> HIDE DEF lines, row, made
<1>4. /\ create' \in [Return -> Creation] /\ create'[x] = made
      /\ doc' \in [Return -> ReturnRow] /\ doc'[x] = row
      /\ \A y \in Return : y # x => create'[y] = create[y] /\ doc'[y] = doc[y]
    BY <1>1, <1>2, <1>3
<1>5. doc[x].status = "NONE"
    BY <1>2 DEF PurchasingInv, ReturnCreated
<1>6. TypeOK'
    BY <1>2, <1>4 DEF PurchasingInv, TypeOK, ReturnRow, Creation
<1>7. /\ Existing' = Existing \cup {x} /\ Received' = Received
      /\ x \notin ReturnsIn(Uncancelled) /\ x \notin ReturnsIn({"COMPLETED"})
      /\ x \notin CarefulReturns
      /\ ReturnsIn(Uncancelled)' = ReturnsIn(Uncancelled) \cup {x}
      /\ ReturnsIn({"COMPLETED"})' = ReturnsIn({"COMPLETED"})
    BY <1>2, <1>3, <1>4, <1>5
       DEF Existing, Received, ReturnsIn, Uncancelled, ReturnStatus, CarefulReturns
<1>8. FinitelyMany'
    BY <1>7, FS_AddElement DEF PurchasingInv, FinitelyMany
<1>9. ReceivedOnce'
    BY <1>2, <1>7 DEF PurchasingInv, ReceivedOnce
<1>10. ReturnCreated'
    BY <1>3, <1>4 DEF PurchasingInv, ReturnCreated
<1>11. OneIsAlone'
    BY <1>3, <1>4 DEF PurchasingInv, OneIsAlone, Checking
<1>12. CheckedHolds'
    <2> SUFFICES ASSUME NEW y \in Return, create'[y].pc = "check", create'[y].alone
                 PROVE  FALSE
        BY DEF CheckedHolds, Checking
    <2>1. y # x /\ create[y].pc = "check" /\ create[y].alone
        BY <1>3, <1>4
    <2> QED BY <1>2, <2>1 DEF PurchasingInv, OneIsAlone, Checking
<1>13. \A i : /\ \A y \in Return : y # x => Listed(i)'[y] = Listed(i)[y]
              /\ Listed(i)'[x] = QuantityOf(lines, i) /\ QuantityOf(lines, i) \in Nat
    BY <1>3, <1>4, QuantityTyped DEF Listed
<1>14. CarefulWithinReceived'
    <2> SUFFICES ASSUME NEW i \in Item
                 PROVE  SumFunctionOnSet(Listed(i)', CarefulReturns') <= received[i]
        BY <1>2 DEF CarefulWithinReceived
    <2> DEFINE before == SumFunctionOnSet(Listed(i), CarefulReturns)
    <2>1. /\ IsFiniteSet(CarefulReturns) /\ CarefulReturns \subseteq Return
          /\ \A y \in Return : Listed(i)[y] \in Nat
        BY ReturnTypes DEF CarefulReturns, ReturnsIn
    <2>2. SumFunctionOnSet(Listed(i)', CarefulReturns) = before
        <3>1. \A y \in CarefulReturns : Listed(i)'[y] = Listed(i)[y]
            BY <1>7, <1>13, <2>1
        <3> QED BY <2>1, <3>1, SumSame
    <2>3. before <= received[i] /\ before \in Nat /\ before <= AlreadyReturned(i)
        BY ReturnedTyped DEF PurchasingInv, CarefulWithinReceived
    <2>4. \A y \in Return : y # x => (Careful(y)' <=> Careful(y))
        BY <1>4, SumsAre
    <2>5. CASE ~(create[x].alone /\ Once(lines))
        <3>1. ~Careful(x)'
            BY <1>3, <1>4, <2>5, SumsAre
        <3>2. CarefulReturns' = CarefulReturns
            BY <1>7, <2>4, <3>1 DEF CarefulReturns, ReturnsIn
        <3> QED BY <2>2, <2>3, <3>2
    <2>6. CASE create[x].alone /\ Once(lines)
        <3>1. Careful(x)'
            BY <1>3, <1>4, <2>6, SumsAre
        <3>2. CarefulReturns' = CarefulReturns \cup {x}
            BY <1>7, <2>4, <3>1 DEF CarefulReturns, ReturnsIn
        <3>3. SumFunctionOnSet(Listed(i)', CarefulReturns \cup {x})
                = SumFunctionOnSet(Listed(i)', CarefulReturns) + Listed(i)'[x]
            <4>1. \A y \in CarefulReturns : Listed(i)'[y] \in Int
                BY <1>7, <1>13, <2>1
            <4>2. Listed(i)'[x] \in Int
                BY <1>13
            <4> HIDE DEF before
            <4> QED BY <1>7, <2>1, <4>1, <4>2, SumAdd
        <3>4. SumFunctionOnSet(Listed(i)', CarefulReturns') = before + QuantityOf(lines, i)
            BY <1>13, <2>2, <3>2, <3>3
        <3>5. before + QuantityOf(lines, i) <= received[i]
            <4>1. CASE QuantityOf(lines, i) = 0
                BY <2>3, <4>1
            <4>2. CASE \E n \in DOMAIN lines :
                            lines[n].item = i /\ QuantityOf(lines, i) = lines[n].quantity
                <5>1. PICK n \in DOMAIN lines :
                            lines[n].item = i /\ QuantityOf(lines, i) = lines[n].quantity
                    BY <4>2
                <5>2. n < create[x].next
                    BY <1>1, <1>2, <1>3, LinesTyped DEF Creation
                <5>3. AlreadyReturned(i) + QuantityOf(lines, i) <= received[i]
                    BY <1>2, <2>6, <5>1, <5>2 DEF PurchasingInv, CheckedHolds, Checking, lines
                <5>4. AlreadyReturned(i) \in Nat /\ received[i] \in Nat
                    BY ReturnedTyped, RowTypes
                <5> HIDE DEF before
                <5> QED BY <1>13, <2>3, <5>3, <5>4
            <4> QED BY <1>3, <2>6, <4>1, <4>2, QuantityOnce
        <3> QED BY <3>4, <3>5
    <2> QED BY <2>5, <2>6
<1>15. StockExplained'
    <2>1. \A i : ReturnedOf(i, {"COMPLETED"})' = ReturnedOf(i, {"COMPLETED"})
        <3> SUFFICES ASSUME NEW i
                     PROVE  SumFunctionOnSet(Listed(i)', ReturnsIn({"COMPLETED"}))
                              = SumFunctionOnSet(Listed(i), ReturnsIn({"COMPLETED"}))
            BY <1>7, SumsAre
        <3>1. IsFiniteSet(ReturnsIn({"COMPLETED"}))
            BY ReturnTypes
        <3>2. \A y \in ReturnsIn({"COMPLETED"}) : Listed(i)'[y] = Listed(i)[y]
            BY <1>7, <1>13 DEF ReturnsIn
        <3> QED BY <3>1, <3>2, SumSame
    <2> QED BY <1>2, <1>7, <2>1 DEF PurchasingInv, StockExplained
<1>16. DebtExplained'
    <2>1. SumFunctionOnSet(Totals', ReturnsIn({"COMPLETED"}))
            = SumFunctionOnSet(Totals, ReturnsIn({"COMPLETED"}))
        <3>1. IsFiniteSet(ReturnsIn({"COMPLETED"}))
            BY ReturnTypes
        <3>2. \A y \in ReturnsIn({"COMPLETED"}) : Totals'[y] = Totals[y]
            BY <1>4, <1>7 DEF ReturnsIn, Totals
        <3> QED BY <3>1, <3>2, SumSame
    <2> QED BY <1>2, <1>7, <2>1, SumsAre DEF PurchasingInv
<1> QED BY <1>6, <1>8, <1>9, <1>10, <1>11, <1>12, <1>14, <1>15, <1>16 DEF PurchasingInv

(* A return changes its status.                                             *)
LEMMA ReturnMoves ==
    ASSUME PurchasingInv, NEW x \in Return, NEW row \in ReturnRow,
           doc' = [doc EXCEPT ![x] = row], row.lines = doc[x].lines, row.status # "NONE",
           doc[x].status \in Uncancelled, UNCHANGED <<order, received, create>>
    PROVE  /\ doc' \in [Return -> ReturnRow] /\ Received' = Received
           /\ FinitelyMany' /\ ReceivedOnce' /\ ReturnCreated' /\ OneIsAlone' /\ CheckedHolds'
           /\ CarefulWithinReceived'
           /\ \A i : Listed(i)' = Listed(i) /\ Totals' = Totals
           /\ \A s : ReturnsIn(s)' = IF row.status \in s THEN ReturnsIn(s) \cup {x}
                                     ELSE ReturnsIn(s) \ {x}
PROOF
<1>1. doc \in [Return -> ReturnRow]
    BY RowTypes
<1>2. /\ doc' \in [Return -> ReturnRow] /\ doc'[x] = row
      /\ \A y \in Return : y # x => doc'[y] = doc[y]
    BY <1>1
<1>3. Received' = Received /\ ReceivedOnce' /\ OneIsAlone'
    BY DEF Received, PurchasingInv, ReceivedOnce, OneIsAlone, Checking
<1>4. \A y \in Return : doc'[y].lines = doc[y].lines
    BY <1>2
<1>5. \A i : Listed(i)' = Listed(i) /\ Totals' = Totals
    BY <1>4 DEF Listed, Totals
<1>6. \A s : ReturnsIn(s)' = IF row.status \in s THEN ReturnsIn(s) \cup {x}
                             ELSE ReturnsIn(s) \ {x}
    BY <1>2 DEF ReturnsIn
<1>7. Existing' = Existing
    BY <1>2 DEF Existing, Uncancelled
<1>8. FinitelyMany'
    BY <1>3, <1>7 DEF PurchasingInv, FinitelyMany
<1>9. ReturnCreated'
    BY <1>2 DEF PurchasingInv, ReturnCreated, Uncancelled
<1>10. /\ IsFiniteSet(ReturnsIn(Uncancelled)) /\ ReturnsIn(Uncancelled) \subseteq Return
       /\ IsFiniteSet(CarefulReturns) /\ CarefulReturns \subseteq Return
       /\ \A i : \A y \in Return : Listed(i)[y] \in Nat
    BY ReturnTypes DEF ReturnsIn, Uncancelled, CarefulReturns
<1>11. ReturnsIn(Uncancelled)' \in SUBSET ReturnsIn(Uncancelled)
    <2>1. x \in ReturnsIn(Uncancelled)
        BY DEF ReturnsIn
    <2> QED BY <1>6, <2>1
<1>12. \A i : AlreadyReturned(i)' \in Nat /\ AlreadyReturned(i)' <= AlreadyReturned(i)
    <2> TAKE i
    <2>1. AlreadyReturned(i)' = SumFunctionOnSet(Listed(i), ReturnsIn(Uncancelled)')
        BY <1>5, SumsAre
    <2>2. AlreadyReturned(i)' <= AlreadyReturned(i)
        <3>1. \A y \in ReturnsIn(Uncancelled) : Listed(i)[y] \in Nat
            BY <1>10
        <3> QED BY <1>10, <1>11, <2>1, <3>1, SumsAre, SumPart
    <2>3. IsFiniteSet(ReturnsIn(Uncancelled)') /\ ReturnsIn(Uncancelled)' \subseteq Return
        BY <1>10, <1>11, FS_Subset
    <2>4. AlreadyReturned(i)' \in Nat
        BY <1>10, <2>1, <2>3, SumType
    <2> QED BY <2>2, <2>4
<1>13. CheckedHolds'
    <2> SUFFICES ASSUME NEW y \in Return, Checking(y), create[y].alone,
                        NEW n \in DOMAIN create[y].lines, n < create[y].next,
                        NEW i, i = create[y].lines[n].item
                 PROVE  AlreadyReturned(i)' + create[y].lines[n].quantity <= received[i]
        BY DEF CheckedHolds, Checking
    <2>1. AlreadyReturned(i) + create[y].lines[n].quantity <= received[i]
        BY DEF PurchasingInv, CheckedHolds
    <2>2. i \in Item /\ create[y].lines[n].quantity \in Nat
        BY RowTypes, LinesTyped DEF Creation
    <2>3. AlreadyReturned(i) \in Nat /\ received[i] \in Nat
        BY <2>2, ReturnedTyped, RowTypes
    <2> QED BY <1>12, <2>1, <2>2, <2>3
<1>14. CarefulWithinReceived'
    <2> SUFFICES ASSUME NEW i \in Item
                 PROVE  SumFunctionOnSet(Listed(i)', CarefulReturns') <= received[i]
        BY DEF CarefulWithinReceived
    <2>1. CarefulReturns' \in SUBSET CarefulReturns
        <3>1. \A y \in Return : Careful(y)' <=> Careful(y)
            BY <1>4, SumsAre
        <3> QED BY <1>10, <1>11, <3>1 DEF CarefulReturns
    <2>2. SumFunctionOnSet(Listed(i), CarefulReturns')
            <= SumFunctionOnSet(Listed(i), CarefulReturns)
        <3>1. \A y \in CarefulReturns : Listed(i)[y] \in Nat
            BY <1>10
        <3> QED BY <1>10, <2>1, <3>1, SumPart
    <2>3. SumFunctionOnSet(Listed(i), CarefulReturns') \in Nat
        <3>1. IsFiniteSet(CarefulReturns') /\ CarefulReturns' \subseteq Return
            BY <1>10, <2>1, FS_Subset
        <3> QED BY <1>10, <3>1, SumType
    <2>4. SumFunctionOnSet(Listed(i), CarefulReturns) <= received[i]
        BY DEF PurchasingInv, CarefulWithinReceived
    <2>5. SumFunctionOnSet(Listed(i), CarefulReturns) \in Nat /\ received[i] \in Nat
        BY ReturnedTyped, RowTypes
    <2> QED BY <1>5, <2>2, <2>3, <2>4, <2>5
<1> QED BY <1>2, <1>3, <1>5, <1>6, <1>8, <1>9, <1>13, <1>14

LEMMA ApproveReturnInv ==
    ASSUME PurchasingInv, NEW x \in Return, ApproveReturn(x)
    PROVE  PurchasingInv'
PROOF
<1> DEFINE row == [doc[x] EXCEPT !.status = "APPROVED"]
<1>1. doc \in [Return -> ReturnRow] /\ doc[x].status = "DRAFT"
    BY RowTypes DEF ApproveReturn
<1>2. doc' = [doc EXCEPT ![x] = row] /\ UNCHANGED <<order, received, create, stock, sold, debt>>
    BY DEF ApproveReturn
<1>3. row \in ReturnRow /\ row.status = "APPROVED" /\ row.lines = doc[x].lines
    BY <1>1 DEF ReturnRow, ReturnStatus
<1> HIDE DEF row
<1>4. /\ doc[x].status \in Uncancelled /\ row.status # "NONE"
      /\ UNCHANGED <<order, received, create>>
    BY <1>1, <1>2, <1>3 DEF Uncancelled, ReturnStatus
<1>5. /\ doc' \in [Return -> ReturnRow] /\ Received' = Received
      /\ FinitelyMany' /\ ReceivedOnce' /\ ReturnCreated' /\ OneIsAlone' /\ CheckedHolds'
      /\ CarefulWithinReceived'
      /\ \A i : Listed(i)' = Listed(i) /\ Totals' = Totals
      /\ \A s : ReturnsIn(s)' = IF row.status \in s THEN ReturnsIn(s) \cup {x}
                                ELSE ReturnsIn(s) \ {x}
    BY <1>2, <1>3, <1>4, ReturnMoves
<1>6. ReturnsIn({"COMPLETED"})' = ReturnsIn({"COMPLETED"})
    <2>1. x \notin ReturnsIn({"COMPLETED"})
        BY <1>1 DEF ReturnsIn
    <2>2. ReturnsIn({"COMPLETED"})' = ReturnsIn({"COMPLETED"}) \ {x}
        BY <1>3, <1>5
    <2> QED BY <2>1, <2>2
<1>7. TypeOK'
    BY <1>2, <1>5 DEF PurchasingInv, TypeOK, ReturnRow
<1>8. StockExplained'
    BY <1>2, <1>5, <1>6, SumsAre DEF PurchasingInv, StockExplained
<1>9. DebtExplained'
    BY <1>2, <1>5, <1>6, SumsAre DEF PurchasingInv
<1> QED BY <1>5, <1>7, <1>8, <1>9 DEF PurchasingInv

LEMMA CancelReturnInv ==
    ASSUME PurchasingInv, NEW x \in Return, CancelReturn(x)
    PROVE  PurchasingInv'
PROOF
<1> DEFINE row == [doc[x] EXCEPT !.status = "CANCELLED"]
<1>1. doc \in [Return -> ReturnRow] /\ doc[x].status \in {"DRAFT", "APPROVED"}
    BY RowTypes DEF CancelReturn, ReturnCancellable
<1>2. doc' = [doc EXCEPT ![x] = row] /\ UNCHANGED <<order, received, create, stock, sold, debt>>
    BY DEF CancelReturn
<1>3. row \in ReturnRow /\ row.status = "CANCELLED" /\ row.lines = doc[x].lines
    BY <1>1 DEF ReturnRow, ReturnStatus
<1> HIDE DEF row
<1>4. /\ doc[x].status \in Uncancelled /\ row.status # "NONE"
      /\ UNCHANGED <<order, received, create>>
    BY <1>1, <1>2, <1>3 DEF Uncancelled, ReturnStatus
<1>5. /\ doc' \in [Return -> ReturnRow] /\ Received' = Received
      /\ FinitelyMany' /\ ReceivedOnce' /\ ReturnCreated' /\ OneIsAlone' /\ CheckedHolds'
      /\ CarefulWithinReceived'
      /\ \A i : Listed(i)' = Listed(i) /\ Totals' = Totals
      /\ \A s : ReturnsIn(s)' = IF row.status \in s THEN ReturnsIn(s) \cup {x}
                                ELSE ReturnsIn(s) \ {x}
    BY <1>2, <1>3, <1>4, ReturnMoves
<1>6. ReturnsIn({"COMPLETED"})' = ReturnsIn({"COMPLETED"})
    <2>1. x \notin ReturnsIn({"COMPLETED"})
        BY <1>1 DEF ReturnsIn
    <2>2. ReturnsIn({"COMPLETED"})' = ReturnsIn({"COMPLETED"}) \ {x}
        BY <1>3, <1>5
    <2> QED BY <2>1, <2>2
<1>7. TypeOK'
    BY <1>2, <1>5 DEF PurchasingInv, TypeOK, ReturnRow
<1>8. StockExplained'
    BY <1>2, <1>5, <1>6, SumsAre DEF PurchasingInv, StockExplained
<1>9. DebtExplained'
    BY <1>2, <1>5, <1>6, SumsAre DEF PurchasingInv
<1> QED BY <1>5, <1>7, <1>8, <1>9 DEF PurchasingInv

LEMMA CompleteReturnInv ==
    ASSUME PurchasingInv, NEW x \in Return, NEW version, CompleteReturn(x, version)
    PROVE  PurchasingInv'
PROOF
<1> DEFINE row == [doc[x] EXCEPT !.status = "COMPLETED", !.version = 2]
           lines == doc[x].lines
<1>1. /\ doc \in [Return -> ReturnRow] /\ doc[x].status = "APPROVED"
      /\ stock \in [Item -> Level] /\ sold \in [Item -> Nat] /\ debt \in Int
      /\ received \in [Item -> Nat]
    BY RowTypes DEF CompleteReturn
<1>2. /\ doc' = [doc EXCEPT ![x] = row] /\ UNCHANGED <<order, received, create, sold>>
      /\ stock' = [i \in Item |-> stock[i] - QuantityOf(lines, i)]
      /\ debt' = debt - ReturnTotal(lines)
      /\ AllowNegative \/ \A i \in Item : QuantityOf(lines, i) <= stock[i]
    BY DEF CompleteReturn, InStock
<1>3. row \in ReturnRow /\ row.status = "COMPLETED" /\ row.lines = lines
    <2>1. doc[x] \in ReturnRow /\ 2 \in 1..2
        BY <1>1
    <2> QED BY <2>1 DEF ReturnRow, ReturnStatus
<1>4. /\ lines \in Lines \cup {<<>>} /\ ReturnTotal(lines) \in Nat
      /\ \A i : QuantityOf(lines, i) \in Nat
      /\ \A i : Listed(i)[x] = QuantityOf(lines, i)
      /\ Totals[x] = ReturnTotal(lines)
    BY <1>1, QuantityTyped, ReturnTotalTyped DEF ReturnRow, Listed, Totals
<1> HIDE DEF row, lines
<1>5. /\ doc[x].status \in Uncancelled /\ row.status # "NONE" /\ row.lines = doc[x].lines
      /\ UNCHANGED <<order, received, create>>
    BY <1>1, <1>2, <1>3 DEF Uncancelled, ReturnStatus, lines
<1>6. /\ doc' \in [Return -> ReturnRow] /\ Received' = Received
      /\ FinitelyMany' /\ ReceivedOnce' /\ ReturnCreated' /\ OneIsAlone' /\ CheckedHolds'
      /\ CarefulWithinReceived'
      /\ \A i : Listed(i)' = Listed(i) /\ Totals' = Totals
      /\ \A s : ReturnsIn(s)' = IF row.status \in s THEN ReturnsIn(s) \cup {x}
                                ELSE ReturnsIn(s) \ {x}
    BY <1>2, <1>3, <1>5, ReturnMoves
<1>7. /\ ReturnsIn({"COMPLETED"})' = ReturnsIn({"COMPLETED"}) \cup {x}
      /\ x \notin ReturnsIn({"COMPLETED"})
    BY <1>1, <1>3, <1>6 DEF ReturnsIn
<1>8. stock' \in [Item -> Level] /\ debt' \in Int
    <2>1. ASSUME NEW i \in Item PROVE stock[i] - QuantityOf(lines, i) \in Level
        <3>1. /\ stock[i] \in Level /\ QuantityOf(lines, i) \in Nat
              /\ AllowNegative \/ QuantityOf(lines, i) <= stock[i]
            BY <1>1, <1>2, <1>4
        <3> QED BY <3>1, GoodsOut
    <2> QED BY <1>1, <1>2, <1>4, <2>1
<1>9. TypeOK'
    BY <1>2, <1>6, <1>8 DEF PurchasingInv, TypeOK, ReturnRow
<1>10. /\ IsFiniteSet(ReturnsIn({"COMPLETED"})) /\ ReturnsIn({"COMPLETED"}) \subseteq Return
       /\ \A i : \A y \in Return : Listed(i)[y] \in Nat /\ Totals[y] \in Int
    BY ReturnTypes DEF ReturnsIn
<1>11. \A i : ReturnedOf(i, {"COMPLETED"})'
                = ReturnedOf(i, {"COMPLETED"}) + QuantityOf(lines, i)
    <2> TAKE i
    <2>1. Listed(i)[x] \in Int /\ \A y \in ReturnsIn({"COMPLETED"}) : Listed(i)[y] \in Int
        BY <1>10
    <2> QED BY <1>4, <1>6, <1>7, <1>10, <2>1, SumsAre, SumAdd
<1>12. StockExplained'
    <2> SUFFICES ASSUME NEW i \in Item
                 PROVE  stock'[i] = Opening[i] + (IF OrderOf[i] \in Received THEN Ordered[i] ELSE 0)
                                    - sold[i] - ReturnedOf(i, {"COMPLETED"})'
        BY <1>2, <1>6 DEF StockExplained
    <2>1. stock[i] = Opening[i] + (IF OrderOf[i] \in Received THEN Ordered[i] ELSE 0)
                     - sold[i] - ReturnedOf(i, {"COMPLETED"})
        BY DEF PurchasingInv, StockExplained
    <2>2. /\ Opening[i] \in Int /\ (IF OrderOf[i] \in Received THEN Ordered[i] ELSE 0) \in Int
          /\ ReturnedOf(i, {"COMPLETED"}) \in Nat
        <3>1. Opening[i] \in Int
            BY PurchasingAssumption, LevelType
        <3>2. (IF OrderOf[i] \in Received THEN Ordered[i] ELSE 0) \in Int
            BY PurchasingAssumption
        <3>3. ReturnedOf(i, {"COMPLETED"}) \in Nat
            BY ReturnedTyped
        <3> QED BY <3>1, <3>2, <3>3
    <2>3. /\ stock'[i] = stock[i] - QuantityOf(lines, i) /\ QuantityOf(lines, i) \in Nat
          /\ ReturnedOf(i, {"COMPLETED"})' = ReturnedOf(i, {"COMPLETED"}) + QuantityOf(lines, i)
          /\ sold[i] \in Nat /\ stock[i] \in Int
        BY <1>1, <1>2, <1>4, <1>11, LevelType
    <2> QED BY <2>1, <2>2, <2>3
<1>13. DebtExplained'
    <2>1. SumFunctionOnSet(Totals, ReturnsIn({"COMPLETED"})')
            = SumFunctionOnSet(Totals, ReturnsIn({"COMPLETED"})) + ReturnTotal(lines)
        <3>1. Totals[x] \in Int /\ \A y \in ReturnsIn({"COMPLETED"}) : Totals[y] \in Int
            BY <1>10
        <3> QED BY <1>4, <1>7, <1>10, <3>1, SumAdd
    <2>2. debt = SumFunctionOnSet(OrderTotals, Received)
                 - SumFunctionOnSet(Totals, ReturnsIn({"COMPLETED"}))
        BY SumsAre DEF PurchasingInv
    <2>3. /\ SumFunctionOnSet(OrderTotals, Received) \in Int
          /\ SumFunctionOnSet(Totals, ReturnsIn({"COMPLETED"})) \in Int
        BY ReturnedTyped
    <2>4. debt' = SumFunctionOnSet(OrderTotals, Received)
                  - SumFunctionOnSet(Totals, ReturnsIn({"COMPLETED"})')
        BY <1>2, <1>4, <2>1, <2>2, <2>3
    <2> QED BY <1>6, <2>4, SumsAre
<1> QED BY <1>6, <1>9, <1>12, <1>13 DEF PurchasingInv

LEMMA SellInv ==
    ASSUME PurchasingInv, NEW i \in Item, Sell(i)
    PROVE  PurchasingInv'
PROOF
<1>1. /\ stock \in [Item -> Level] /\ sold \in [Item -> Nat] /\ received \in [Item -> Nat]
      /\ Opening \in [Item -> Level] /\ Ordered \in [Item -> Nat \ {0}]
    BY RowTypes, PurchasingAssumption
<1>2. /\ AllowNegative \/ stock[i] > 0
      /\ stock' = [stock EXCEPT ![i] = stock[i] - 1]
      /\ sold' = [sold EXCEPT ![i] = sold[i] + 1]
      /\ UNCHANGED <<order, received, doc, create, debt>>
    BY DEF Sell
<1>3. stock' \in [Item -> Level] /\ sold' \in [Item -> Nat] /\ Received' = Received
    <2>1. stock[i] \in Level /\ stock[i] \in Int
        BY <1>1, LevelType
    <2>2. stock[i] - 1 \in Level
        BY <1>2, <2>1, GoodsOut
    <2> QED BY <1>1, <1>2, <2>2 DEF Received
<1>4. TypeOK'
    BY <1>2, <1>3 DEF PurchasingInv, TypeOK
<1>5. FinitelyMany' /\ ReceivedOnce'
    BY <1>2, <1>3, SameReturns DEF PurchasingInv, FinitelyMany, ReceivedOnce
<1>6. ReturnCreated' /\ OneIsAlone' /\ CheckedHolds' /\ CarefulWithinReceived'
    BY <1>1, <1>2, ReturnsStay
<1>7. StockExplained'
    <2> SUFFICES ASSUME NEW j \in Item
                 PROVE  stock'[j] = Opening[j] + (IF OrderOf[j] \in Received THEN Ordered[j] ELSE 0)
                                    - sold'[j] - ReturnedOf(j, {"COMPLETED"})
        BY <1>2, <1>3, SumsAre, SameReturns DEF StockExplained
    <2>1. stock[j] = Opening[j] + (IF OrderOf[j] \in Received THEN Ordered[j] ELSE 0)
                     - sold[j] - ReturnedOf(j, {"COMPLETED"})
        BY DEF PurchasingInv, StockExplained
    <2>2. /\ Opening[j] \in Int /\ (IF OrderOf[j] \in Received THEN Ordered[j] ELSE 0) \in Int
          /\ ReturnedOf(j, {"COMPLETED"}) \in Nat
        <3>1. Opening[j] \in Int
            BY PurchasingAssumption, LevelType
        <3>2. (IF OrderOf[j] \in Received THEN Ordered[j] ELSE 0) \in Int
            BY PurchasingAssumption
        <3>3. ReturnedOf(j, {"COMPLETED"}) \in Nat
            BY ReturnedTyped
        <3> QED BY <3>1, <3>2, <3>3
    <2>3. stock[j] \in Int
        BY <1>1, LevelType
    <2> QED BY <1>1, <1>2, <2>1, <2>2, <2>3
<1>8. DebtExplained'
    BY <1>2, <1>3, SumsAre, SameReturns DEF PurchasingInv
<1> QED BY <1>4, <1>5, <1>6, <1>7, <1>8 DEF PurchasingInv

LEMMA NextPurchasing == PurchasingInv /\ [Next]_vars => PurchasingInv'
PROOF
<1> SUFFICES ASSUME PurchasingInv, [Next]_vars PROVE PurchasingInv'
    OBVIOUS
<1>1. ASSUME NEW o \in Order, CreateOrder(o) PROVE PurchasingInv'
    <2>1. "DRAFT" \in OrderStatus \ {"RECEIVED"}
        BY DEF OrderStatus
    <2> QED BY <1>1, <2>1, OrderMoves DEF CreateOrder
<1>2. ASSUME NEW o \in Order, ApproveOrder(o) PROVE PurchasingInv'
    <2>1. "APPROVED" \in OrderStatus \ {"RECEIVED"}
        BY DEF OrderStatus
    <2> QED BY <1>2, <2>1, OrderMoves DEF ApproveOrder
<1>3. ASSUME NEW o \in Order, CancelOrder(o) PROVE PurchasingInv'
    <2>1. "CANCELLED" \in OrderStatus \ {"RECEIVED"}
        BY DEF OrderStatus
    <2> QED BY <1>3, <2>1, OrderMoves DEF CancelOrder, OrderCancellable
<1>4. ASSUME UNCHANGED vars PROVE PurchasingInv'
    <2>1. TypeOK' /\ Received' = Received
        BY <1>4 DEF vars, PurchasingInv, TypeOK, Received
    <2>2. FinitelyMany' /\ ReceivedOnce'
        BY <1>4, <2>1, SameReturns DEF vars, PurchasingInv, FinitelyMany, ReceivedOnce
    <2>3. ReturnCreated' /\ OneIsAlone' /\ CheckedHolds' /\ CarefulWithinReceived'
        BY <1>4, RowTypes, ReturnsStay DEF vars
    <2>4. StockExplained'
        BY <1>4, <2>1, SumsAre, SameReturns DEF vars, PurchasingInv, StockExplained
    <2>5. DebtExplained'
        BY <1>4, <2>1, SumsAre, SameReturns DEF vars, PurchasingInv
    <2> QED BY <2>1, <2>2, <2>3, <2>4, <2>5 DEF PurchasingInv
<1> QED BY <1>1, <1>2, <1>3, <1>4, ReceiveInv, StartReturnInv, CheckLineInv, InsertReturnInv,
           ApproveReturnInv, CancelReturnInv, CompleteReturnInv, SellInv DEF Next

(* Whoever creates returns one at a time, naming every item once, never     *)
(* returns more of an item than was received.                               *)
LEMMA OneAtATime == PurchasingInv => ReturnsOneAtATime
PROOF
<1> SUFFICES ASSUME PurchasingInv, NEW i \in Item,
                    \A x \in ReturnsIn(Uncancelled) :
                        QuantityOf(doc[x].lines, i) > 0 => Careful(x)
             PROVE  AlreadyReturned(i) <= received[i]
    BY SumsAre DEF ReturnsOneAtATime
<1>1. /\ IsFiniteSet(ReturnsIn(Uncancelled)) /\ ReturnsIn(Uncancelled) \subseteq Return
      /\ CarefulReturns \in SUBSET ReturnsIn(Uncancelled)
      /\ \A x \in Return : Listed(i)[x] \in Nat
    BY ReturnTypes DEF ReturnsIn, Uncancelled, CarefulReturns
<1>2. \A x \in ReturnsIn(Uncancelled) : x \notin CarefulReturns => Listed(i)[x] = 0
    <2>1. \A x \in Return : Listed(i)[x] = QuantityOf(doc[x].lines, i)
        BY DEF Listed
    <2> QED BY <1>1, <2>1 DEF CarefulReturns
<1>3. SumFunctionOnSet(Listed(i), ReturnsIn(Uncancelled))
        = SumFunctionOnSet(Listed(i), CarefulReturns)
    <2>1. \A x \in ReturnsIn(Uncancelled) : Listed(i)[x] \in Int
        BY <1>1
    <2> QED BY <1>1, <1>2, <2>1, SumSupport
<1> QED BY <1>3, SumsAre DEF PurchasingInv, CarefulWithinReceived

---------------------------------------------------------------------------
(* Sums over documents of the stock, and the steps of StockDocuments *)

TransferRow == Documents!TransferRow
CallRow == [pc : {"idle", "claim", "done", "refused"},
            op : {"approve", "receive", "cancel", NoCost}, of : Transfer \cup {NoCost},
            version : 0..3, seen : TransferRow]
CountRow == [status : {"NONE", "DRAFT", "COUNTING", "COMPLETED"},
             at : Warehouse \cup {NoCost}, system : Int, difference : Int]
AdjustmentRow == [status : {"NONE", "DRAFT", "SUBMITTED", "APPROVED", "COMPLETED"},
                  at : Warehouse \cup {NoCost}, delta : Int]
Cell == [quantity : Int, avgCost : Int]

Carried == [t \in Transfer |-> transfer[t].quantity]
Differences == [c \in Count |-> count[c].difference]
Deltas == [a \in Adjustment |-> adjustment[a].delta]

LeftOf(w) == SumFunctionOnSet(Carried, Documents!Left(w))
ArrivedOf(w) == SumFunctionOnSet(Carried, Documents!Arrived(w))
CountedOf(w) == SumFunctionOnSet(Differences, Documents!CountedAt(w))
AdjustedOf(w) == SumFunctionOnSet(Deltas, Documents!AdjustedAt(w))

LEMMA SameSums ==
    /\ \A f, S : Documents!SumFunctionOnSet(f, S) = SumFunctionOnSet(f, S)
    /\ \A f : Documents!SumFunction(f) = SumFunctionOnSet(f, DOMAIN f)
PROOF
<1>1. \A f, S : Documents!SumFunctionOnSet(f, S) = SumFunctionOnSet(f, S)
    BY DEF Documents!SumFunctionOnSet, SumFunctionOnSet, Documents!FoldFunctionOnSet,
           FoldFunctionOnSet, Documents!MapThenFoldSet, MapThenFoldSet
<1> QED BY <1>1 DEF Documents!SumFunction

LEMMA DocumentTypes ==
    ASSUME DocumentsInv
    PROVE  /\ cell \in [Warehouse -> Cell] /\ transfer \in [Transfer -> TransferRow]
           /\ call \in [Call -> CallRow] /\ count \in [Count -> CountRow]
           /\ adjustment \in [Adjustment -> AdjustmentRow]
           /\ bought \in [Warehouse -> Nat] /\ taken \in [Warehouse -> Nat]
BY DEF DocumentsInv, Documents!TypeOK, Cell, TransferRow, CallRow, CountRow, AdjustmentRow

LEMMA ConstantTypes ==
    /\ NoCost \notin Int /\ Quantity \subseteq Nat \ {0} /\ Delta \subseteq Int
    /\ Counted \subseteq Seq(Nat) /\ <<>> \notin Counted /\ Price \subseteq Nat
    /\ MaxBought \in Nat /\ AllowNegative \in BOOLEAN
BY DocumentsAssumed DEF Documents!StockDocumentsAssumption

LEMMA RowFields ==
    /\ \A row \in TransferRow :
        /\ row.status \in {"NONE", "PENDING", "APPROVED", "RECEIVED", "CANCELLED"}
        /\ row.version \in 1..3 /\ row.from \in Warehouse \cup {NoCost}
        /\ row.to \in Warehouse \cup {NoCost} /\ row.quantity \in Nat
        /\ row.unitCost \in Int \cup {NoCost}
    /\ \A c \in CallRow :
        /\ c.pc \in {"idle", "claim", "done", "refused"} /\ c.of \in Transfer \cup {NoCost}
        /\ c.version \in 0..3 /\ c.seen \in TransferRow
BY DEF TransferRow, Documents!TransferRow, Documents!TransferStatus, CallRow

(* The four sums of StockExplained when a document changes.                 *)
LEMMA TransferChanges ==
    ASSUME DocumentsInv, NEW t \in Transfer, NEW row \in TransferRow, row.status # "NONE",
           transfer' = [transfer EXCEPT ![t] = row]
    PROVE  /\ transfer' \in [Transfer -> TransferRow] /\ transfer'[t] = row
           /\ \A u \in Transfer : u # t => transfer'[u] = transfer[u]
           /\ IsFiniteSet({u \in Transfer : transfer[u].status # "NONE"})'
           /\ \A w : LeftOf(w)' = LeftOf(w)
                    - (IF t \in Documents!Left(w) THEN transfer[t].quantity ELSE 0)
                    + (IF row.from = w /\ row.status \in {"APPROVED", "RECEIVED"}
                       THEN row.quantity ELSE 0)
           /\ \A w : ArrivedOf(w)' = ArrivedOf(w)
                    - (IF t \in Documents!Arrived(w) THEN transfer[t].quantity ELSE 0)
                    + (IF row.to = w /\ row.status = "RECEIVED" THEN row.quantity ELSE 0)
PROOF
<1>1. transfer \in [Transfer -> TransferRow]
    BY DocumentTypes
<1>2. /\ transfer' \in [Transfer -> TransferRow] /\ transfer'[t] = row
      /\ \A u \in Transfer : u # t => transfer'[u] = transfer[u]
    BY <1>1
<1> DEFINE Known == {u \in Transfer : transfer[u].status # "NONE"}
<1>3. IsFiniteSet(Known) /\ IsFiniteSet(Known')
    <2>1. IsFiniteSet(Known)
        BY DEF DocumentsInv, DocumentsFinite
    <2>2. Known' = Known \cup {t}
        BY <1>2
    <2> HIDE DEF Known
    <2> QED BY <2>1, <2>2, FS_AddElement
<1>4. \A u \in Transfer : Carried[u] \in Int /\ Carried'[u] \in Int
    BY <1>1, <1>2, RowFields DEF Carried
<1>5. \A u \in Transfer : u # t => Carried'[u] = Carried[u]
    BY <1>2 DEF Carried
<1>6. Carried[t] = transfer[t].quantity /\ Carried'[t] = row.quantity
    BY <1>2 DEF Carried
<1>7. ASSUME NEW w
      PROVE  LeftOf(w)' = LeftOf(w)
                - (IF t \in Documents!Left(w) THEN transfer[t].quantity ELSE 0)
                + (IF row.from = w /\ row.status \in {"APPROVED", "RECEIVED"}
                   THEN row.quantity ELSE 0)
    <2> DEFINE S == Documents!Left(w)
               T == Documents!Left(w)'
               lost == IF t \in S THEN Carried[t] ELSE 0
               gained == IF t \in T THEN Carried'[t] ELSE 0
    <2>1. S \subseteq Known /\ S \subseteq Transfer /\ T \subseteq Transfer
        BY DEF Documents!Left
    <2>2. S \ {t} = T \ {t} /\ (t \in T <=> row.from = w /\ row.status \in {"APPROVED", "RECEIVED"})
        BY <1>2 DEF Documents!Left
    <2>3. IsFiniteSet(S)
        BY <1>3, <2>1, FS_Subset
    <2> HIDE DEF S, T, Known
    <2>4. /\ \A y \in S : Carried[y] \in Int /\ (y # t => Carried'[y] = Carried[y])
          /\ \A y \in T : Carried'[y] \in Int
        BY <1>4, <1>5, <2>1
    <2> HIDE DEF lost, gained
    <2>5. lost = (IF t \in S THEN Carried[t] ELSE 0) /\ gained = (IF t \in T THEN Carried'[t] ELSE 0)
        BY DEF lost, gained
    <2>6. SumFunctionOnSet(Carried', T) = SumFunctionOnSet(Carried, S) - lost + gained
        BY <2>2, <2>3, <2>4, <2>5, SumUpdate
    <2>7. LeftOf(w)' = LeftOf(w) - lost + gained
        BY <2>6 DEF LeftOf, S, T
    <2> QED BY <1>6, <2>2, <2>7 DEF lost, gained, S
<1>8. ASSUME NEW w
      PROVE  ArrivedOf(w)' = ArrivedOf(w)
                - (IF t \in Documents!Arrived(w) THEN transfer[t].quantity ELSE 0)
                + (IF row.to = w /\ row.status = "RECEIVED" THEN row.quantity ELSE 0)
    <2> DEFINE S == Documents!Arrived(w)
               T == Documents!Arrived(w)'
               lost == IF t \in S THEN Carried[t] ELSE 0
               gained == IF t \in T THEN Carried'[t] ELSE 0
    <2>1. S \subseteq Known /\ S \subseteq Transfer /\ T \subseteq Transfer
        BY DEF Documents!Arrived
    <2>2. S \ {t} = T \ {t} /\ (t \in T <=> row.to = w /\ row.status = "RECEIVED")
        BY <1>2 DEF Documents!Arrived
    <2>3. IsFiniteSet(S)
        BY <1>3, <2>1, FS_Subset
    <2> HIDE DEF S, T, Known
    <2>4. /\ \A y \in S : Carried[y] \in Int /\ (y # t => Carried'[y] = Carried[y])
          /\ \A y \in T : Carried'[y] \in Int
        BY <1>4, <1>5, <2>1
    <2> HIDE DEF lost, gained
    <2>5. lost = (IF t \in S THEN Carried[t] ELSE 0) /\ gained = (IF t \in T THEN Carried'[t] ELSE 0)
        BY DEF lost, gained
    <2>6. SumFunctionOnSet(Carried', T) = SumFunctionOnSet(Carried, S) - lost + gained
        BY <2>2, <2>3, <2>4, <2>5, SumUpdate
    <2>7. ArrivedOf(w)' = ArrivedOf(w) - lost + gained
        BY <2>6 DEF ArrivedOf, S, T
    <2> QED BY <1>6, <2>2, <2>7 DEF lost, gained, S
<1> QED BY <1>2, <1>3, <1>7, <1>8

LEMMA CountChanges ==
    ASSUME DocumentsInv, NEW c \in Count, NEW row \in CountRow, row.status # "NONE",
           count' = [count EXCEPT ![c] = row], count[c].status # "COMPLETED"
    PROVE  /\ count' \in [Count -> CountRow] /\ count'[c] = row
           /\ \A d \in Count : d # c => count'[d] = count[d]
           /\ IsFiniteSet({d \in Count : count[d].status # "NONE"})'
           /\ \A w : CountedOf(w)' = CountedOf(w)
                    + (IF row.at = w /\ row.status = "COMPLETED" THEN row.difference ELSE 0)
PROOF
<1>1. count \in [Count -> CountRow]
    BY DocumentTypes
<1>2. /\ count' \in [Count -> CountRow] /\ count'[c] = row
      /\ \A d \in Count : d # c => count'[d] = count[d]
    BY <1>1
<1> DEFINE Known == {d \in Count : count[d].status # "NONE"}
<1>3. IsFiniteSet(Known) /\ IsFiniteSet(Known')
    <2>1. IsFiniteSet(Known)
        BY DEF DocumentsInv, DocumentsFinite
    <2>2. Known' = Known \cup {c}
        BY <1>2
    <2> HIDE DEF Known
    <2> QED BY <2>1, <2>2, FS_AddElement
<1>4. \A d \in Count : Differences[d] \in Int /\ Differences'[d] \in Int
    BY <1>1, <1>2 DEF Differences, CountRow
<1>5. \A d \in Count : d # c => Differences'[d] = Differences[d]
    BY <1>2 DEF Differences
<1>6. Differences'[c] = row.difference
    BY <1>2 DEF Differences
<1>7. ASSUME NEW w
      PROVE  CountedOf(w)' = CountedOf(w)
                + (IF row.at = w /\ row.status = "COMPLETED" THEN row.difference ELSE 0)
    <2> DEFINE S == Documents!CountedAt(w)
               T == Documents!CountedAt(w)'
               gained == IF c \in T THEN Differences'[c] ELSE 0
    <2>1. S \subseteq Known /\ S \subseteq Count /\ T \subseteq Count /\ c \notin S
        BY DEF Documents!CountedAt
    <2>2. S \ {c} = T \ {c} /\ (c \in T <=> row.at = w /\ row.status = "COMPLETED")
        BY <1>2 DEF Documents!CountedAt
    <2>3. IsFiniteSet(S)
        BY <1>3, <2>1, FS_Subset
    <2> HIDE DEF S, T, Known
    <2>4. /\ \A y \in S : Differences[y] \in Int /\ (y # c => Differences'[y] = Differences[y])
          /\ \A y \in T : Differences'[y] \in Int
        BY <1>4, <1>5, <2>1
    <2> HIDE DEF gained
    <2>5. 0 = (IF c \in S THEN Differences[c] ELSE 0) /\ gained = (IF c \in T THEN Differences'[c] ELSE 0)
        BY <2>1 DEF gained
    <2>6. SumFunctionOnSet(Differences', T) = SumFunctionOnSet(Differences, S) - 0 + gained
        BY <2>2, <2>3, <2>4, <2>5, SumUpdate
    <2>7. SumFunctionOnSet(Differences, S) \in Int
        BY <2>3, <2>4, SumType
    <2>8. SumFunctionOnSet(Differences', T) = SumFunctionOnSet(Differences, S) + gained
        BY <2>6, <2>7
    <2>9. CountedOf(w)' = CountedOf(w) + gained
        BY <2>8 DEF CountedOf, S, T
    <2> QED BY <1>6, <2>2, <2>9 DEF gained
<1> QED BY <1>2, <1>3, <1>7

LEMMA AdjustmentChanges ==
    ASSUME DocumentsInv, NEW a \in Adjustment, NEW row \in AdjustmentRow, row.status # "NONE",
           adjustment' = [adjustment EXCEPT ![a] = row], adjustment[a].status # "COMPLETED"
    PROVE  /\ adjustment' \in [Adjustment -> AdjustmentRow] /\ adjustment'[a] = row
           /\ \A b \in Adjustment : b # a => adjustment'[b] = adjustment[b]
           /\ IsFiniteSet({b \in Adjustment : adjustment[b].status # "NONE"})'
           /\ \A w : AdjustedOf(w)' = AdjustedOf(w)
                    + (IF row.at = w /\ row.status = "COMPLETED" THEN row.delta ELSE 0)
PROOF
<1>1. adjustment \in [Adjustment -> AdjustmentRow]
    BY DocumentTypes
<1>2. /\ adjustment' \in [Adjustment -> AdjustmentRow] /\ adjustment'[a] = row
      /\ \A b \in Adjustment : b # a => adjustment'[b] = adjustment[b]
    BY <1>1
<1> DEFINE Known == {b \in Adjustment : adjustment[b].status # "NONE"}
<1>3. IsFiniteSet(Known) /\ IsFiniteSet(Known')
    <2>1. IsFiniteSet(Known)
        BY DEF DocumentsInv, DocumentsFinite
    <2>2. Known' = Known \cup {a}
        BY <1>2
    <2> HIDE DEF Known
    <2> QED BY <2>1, <2>2, FS_AddElement
<1>4. \A b \in Adjustment : Deltas[b] \in Int /\ Deltas'[b] \in Int
    BY <1>1, <1>2 DEF Deltas, AdjustmentRow
<1>5. \A b \in Adjustment : b # a => Deltas'[b] = Deltas[b]
    BY <1>2 DEF Deltas
<1>6. Deltas'[a] = row.delta
    BY <1>2 DEF Deltas
<1>7. ASSUME NEW w
      PROVE  AdjustedOf(w)' = AdjustedOf(w)
                + (IF row.at = w /\ row.status = "COMPLETED" THEN row.delta ELSE 0)
    <2> DEFINE S == Documents!AdjustedAt(w)
               T == Documents!AdjustedAt(w)'
               gained == IF a \in T THEN Deltas'[a] ELSE 0
    <2>1. S \subseteq Known /\ S \subseteq Adjustment /\ T \subseteq Adjustment /\ a \notin S
        BY DEF Documents!AdjustedAt
    <2>2. S \ {a} = T \ {a} /\ (a \in T <=> row.at = w /\ row.status = "COMPLETED")
        BY <1>2 DEF Documents!AdjustedAt
    <2>3. IsFiniteSet(S)
        BY <1>3, <2>1, FS_Subset
    <2> HIDE DEF S, T, Known
    <2>4. /\ \A y \in S : Deltas[y] \in Int /\ (y # a => Deltas'[y] = Deltas[y])
          /\ \A y \in T : Deltas'[y] \in Int
        BY <1>4, <1>5, <2>1
    <2> HIDE DEF gained
    <2>5. 0 = (IF a \in S THEN Deltas[a] ELSE 0) /\ gained = (IF a \in T THEN Deltas'[a] ELSE 0)
        BY <2>1 DEF gained
    <2>6. SumFunctionOnSet(Deltas', T) = SumFunctionOnSet(Deltas, S) - 0 + gained
        BY <2>2, <2>3, <2>4, <2>5, SumUpdate
    <2>7. SumFunctionOnSet(Deltas, S) \in Int
        BY <2>3, <2>4, SumType
    <2>8. SumFunctionOnSet(Deltas', T) = SumFunctionOnSet(Deltas, S) + gained
        BY <2>6, <2>7
    <2>9. AdjustedOf(w)' = AdjustedOf(w) + gained
        BY <2>8 DEF AdjustedOf, S, T
    <2> QED BY <1>6, <2>2, <2>9 DEF gained
<1> QED BY <1>2, <1>3, <1>7

(* A step that leaves some of the documents alone.                          *)
LEMMA SameDocuments ==
    /\ UNCHANGED transfer => \A w : LeftOf(w)' = LeftOf(w) /\ ArrivedOf(w)' = ArrivedOf(w)
    /\ UNCHANGED count => \A w : CountedOf(w)' = CountedOf(w)
    /\ UNCHANGED adjustment => \A w : AdjustedOf(w)' = AdjustedOf(w)
BY DEF LeftOf, ArrivedOf, CountedOf, AdjustedOf, Carried, Differences, Deltas,
       Documents!Left, Documents!Arrived, Documents!CountedAt, Documents!AdjustedAt

LEMMA ExplainedSums ==
    /\ Documents!StockExplained <=> \A w \in Warehouse :
        cell[w].quantity = bought[w] - taken[w] - LeftOf(w) + ArrivedOf(w) + CountedOf(w) + AdjustedOf(w)
    /\ Documents!StockExplained' <=> \A w \in Warehouse :
        cell'[w].quantity = bought'[w] - taken'[w] - LeftOf(w)' + ArrivedOf(w)' + CountedOf(w)'
                            + AdjustedOf(w)'
PROOF
<1>1. \A f, S : Documents!SumFunctionOnSet(f, S) = SumFunctionOnSet(f, S)
    BY SameSums
<1> QED BY <1>1 DEF Documents!StockExplained, LeftOf, ArrivedOf, CountedOf, AdjustedOf,
                    Carried, Differences, Deltas

LEMMA SumTypes ==
    ASSUME DocumentsInv, NEW w
    PROVE  LeftOf(w) \in Int /\ ArrivedOf(w) \in Int /\ CountedOf(w) \in Int /\ AdjustedOf(w) \in Int
PROOF
<1>1. /\ IsFiniteSet({t \in Transfer : transfer[t].status # "NONE"})
      /\ IsFiniteSet({c \in Count : count[c].status # "NONE"})
      /\ IsFiniteSet({a \in Adjustment : adjustment[a].status # "NONE"})
    BY DEF DocumentsInv, DocumentsFinite
<1>2. /\ Documents!Left(w) \subseteq {t \in Transfer : transfer[t].status # "NONE"}
      /\ Documents!Arrived(w) \subseteq {t \in Transfer : transfer[t].status # "NONE"}
      /\ Documents!CountedAt(w) \subseteq {c \in Count : count[c].status # "NONE"}
      /\ Documents!AdjustedAt(w) \subseteq {a \in Adjustment : adjustment[a].status # "NONE"}
    BY DEF Documents!Left, Documents!Arrived, Documents!CountedAt, Documents!AdjustedAt
<1>3. /\ IsFiniteSet(Documents!Left(w)) /\ IsFiniteSet(Documents!Arrived(w))
      /\ IsFiniteSet(Documents!CountedAt(w)) /\ IsFiniteSet(Documents!AdjustedAt(w))
    BY <1>1, <1>2, FS_Subset
<1>4. /\ \A t \in Documents!Left(w) : Carried[t] \in Int
      /\ \A t \in Documents!Arrived(w) : Carried[t] \in Int
    BY <1>2, DocumentTypes, RowFields DEF Carried
<1>5. /\ \A c \in Documents!CountedAt(w) : Differences[c] \in Int
      /\ \A a \in Documents!AdjustedAt(w) : Deltas[a] \in Int
    BY <1>2, DocumentTypes DEF Differences, Deltas, CountRow, AdjustmentRow
<1>6. LeftOf(w) \in Int
    BY <1>3, <1>4, SumType DEF LeftOf
<1>7. ArrivedOf(w) \in Int
    BY <1>3, <1>4, SumType DEF ArrivedOf
<1>8. CountedOf(w) \in Int
    BY <1>3, <1>5, SumType DEF CountedOf
<1>9. AdjustedOf(w) \in Int
    BY <1>3, <1>5, SumType DEF AdjustedOf
<1> QED BY <1>6, <1>7, <1>8, <1>9

(* What stays true of the documents that a step leaves alone.               *)
LEMMA PartsStay ==
    ASSUME DocumentsInv
    PROVE  /\ UNCHANGED transfer => TransferHistory'
           /\ UNCHANGED <<transfer, call>> => SeenBefore'
           /\ UNCHANGED <<count, adjustment>> => DocumentsPlaced'
           /\ UNCHANGED <<transfer, count, adjustment>> => DocumentsFinite'
PROOF
<1>1. UNCHANGED transfer => TransferHistory'
    BY DEF DocumentsInv, TransferHistory
<1>2. UNCHANGED <<transfer, call>> => SeenBefore'
    BY DEF DocumentsInv, SeenBefore
<1>3. UNCHANGED <<count, adjustment>> => DocumentsPlaced'
    BY DEF DocumentsInv, DocumentsPlaced
<1>4. UNCHANGED <<transfer, count, adjustment>> => DocumentsFinite'
    BY DEF DocumentsInv, DocumentsFinite
<1> QED BY <1>1, <1>2, <1>3, <1>4

LEMMA TypesNext ==
    ASSUME cell' \in [Warehouse -> Cell], transfer' \in [Transfer -> TransferRow],
           call' \in [Call -> CallRow], count' \in [Count -> CountRow],
           adjustment' \in [Adjustment -> AdjustmentRow],
           bought' \in [Warehouse -> Nat], taken' \in [Warehouse -> Nat]
    PROVE  Documents!TypeOK'
BY DEF Documents!TypeOK, Cell, TransferRow, CallRow, CountRow, AdjustmentRow

(* The stored average is an integer whatever is divided by whatever but 0.  *)
LEMMA RoundedType ==
    ASSUME NEW n \in Int, NEW d \in Int, d # 0
    PROVE  Documents!RoundedQuotient(n, d) \in Int
PROOF
<1> DEFINE num == IF d < 0 THEN -n ELSE n
           den == IF d < 0 THEN -d ELSE d
<1>1. num \in Int /\ den \in Int /\ den > 0
    OBVIOUS
<1>2. (2 * num + den) \div (2 * den) \in Int
    <2>1. 2 * num + den \in Int /\ 2 * den \in Int /\ 2 * den > 0
        BY <1>1
    <2> QED BY <2>1, SMT
<1>3. (den - 2 * num) \div (2 * den) \in Int
    <2>1. den - 2 * num \in Int /\ 2 * den \in Int /\ 2 * den > 0
        BY <1>1
    <2> QED BY <2>1, SMT
<1> QED BY <1>1, <1>2, <1>3 DEF Documents!RoundedQuotient

(* A movement changes one cell. *)
LEMMA Moved ==
    ASSUME DocumentsInv, NEW w \in Warehouse, NEW delta \in Int, NEW cost \in Int \cup {NoCost},
           Documents!Move(w, delta, cost)
    PROVE  /\ cell' \in [Warehouse -> Cell]
           /\ cell[w].quantity \in Int /\ cell[w].avgCost \in Int
           /\ cell'[w].quantity = cell[w].quantity + delta
           /\ cell'[w].avgCost
                = Documents!AverageAfter(cell[w].quantity, cell[w].avgCost, delta, cost)
           /\ \A v \in Warehouse : v # w => cell'[v] = cell[v]
PROOF
<1> DEFINE before == cell[w].quantity
           average == cell[w].avgCost
           after == Documents!AverageAfter(before, average, delta, cost)
<1>1. cell \in [Warehouse -> Cell] /\ before \in Int /\ average \in Int
    BY DocumentTypes DEF Cell
<1>2. after \in Int
    <2>1. CASE delta > 0 /\ cost # NoCost /\ before + delta # 0
        <3>1. before * average + delta * cost \in Int /\ before + delta \in Int
            BY <1>1, <2>1
        <3> QED BY <2>1, <3>1, RoundedType DEF Documents!AverageAfter, Documents!AfterQuantity
    <2>2. CASE ~(delta > 0 /\ cost # NoCost /\ before + delta # 0)
        BY <1>1, <2>2 DEF Documents!AverageAfter, Documents!AfterQuantity
    <2> QED BY <2>1, <2>2
<1>3. cell' = [cell EXCEPT ![w] = [quantity |-> before + delta, avgCost |-> after]]
    BY <1>1 DEF Documents!Move, Documents!AfterQuantity
<1> HIDE DEF after
<1>4. [quantity |-> before + delta, avgCost |-> after] \in Cell
    BY <1>1, <1>2 DEF Cell
<1>5. /\ cell' \in [Warehouse -> Cell] /\ cell'[w] = [quantity |-> before + delta, avgCost |-> after]
      /\ \A v \in Warehouse : v # w => cell'[v] = cell[v]
    BY <1>1, <1>3, <1>4
<1> QED BY <1>1, <1>5 DEF after

(* The row that ClaimAs writes. *)
ClaimedRow(r, status, cost) ==
    [transfer[call[r].of] EXCEPT !.status = status, !.version = transfer[call[r].of].version + 1,
                                 !.unitCost = cost]

(* What the first statement of approve, receive and cancel settles: the     *)
(* transfer is as the service has seen it.                                  *)
ClaimMade(r, expected, status, cost) ==
    /\ call[r].pc = "claim"
    /\ expected \in {"PENDING", "APPROVED"} /\ Documents!Claimed(r, expected)
    /\ status \in {"APPROVED", "RECEIVED", "CANCELLED"} /\ cost \in Int \cup {NoCost}
    /\ Documents!ClaimAs(r, status, cost)
    /\ status = "APPROVED" => expected = "PENDING" /\ cost \in Int

ClaimSettled(t, row, r, expected, status, cost) ==
    /\ t \in Transfer /\ transfer[t].status = expected /\ call[r].seen = transfer[t]
    /\ transfer[t].from \in Warehouse /\ transfer[t].to \in Warehouse
    /\ transfer[t].quantity \in Nat \ {0}
    /\ transfer' = [transfer EXCEPT ![t] = row] /\ row \in TransferRow
    /\ row.status = status /\ row.from = transfer[t].from /\ row.to = transfer[t].to
    /\ row.quantity = transfer[t].quantity /\ row.unitCost = cost
    /\ call' \in [Call -> CallRow] /\ TransferHistory' /\ SeenBefore' /\ DocumentsPlaced'
    /\ DocumentsFinite'
    /\ UNCHANGED <<count, adjustment, bought, taken>>

LEMMA ClaimSettles ==
    ASSUME DocumentsInv, NEW r \in Call, NEW expected, NEW status, NEW cost,
           ClaimMade(r, expected, status, cost),
           NEW t, t = call[r].of, NEW row, row = ClaimedRow(r, status, cost)
    PROVE  ClaimSettled(t, row, r, expected, status, cost)
PROOF
<1>0. /\ call[r].pc = "claim"
      /\ expected \in {"PENDING", "APPROVED"} /\ Documents!Claimed(r, expected)
      /\ status \in {"APPROVED", "RECEIVED", "CANCELLED"} /\ cost \in Int \cup {NoCost}
      /\ Documents!ClaimAs(r, status, cost)
      /\ status = "APPROVED" => expected = "PENDING" /\ cost \in Int
    BY DEF ClaimMade
<1> USE <1>0
<1>1. transfer \in [Transfer -> TransferRow] /\ call \in [Call -> CallRow]
    BY DocumentTypes
<1>2. /\ t \in Transfer /\ transfer[t] \in TransferRow
      /\ transfer[t].status = expected /\ transfer[t].version = call[r].version
    BY <1>1 DEF DocumentsInv, SeenBefore, Documents!Claimed
<1>3. call[r].seen = transfer[t]
    <2>1. /\ call[r].version <= call[r].seen.version
          /\ call[r].seen.version <= transfer[t].version
          /\ call[r].seen.version = transfer[t].version => call[r].seen = transfer[t]
        BY DEF DocumentsInv, SeenBefore
    <2>2. call[r].seen.version \in Int /\ transfer[t].version \in Int
        BY <1>1, <1>2, RowFields
    <2> QED BY <1>2, <2>1, <2>2
<1>4. /\ transfer[t].from \in Warehouse /\ transfer[t].to \in Warehouse
      /\ transfer[t].quantity \in Nat \ {0}
      /\ transfer[t].version = IF expected = "PENDING" THEN 1 ELSE 2
    BY <1>2, RowFields DEF DocumentsInv, TransferHistory
<1>5. /\ row \in TransferRow
      /\ row.status = status /\ row.from = transfer[t].from /\ row.to = transfer[t].to
      /\ row.quantity = transfer[t].quantity /\ row.unitCost = cost
      /\ row.version = transfer[t].version + 1
    <2>1. transfer[t].version + 1 \in 1..3
        BY <1>4
    <2> QED BY <1>2, <2>1 DEF ClaimedRow, TransferRow, Documents!TransferRow, Documents!TransferStatus
<1>6. /\ transfer' = [transfer EXCEPT ![t] = row]
      /\ call' = [call EXCEPT ![r].pc = "done"]
      /\ UNCHANGED <<count, adjustment, bought, taken>>
    BY DEF Documents!ClaimAs, ClaimedRow
<1>7. /\ call' \in [Call -> CallRow] /\ call'[r].pc = "done"
      /\ \A q \in Call : q # r => call'[q] = call[q]
    BY <1>1, <1>6 DEF CallRow
<1>8. /\ transfer' \in [Transfer -> TransferRow] /\ transfer'[t] = row
      /\ \A u \in Transfer : u # t => transfer'[u] = transfer[u]
    BY <1>1, <1>2, <1>5, <1>6
<1>9. TransferHistory'
    <2> SUFFICES ASSUME NEW u \in Transfer
                 PROVE  /\ transfer'[u].status # "NONE" =>
                            /\ transfer'[u].from \in Warehouse /\ transfer'[u].to \in Warehouse
                            /\ transfer'[u].quantity > 0
                        /\ transfer'[u].status \in {"NONE", "PENDING"} => transfer'[u].version = 1
                        /\ transfer'[u].status = "APPROVED" =>
                            transfer'[u].version = 2 /\ transfer'[u].unitCost \in Int
        BY DEF TransferHistory
    <2>1. CASE u = t
        <3>1. status = "APPROVED" => row.version = 2 /\ row.unitCost \in Int
            BY <1>4, <1>5
        <3>2. row.status \notin {"NONE", "PENDING"} /\ row.quantity > 0
            BY <1>4, <1>5
        <3>3. transfer'[u] = row /\ row.from \in Warehouse /\ row.to \in Warehouse
            BY <1>4, <1>5, <1>8, <2>1
        <3> QED BY <1>5, <3>1, <3>2, <3>3
    <2>2. CASE u # t
        BY <1>8, <2>2 DEF DocumentsInv, TransferHistory
    <2> QED BY <2>1, <2>2
<1>10. SeenBefore'
    <2> SUFFICES ASSUME NEW q \in Call, call'[q].pc = "claim"
                 PROVE  /\ call'[q].of \in Transfer /\ call'[q].seen.status # "NONE"
                        /\ call'[q].version <= call'[q].seen.version
                        /\ call'[q].seen.version <= transfer'[call'[q].of].version
                        /\ call'[q].seen.version = transfer'[call'[q].of].version =>
                                call'[q].seen = transfer'[call'[q].of]
                        /\ call'[q].op = "cancel" => call'[q].seen.status \in {"PENDING", "APPROVED"}
        BY DEF SeenBefore
    <2>1. q # r /\ call'[q] = call[q] /\ call[q].pc = "claim"
        BY <1>7
    <2>2. /\ call[q].of \in Transfer /\ call[q].seen.status # "NONE"
          /\ call[q].version <= call[q].seen.version
          /\ call[q].seen.version <= transfer[call[q].of].version
          /\ call[q].seen.version = transfer[call[q].of].version =>
                                call[q].seen = transfer[call[q].of]
          /\ call[q].op = "cancel" => call[q].seen.status \in {"PENDING", "APPROVED"}
        BY <2>1 DEF DocumentsInv, SeenBefore
    <2>3. CASE call[q].of # t
        BY <1>8, <2>1, <2>2, <2>3
    <2>4. CASE call[q].of = t
        <3>1. /\ call[q].seen.version \in Int /\ transfer[t].version \in Int
              /\ transfer'[t].version = transfer[t].version + 1
            BY <1>1, <1>2, <1>5, <1>8, RowFields
        <3>2. call[q].seen.version < transfer'[t].version
            BY <2>2, <2>4, <3>1
        <3>3. call'[q].of = t /\ call[q].seen.version <= transfer'[t].version
            BY <2>1, <2>4, <3>1, <3>2
        <3>4. call[q].seen.version # transfer'[t].version
            BY <3>1, <3>2
        <3> QED BY <2>1, <2>2, <3>3, <3>4
    <2> QED BY <2>3, <2>4
<1>11. DocumentsPlaced'
    BY <1>6, PartsStay
<1>12. DocumentsFinite'
    <2>1. row.status # "NONE"
        BY <1>5
    <2>2. IsFiniteSet({u \in Transfer : transfer[u].status # "NONE"})'
        BY <1>2, <1>5, <1>6, <2>1, TransferChanges
    <2> QED BY <1>6, <2>2 DEF DocumentsInv, DocumentsFinite
<1> QED BY <1>2, <1>3, <1>4, <1>5, <1>6, <1>7, <1>9, <1>10, <1>11, <1>12 DEF ClaimSettled

---------------------------------------------------------------------------
(* Averages between prices *)

PricesInv == NeverNegative /\ Documents!AverageWithinPrices

(* A weighted mean of two costs is between the lower and the higher one,    *)
(* rounded or not.                                                          *)
LEMMA MeanBetween ==
    ASSUME NEW q \in Nat, NEW n \in Nat \ {0}, NEW a \in Int, NEW c \in Int,
           NEW low \in Nat, NEW high \in Nat,
           q > 0 => low <= a /\ a <= high, low <= c, c <= high
    PROVE  Documents!RoundedQuotient(q * a + n * c, q + n) \in low .. high
PROOF
<1> DEFINE d == q + n
           m == q * a + n * c
<1>1. d \in Nat \ {0} /\ m \in Int
    OBVIOUS
<1>2. low * d <= m /\ m <= high * d
    <2>1. low * q <= q * a /\ q * a <= high * q
        <3>1. CASE q = 0
            BY <3>1
        <3>2. CASE q > 0
            <4>1. \A x, y, z \in Int : x >= 0 /\ y <= z => y * x <= x * z
                OBVIOUS
            <4>2. \A x, y, z \in Int : x >= 0 /\ y <= z => x * y <= z * x
                OBVIOUS
            <4> QED BY <3>2, <4>1, <4>2
        <3> QED BY <3>1, <3>2
    <2>2. low * n <= n * c /\ n * c <= high * n
        <3>1. \A x, y, z \in Int : x >= 0 /\ y <= z => y * x <= x * z
            OBVIOUS
        <3>2. \A x, y, z \in Int : x >= 0 /\ y <= z => x * y <= z * x
            OBVIOUS
        <3> QED BY <3>1, <3>2
    <2>3. low * d = low * q + low * n /\ high * d = high * q + high * n
        OBVIOUS
    <2>4. low * q \in Int /\ low * n \in Int /\ high * q \in Int /\ high * n \in Int
          /\ q * a \in Int /\ n * c \in Int
        OBVIOUS
    <2> QED BY <2>1, <2>2, <2>3, <2>4
<1> HIDE DEF d, m
<1>3. m >= 0
    <2>1. low * d >= 0 /\ low * d \in Int
        BY <1>1
    <2> QED BY <1>1, <1>2, <2>1
<1>4. Documents!RoundedQuotient(m, d) = (2 * m + d) \div (2 * d)
    BY <1>1, <1>3 DEF Documents!RoundedQuotient
<1>5. \A k, e, b \in Int : e > 0 /\ b * e <= k => b <= k \div e
    OBVIOUS
<1>6. \A k, e, b \in Int : e > 0 /\ k < (b + 1) * e => k \div e <= b
    OBVIOUS
<1>7. low * (2 * d) <= 2 * m + d /\ 2 * m + d < (high + 1) * (2 * d)
    <2>1. low * (2 * d) = 2 * (low * d) /\ (high + 1) * (2 * d) = 2 * (high * d) + 2 * d
        BY <1>1
    <2>2. low * d \in Int /\ high * d \in Int
        BY <1>1
    <2> QED BY <1>1, <1>2, <2>1, <2>2
<1>8. 2 * d \in Int /\ 2 * d > 0 /\ 2 * m + d \in Int
    BY <1>1
<1>9. low <= (2 * m + d) \div (2 * d) /\ (2 * m + d) \div (2 * d) <= high
    BY <1>5, <1>6, <1>7, <1>8
<1>10. (2 * m + d) \div (2 * d) \in Int
    BY <1>8
<1> QED BY <1>4, <1>9, <1>10 DEF d, m

(* A movement keeps the cells between prices, if what comes in has a cost   *)
(* between prices and no more goes out than is there.                       *)
LEMMA PricesMove ==
    ASSUME DocumentsInv, PricesInv, Documents!CostKnown, NEW w \in Warehouse, NEW delta \in Int,
           NEW cost \in Int \cup {NoCost}, Documents!Move(w, delta, cost),
           cell[w].quantity + delta >= 0, delta > 0 => Documents!BetweenPrices(cost),
           NEW v \in Warehouse
    PROVE  /\ cell'[v].quantity >= 0
           /\ cell'[v].quantity > 0 => Documents!BetweenPrices(cell'[v].avgCost)
PROOF
<1> DEFINE q == cell[w].quantity
           a == cell[w].avgCost
<1>1. /\ q \in Int /\ a \in Int /\ cell'[w].quantity = q + delta
      /\ cell'[w].avgCost = Documents!AverageAfter(q, a, delta, cost)
      /\ v # w => cell'[v] = cell[v]
    BY Moved
<1>2. /\ \A u \in Warehouse : cell[u].quantity >= 0
      /\ \A u \in Warehouse : cell[u].quantity > 0 => Documents!BetweenPrices(cell[u].avgCost)
    BY DEF PricesInv, NeverNegative, Documents!AverageWithinPrices
<1>3. q >= 0 /\ (q > 0 => Documents!BetweenPrices(a))
    BY <1>2
<1>4. CASE v # w
    BY <1>1, <1>2, <1>4
<1>5. CASE v = w /\ delta <= 0
    <2>1. cell'[v].avgCost = a
        BY <1>1, <1>5 DEF Documents!AverageAfter
    <2>2. cell'[v].quantity = q + delta /\ (q + delta > 0 => q > 0)
        BY <1>1, <1>5
    <2> QED BY <1>3, <2>1, <2>2
<1>6. CASE v = w /\ delta > 0
    <2>1. PICK low2, high2 \in Price : cost \in low2 .. high2
        BY <1>6 DEF Documents!BetweenPrices
    <2>2. low2 \in Nat /\ high2 \in Nat /\ cost \in Int /\ cost # NoCost /\ low2 <= cost /\ cost <= high2
        BY <2>1, ConstantTypes
    <2>3. /\ q \in Nat /\ delta \in Nat \ {0} /\ q + delta # 0
          /\ cell'[v].avgCost = Documents!RoundedQuotient(q * a + delta * cost, q + delta)
        BY <1>1, <1>3, <1>6, <2>2 DEF Documents!AverageAfter, Documents!AfterQuantity
    <2>4. \E low, high \in Price : /\ (q > 0 => low <= a /\ a <= high)
                                   /\ low <= cost /\ cost <= high
        <3>1. CASE q = 0
            BY <2>1, <2>2, <3>1
        <3>2. CASE q > 0
            <4>1. PICK low1, high1 \in Price : a \in low1 .. high1
                BY <1>3, <3>2 DEF Documents!BetweenPrices
            <4>2. low1 \in Nat /\ high1 \in Nat /\ low1 <= a /\ a <= high1
                BY <4>1, ConstantTypes
            <4>3. \E low \in {low1, low2} : low <= a /\ low <= cost
                BY <1>1, <2>2, <4>2
            <4>4. \E high \in {high1, high2} : a <= high /\ cost <= high
                BY <1>1, <2>2, <4>2
            <4> QED BY <2>1, <4>1, <4>3, <4>4
        <3> QED BY <1>3, <1>1, <3>1, <3>2
    <2>5. PICK low, high \in Price : /\ (q > 0 => low <= a /\ a <= high)
                                     /\ low <= cost /\ cost <= high
        BY <2>4
    <2>6. low \in Nat /\ high \in Nat
        BY <2>5, ConstantTypes
    <2>7. Documents!RoundedQuotient(q * a + delta * cost, q + delta) \in low .. high
        BY <1>1, <2>2, <2>3, <2>5, <2>6, MeanBetween
    <2>8. cell'[v].avgCost \in low .. high
        BY <2>3, <2>7
    <2>9. Documents!BetweenPrices(cell'[v].avgCost)
        BY <2>5, <2>8 DEF Documents!BetweenPrices
    <2>10. cell'[v].quantity >= 0
        BY <1>1, <1>6
    <2> QED BY <2>9, <2>10
<1>7. delta <= 0 \/ delta > 0
    OBVIOUS
<1> QED BY <1>4, <1>5, <1>6, <1>7

LEMMA PricesAfter ==
    ASSUME DocumentsInv, PricesInv, Documents!CostKnown' => Documents!CostKnown,
           Documents!CostKnown' =>
                \A v \in Warehouse :
                    /\ cell'[v].quantity >= 0
                    /\ cell'[v].quantity > 0 => Documents!BetweenPrices(cell'[v].avgCost),
           Documents!CostKnown' =>
                \A t \in Transfer : transfer'[t].status = "APPROVED" =>
                    transfer'[t] = transfer[t] \/ Documents!BetweenPrices(transfer'[t].unitCost)
    PROVE  PricesInv'
PROOF
<1>1. NeverNegative'
    BY DEF NeverNegative
<1>2. Documents!AverageWithinPrices'
    BY DEF PricesInv, Documents!AverageWithinPrices
<1> QED BY <1>1, <1>2 DEF PricesInv

(* The stock is explained after a movement of what the documents change by. *)
LEMMA ExplainedMove ==
    ASSUME DocumentsInv, Documents!StockExplained, NEW w \in Warehouse, NEW delta \in Int,
           NEW cost \in Int \cup {NoCost}, Documents!Move(w, delta, cost),
           \A v \in Warehouse :
                bought'[v] - taken'[v] - LeftOf(v)' + ArrivedOf(v)' + CountedOf(v)' + AdjustedOf(v)'
                = bought[v] - taken[v] - LeftOf(v) + ArrivedOf(v) + CountedOf(v) + AdjustedOf(v)
                  + (IF v = w THEN delta ELSE 0)
    PROVE  Documents!StockExplained'
PROOF
<1> SUFFICES ASSUME NEW v \in Warehouse
             PROVE  cell'[v].quantity = bought'[v] - taken'[v] - LeftOf(v)' + ArrivedOf(v)'
                                        + CountedOf(v)' + AdjustedOf(v)'
    BY ExplainedSums
<1>1. cell[v].quantity = bought[v] - taken[v] - LeftOf(v) + ArrivedOf(v) + CountedOf(v) + AdjustedOf(v)
    BY ExplainedSums
<1>2. cell'[v].quantity = cell[v].quantity + (IF v = w THEN delta ELSE 0)
    <2>1. cell[v].quantity \in Int
        BY DocumentTypes DEF Cell
    <2>2. cell'[w].quantity = cell[w].quantity + delta /\ (v # w => cell'[v] = cell[v])
        BY Moved
    <2> QED BY <2>1, <2>2
<1> QED BY <1>1, <1>2

(* What every step of StockDocuments keeps. *)
Kept ==
    /\ DocumentsInv'
    /\ Documents!StockExplained => Documents!StockExplained'
    /\ ~AllowNegative /\ PricesInv => PricesInv'

LEMMA BuyStep ==
    ASSUME DocumentsInv, NEW w \in Warehouse, NEW price \in Price, Documents!Buy(w, price)
    PROVE  Kept
PROOF
<1>1. /\ Documents!Move(w, 1, price) /\ bought' = [bought EXCEPT ![w] = bought[w] + 1]
      /\ UNCHANGED <<transfer, call, count, adjustment, taken>>
    BY DEF Documents!Buy
<1>2. /\ bought \in [Warehouse -> Nat] /\ taken \in [Warehouse -> Nat]
      /\ price \in Nat /\ price \in Int \cup {NoCost}
      /\ call \in [Call -> CallRow] /\ count \in [Count -> CountRow]
      /\ transfer \in [Transfer -> TransferRow] /\ adjustment \in [Adjustment -> AdjustmentRow]
    BY DocumentTypes, ConstantTypes
<1>3. cell' \in [Warehouse -> Cell] /\ cell[w].quantity \in Int
    BY <1>1, <1>2, Moved
<1>4. bought' \in [Warehouse -> Nat]
    BY <1>1, <1>2
<1>5. DocumentsInv'
    <2>1. Documents!TypeOK'
        BY <1>1, <1>2, <1>3, <1>4, TypesNext
    <2>2. TransferHistory' /\ SeenBefore' /\ DocumentsPlaced' /\ DocumentsFinite'
        BY <1>1, PartsStay
    <2> QED BY <2>1, <2>2 DEF DocumentsInv
<1>6. ASSUME Documents!StockExplained PROVE Documents!StockExplained'
    <2>1. ASSUME NEW v \in Warehouse
          PROVE  bought'[v] - taken'[v] - LeftOf(v)' + ArrivedOf(v)' + CountedOf(v)' + AdjustedOf(v)'
                 = bought[v] - taken[v] - LeftOf(v) + ArrivedOf(v) + CountedOf(v) + AdjustedOf(v)
                   + (IF v = w THEN 1 ELSE 0)
        <3>1. /\ LeftOf(v)' = LeftOf(v) /\ ArrivedOf(v)' = ArrivedOf(v)
              /\ CountedOf(v)' = CountedOf(v) /\ AdjustedOf(v)' = AdjustedOf(v)
            BY <1>1, SameDocuments
        <3>2. LeftOf(v) \in Int /\ ArrivedOf(v) \in Int /\ CountedOf(v) \in Int /\ AdjustedOf(v) \in Int
            BY SumTypes
        <3>3. bought'[v] = bought[v] + (IF v = w THEN 1 ELSE 0) /\ taken'[v] = taken[v]
            BY <1>1, <1>2
        <3> QED BY <1>2, <3>1, <3>2, <3>3
    <2> QED BY <1>1, <1>2, <1>6, <2>1, ExplainedMove
<1>7. ASSUME PricesInv PROVE PricesInv'
    <2>1. Documents!CostKnown' <=> Documents!CostKnown
        BY <1>1 DEF Documents!CostKnown
    <2>2. ASSUME Documents!CostKnown, NEW v \in Warehouse
          PROVE  /\ cell'[v].quantity >= 0
                 /\ cell'[v].quantity > 0 => Documents!BetweenPrices(cell'[v].avgCost)
        <3>1. Documents!BetweenPrices(price)
            <4>1. price \in price .. price
                BY <1>2
            <4> QED BY <4>1 DEF Documents!BetweenPrices
        <3>2. cell[w].quantity + 1 >= 0
            BY <1>3, <1>7, <2>2 DEF PricesInv, NeverNegative
        <3> QED BY <1>1, <1>2, <1>7, <2>2, <3>1, <3>2, PricesMove
    <2> QED BY <1>1, <1>7, <2>1, <2>2, PricesAfter
<1> QED BY <1>5, <1>6, <1>7 DEF Kept

LEMMA SellStep ==
    ASSUME DocumentsInv, NEW w \in Warehouse, Documents!Sell(w)
    PROVE  Kept
PROOF
<1>1. /\ Documents!Move(w, -1, NoCost) /\ taken' = [taken EXCEPT ![w] = taken[w] + 1]
      /\ Documents!Enough(w, -1)
      /\ UNCHANGED <<transfer, call, count, adjustment, bought>>
    BY DEF Documents!Sell
<1>2. /\ bought \in [Warehouse -> Nat] /\ taken \in [Warehouse -> Nat] /\ -1 \in Int
      /\ NoCost \in Int \cup {NoCost}
      /\ call \in [Call -> CallRow] /\ count \in [Count -> CountRow]
      /\ transfer \in [Transfer -> TransferRow] /\ adjustment \in [Adjustment -> AdjustmentRow]
    BY DocumentTypes, ConstantTypes
<1>3. cell' \in [Warehouse -> Cell] /\ cell[w].quantity \in Int
    BY <1>1, <1>2, Moved
<1>4. taken' \in [Warehouse -> Nat]
    BY <1>1, <1>2
<1>5. DocumentsInv'
    <2>1. Documents!TypeOK'
        BY <1>1, <1>2, <1>3, <1>4, TypesNext
    <2>2. TransferHistory' /\ SeenBefore' /\ DocumentsPlaced' /\ DocumentsFinite'
        BY <1>1, PartsStay
    <2> QED BY <2>1, <2>2 DEF DocumentsInv
<1>6. ASSUME Documents!StockExplained PROVE Documents!StockExplained'
    <2>1. ASSUME NEW v \in Warehouse
          PROVE  bought'[v] - taken'[v] - LeftOf(v)' + ArrivedOf(v)' + CountedOf(v)' + AdjustedOf(v)'
                 = bought[v] - taken[v] - LeftOf(v) + ArrivedOf(v) + CountedOf(v) + AdjustedOf(v)
                   + (IF v = w THEN -1 ELSE 0)
        <3>1. /\ LeftOf(v)' = LeftOf(v) /\ ArrivedOf(v)' = ArrivedOf(v)
              /\ CountedOf(v)' = CountedOf(v) /\ AdjustedOf(v)' = AdjustedOf(v)
            BY <1>1, SameDocuments
        <3>2. LeftOf(v) \in Int /\ ArrivedOf(v) \in Int /\ CountedOf(v) \in Int /\ AdjustedOf(v) \in Int
            BY SumTypes
        <3>3. taken'[v] = taken[v] + (IF v = w THEN 1 ELSE 0) /\ bought'[v] = bought[v]
            BY <1>1, <1>2
        <3> QED BY <1>2, <3>1, <3>2, <3>3
    <2> QED BY <1>1, <1>2, <1>6, <2>1, ExplainedMove
<1>7. ASSUME ~AllowNegative, PricesInv PROVE PricesInv'
    <2>1. Documents!CostKnown' <=> Documents!CostKnown
        BY <1>1 DEF Documents!CostKnown
    <2>2. ASSUME Documents!CostKnown, NEW v \in Warehouse
          PROVE  /\ cell'[v].quantity >= 0
                 /\ cell'[v].quantity > 0 => Documents!BetweenPrices(cell'[v].avgCost)
        <3>1. cell[w].quantity + (-1) >= 0
            BY <1>1, <1>7 DEF Documents!Enough, Documents!AfterQuantity
        <3>2. ~(-1 > 0)
            OBVIOUS
        <3> QED BY <1>1, <1>2, <1>7, <2>2, <3>1, <3>2, PricesMove
    <2> QED BY <1>1, <1>7, <2>1, <2>2, PricesAfter
<1> QED BY <1>5, <1>6, <1>7 DEF Kept

LEMMA CreateTransferStep ==
    ASSUME DocumentsInv, NEW t \in Transfer, NEW from \in Warehouse, NEW to \in Warehouse,
           NEW n \in Quantity, Documents!CreateTransfer(t, from, to, n)
    PROVE  Kept
PROOF
<1> DEFINE row == [Documents!NoTransfer EXCEPT !.status = "PENDING", !.from = from, !.to = to,
                                               !.quantity = n]
<1>1. /\ transfer[t].status = "NONE" /\ transfer' = [transfer EXCEPT ![t] = row]
      /\ UNCHANGED <<cell, call, count, adjustment, bought, taken>>
    BY DEF Documents!CreateTransfer
<1>2. /\ row \in TransferRow /\ row.status = "PENDING" /\ row.from = from /\ row.to = to
      /\ row.version = 1 /\ row.quantity = n /\ n > 0 /\ row.status # "NONE"
    <2>1. n \in Nat \ {0}
        BY ConstantTypes
    <2>2. Documents!NoTransfer \in TransferRow /\ Documents!NoTransfer.version = 1
        BY DEF Documents!NoTransfer, TransferRow, Documents!TransferRow, Documents!TransferStatus
    <2>3. row \in TransferRow
        BY <2>1, <2>2 DEF TransferRow, Documents!TransferRow, Documents!TransferStatus
    <2>4. /\ row.status = "PENDING" /\ row.from = from /\ row.to = to /\ row.quantity = n
          /\ row.version = 1
        BY <2>2 DEF TransferRow, Documents!TransferRow
    <2> QED BY <2>1, <2>3, <2>4
<1> HIDE DEF row
<1>3. /\ transfer' \in [Transfer -> TransferRow] /\ transfer'[t] = row
      /\ \A u \in Transfer : u # t => transfer'[u] = transfer[u]
      /\ IsFiniteSet({u \in Transfer : transfer[u].status # "NONE"})'
      /\ \A w : LeftOf(w)' = LeftOf(w)
               - (IF t \in Documents!Left(w) THEN transfer[t].quantity ELSE 0)
               + (IF row.from = w /\ row.status \in {"APPROVED", "RECEIVED"}
                  THEN row.quantity ELSE 0)
      /\ \A w : ArrivedOf(w)' = ArrivedOf(w)
               - (IF t \in Documents!Arrived(w) THEN transfer[t].quantity ELSE 0)
               + (IF row.to = w /\ row.status = "RECEIVED" THEN row.quantity ELSE 0)
    BY <1>1, <1>2, TransferChanges
<1>4. /\ cell \in [Warehouse -> Cell] /\ call \in [Call -> CallRow] /\ count \in [Count -> CountRow]
      /\ transfer \in [Transfer -> TransferRow]
      /\ adjustment \in [Adjustment -> AdjustmentRow]
      /\ bought \in [Warehouse -> Nat] /\ taken \in [Warehouse -> Nat]
    BY DocumentTypes
<1>5. Documents!TypeOK'
    BY <1>1, <1>3, <1>4, TypesNext
<1>6. TransferHistory'
    BY <1>2, <1>3 DEF DocumentsInv, TransferHistory
<1>7. SeenBefore'
    <2> SUFFICES ASSUME NEW q \in Call, call[q].pc = "claim"
                 PROVE  call[q].of # t
        BY <1>1, <1>3 DEF DocumentsInv, SeenBefore
    <2> SUFFICES ASSUME call[q].of = t
                 PROVE  FALSE
        OBVIOUS
    <2>1. /\ call[q].seen.status # "NONE" /\ call[q].seen.version <= transfer[t].version
          /\ call[q].seen.version = transfer[t].version => call[q].seen = transfer[t]
        BY DEF DocumentsInv, SeenBefore
    <2>2. call[q].seen.version \in 1..3 /\ transfer[t].version = 1
        BY <1>1, <1>4, RowFields DEF DocumentsInv, TransferHistory
    <2> QED BY <1>1, <2>1, <2>2
<1>8. DocumentsPlaced' /\ DocumentsFinite'
    BY <1>1, <1>3, PartsStay DEF DocumentsInv, DocumentsFinite
<1>9. ASSUME Documents!StockExplained PROVE Documents!StockExplained'
    <2> SUFFICES ASSUME NEW w \in Warehouse
                 PROVE  LeftOf(w)' = LeftOf(w) /\ ArrivedOf(w)' = ArrivedOf(w)
                        /\ CountedOf(w)' = CountedOf(w) /\ AdjustedOf(w)' = AdjustedOf(w)
        BY <1>1, <1>9, ExplainedSums
    <2>1. t \notin Documents!Left(w) /\ t \notin Documents!Arrived(w)
        BY <1>1 DEF Documents!Left, Documents!Arrived
    <2>2. LeftOf(w) \in Int /\ ArrivedOf(w) \in Int
        BY SumTypes
    <2>3. LeftOf(w)' = LeftOf(w) - 0 + 0 /\ ArrivedOf(w)' = ArrivedOf(w) - 0 + 0
        BY <1>2, <1>3, <2>1
    <2> QED BY <1>1, <2>2, <2>3, SameDocuments
<1>10. ASSUME PricesInv PROVE PricesInv'
    <2>1. Documents!CostKnown' <=> Documents!CostKnown
        BY <1>1 DEF Documents!CostKnown
    <2>2. Documents!CostKnown => \A v \in Warehouse :
            /\ cell'[v].quantity >= 0
            /\ cell'[v].quantity > 0 => Documents!BetweenPrices(cell'[v].avgCost)
        BY <1>1, <1>10 DEF PricesInv, NeverNegative, Documents!AverageWithinPrices
    <2>3. \A u \in Transfer : transfer'[u].status = "APPROVED" => transfer'[u] = transfer[u]
        BY <1>2, <1>3
    <2> QED BY <1>10, <2>1, <2>2, <2>3, PricesAfter
<1> QED BY <1>5, <1>6, <1>7, <1>8, <1>9, <1>10 DEF DocumentsInv, Kept

(* A call begins, or is refused. *)
LEMMA CallStep ==
    ASSUME DocumentsInv, NEW r \in Call, NEW row \in CallRow, call' = [call EXCEPT ![r] = row],
           UNCHANGED <<cell, transfer, count, adjustment, bought, taken>>,
           row.pc = "claim" =>
                /\ row.of \in Transfer /\ row.seen.status # "NONE"
                /\ row.version <= row.seen.version /\ row.seen = transfer[row.of]
                /\ row.op = "cancel" => row.seen.status \in {"PENDING", "APPROVED"}
    PROVE  Kept
PROOF
<1>1. /\ cell \in [Warehouse -> Cell] /\ call \in [Call -> CallRow] /\ count \in [Count -> CountRow]
      /\ transfer \in [Transfer -> TransferRow]
      /\ adjustment \in [Adjustment -> AdjustmentRow]
      /\ bought \in [Warehouse -> Nat] /\ taken \in [Warehouse -> Nat]
    BY DocumentTypes
<1>2. /\ call' \in [Call -> CallRow] /\ call'[r] = row
      /\ \A q \in Call : q # r => call'[q] = call[q]
    BY <1>1
<1>3. Documents!TypeOK'
    BY <1>1, <1>2, TypesNext
<1>4. SeenBefore'
    <2>1. row.pc = "claim" => transfer[row.of].version \in Int
        BY <1>1, RowFields
    <2>2. row.pc = "claim" => row.seen.version <= transfer[row.of].version
        BY <2>1
    <2> QED BY <1>2, <2>2 DEF DocumentsInv, SeenBefore
<1>5. TransferHistory' /\ DocumentsPlaced' /\ DocumentsFinite'
    BY PartsStay
<1>6. Documents!StockExplained => Documents!StockExplained'
    BY SameDocuments, ExplainedSums
<1>7. PricesInv => PricesInv'
    BY DEF PricesInv, NeverNegative, Documents!AverageWithinPrices, Documents!CostKnown
<1> QED BY <1>3, <1>4, <1>5, <1>6, <1>7 DEF DocumentsInv, Kept

LEMMA ApproveStep ==
    ASSUME DocumentsInv, NEW r \in Call, Documents!Approve(r)
    PROVE  Kept
PROOF
<1> DEFINE t == call[r].of
           old == transfer[t]
           row == ClaimedRow(r, "APPROVED", cell[call[r].seen.from].avgCost)
<1>1. /\ call[r].pc = "claim" /\ Documents!Claimed(r, "PENDING")
      /\ Documents!Enough(call[r].seen.from, -call[r].seen.quantity)
      /\ Documents!Move(call[r].seen.from, -call[r].seen.quantity, NoCost)
      /\ Documents!ClaimAs(r, "APPROVED", cell[call[r].seen.from].avgCost)
    BY DEF Documents!Approve, Documents!Serving
<1>2. /\ cell \in [Warehouse -> Cell] /\ count \in [Count -> CountRow]
      /\ adjustment \in [Adjustment -> AdjustmentRow]
      /\ bought \in [Warehouse -> Nat] /\ taken \in [Warehouse -> Nat]
      /\ NoCost \in Int \cup {NoCost}
    BY DocumentTypes
<1>3. cell[call[r].seen.from].avgCost \in Int
    <2>1. call[r].seen = old /\ old.from \in Warehouse
        <3>1. /\ call[r].seen \in TransferRow /\ t \in Transfer /\ old \in TransferRow
              /\ call[r].version <= call[r].seen.version
              /\ call[r].seen.version <= old.version
              /\ call[r].seen.version = old.version => call[r].seen = old
              /\ old.version = call[r].version /\ old.status = "PENDING"
            BY <1>1, DocumentTypes, RowFields DEF DocumentsInv, SeenBefore, Documents!Claimed
        <3>2. call[r].seen.version \in Int /\ old.version \in Int
            BY <3>1, RowFields
        <3>3. call[r].seen.version = old.version
            BY <3>1, <3>2
        <3> QED BY <3>1, <3>3 DEF DocumentsInv, TransferHistory
    <2> QED BY <1>2, <2>1 DEF Cell
<1> HIDE DEF row, t
<1>4. /\ t \in Transfer /\ old.status = "PENDING" /\ call[r].seen = old
      /\ old.from \in Warehouse /\ old.to \in Warehouse /\ old.quantity \in Nat \ {0}
      /\ transfer' = [transfer EXCEPT ![t] = row] /\ row \in TransferRow
      /\ row.status = "APPROVED" /\ row.from = old.from /\ row.to = old.to
      /\ row.quantity = old.quantity /\ row.unitCost = cell[old.from].avgCost
      /\ call' \in [Call -> CallRow] /\ TransferHistory' /\ SeenBefore' /\ DocumentsPlaced'
      /\ DocumentsFinite'
      /\ UNCHANGED <<count, adjustment, bought, taken>>
    <2> DEFINE cost == cell[call[r].seen.from].avgCost
    <2>1. ClaimMade(r, "PENDING", "APPROVED", cost)
        BY <1>1, <1>3 DEF ClaimMade
    <2>2. t = call[r].of /\ row = ClaimedRow(r, "APPROVED", cost)
        BY DEF row, t
    <2> HIDE DEF cost
    <2>3. ClaimSettled(t, row, r, "PENDING", "APPROVED", cost)
        BY <2>1, <2>2, ClaimSettles
    <2>4. cost = cell[call[r].seen.from].avgCost
        BY DEF cost
    <2> QED BY <2>3, <2>4 DEF ClaimSettled
<1>5. /\ Documents!Move(old.from, -old.quantity, NoCost) /\ Documents!Enough(old.from, -old.quantity)
      /\ -old.quantity \in Int
    BY <1>1, <1>4
<1>6. cell' \in [Warehouse -> Cell] /\ cell[old.from].quantity \in Int
    BY <1>2, <1>4, <1>5, Moved
<1>7. /\ transfer' \in [Transfer -> TransferRow] /\ transfer'[t] = row
      /\ \A u \in Transfer : u # t => transfer'[u] = transfer[u]
      /\ \A w : LeftOf(w)' = LeftOf(w)
               - (IF t \in Documents!Left(w) THEN old.quantity ELSE 0)
               + (IF row.from = w /\ row.status \in {"APPROVED", "RECEIVED"}
                  THEN row.quantity ELSE 0)
      /\ \A w : ArrivedOf(w)' = ArrivedOf(w)
               - (IF t \in Documents!Arrived(w) THEN old.quantity ELSE 0)
               + (IF row.to = w /\ row.status = "RECEIVED" THEN row.quantity ELSE 0)
    <2>1. row.status # "NONE"
        BY <1>4
    <2> QED BY <1>4, <2>1, TransferChanges
<1>8. DocumentsInv'
    <2>1. Documents!TypeOK'
        BY <1>2, <1>4, <1>6, <1>7, TypesNext
    <2> QED BY <1>4, <2>1 DEF DocumentsInv
<1>9. ASSUME Documents!StockExplained PROVE Documents!StockExplained'
    <2>1. ASSUME NEW v \in Warehouse
          PROVE  bought'[v] - taken'[v] - LeftOf(v)' + ArrivedOf(v)' + CountedOf(v)' + AdjustedOf(v)'
                 = bought[v] - taken[v] - LeftOf(v) + ArrivedOf(v) + CountedOf(v) + AdjustedOf(v)
                   + (IF v = old.from THEN -old.quantity ELSE 0)
        <3>1. t \notin Documents!Left(v) /\ t \notin Documents!Arrived(v)
            BY <1>4 DEF Documents!Left, Documents!Arrived
        <3>2. LeftOf(v) \in Int /\ ArrivedOf(v) \in Int /\ CountedOf(v) \in Int /\ AdjustedOf(v) \in Int
            BY SumTypes
        <3>3. /\ LeftOf(v)' = LeftOf(v) - 0 + (IF old.from = v THEN old.quantity ELSE 0)
              /\ ArrivedOf(v)' = ArrivedOf(v) - 0 + 0
            BY <1>4, <1>7, <3>1
        <3>4. CountedOf(v)' = CountedOf(v) /\ AdjustedOf(v)' = AdjustedOf(v)
            BY <1>4, SameDocuments
        <3>5. bought'[v] = bought[v] /\ taken'[v] = taken[v] /\ bought[v] \in Int /\ taken[v] \in Int
            BY <1>2, <1>4
        <3> QED BY <1>4, <3>2, <3>3, <3>4, <3>5
    <2> QED BY <1>2, <1>4, <1>5, <1>9, <2>1, ExplainedMove
<1>10. ASSUME ~AllowNegative, PricesInv PROVE PricesInv'
    <2>1. Documents!CostKnown' <=> Documents!CostKnown
        BY <1>4 DEF Documents!CostKnown
    <2>2. cell[old.from].quantity + (-old.quantity) >= 0
        BY <1>5, <1>10 DEF Documents!Enough, Documents!AfterQuantity
    <2>3. ASSUME Documents!CostKnown, NEW v \in Warehouse
          PROVE  /\ cell'[v].quantity >= 0
                 /\ cell'[v].quantity > 0 => Documents!BetweenPrices(cell'[v].avgCost)
        <3>1. ~(-old.quantity > 0)
            BY <1>4
        <3> QED BY <1>2, <1>4, <1>5, <1>10, <2>2, <2>3, <3>1, PricesMove
    <2>4. ASSUME Documents!CostKnown, NEW u \in Transfer
          PROVE  transfer'[u] = transfer[u] \/ Documents!BetweenPrices(transfer'[u].unitCost)
        <3>1. cell[old.from].quantity > 0
            BY <1>4, <1>6, <2>2
        <3>2. Documents!BetweenPrices(cell[old.from].avgCost)
            BY <1>4, <1>10, <2>4, <3>1 DEF PricesInv, Documents!AverageWithinPrices
        <3> QED BY <1>4, <1>7, <3>2
    <2> QED BY <1>10, <2>1, <2>3, <2>4, PricesAfter
<1> QED BY <1>8, <1>9, <1>10 DEF Kept

LEMMA ReceiveStep ==
    ASSUME DocumentsInv, NEW r \in Call, Documents!Receive(r)
    PROVE  Kept
PROOF
<1> DEFINE t == call[r].of
           old == transfer[t]
           row == ClaimedRow(r, "RECEIVED", transfer[call[r].of].unitCost)
<1>1. /\ call[r].pc = "claim" /\ Documents!Claimed(r, "APPROVED")
      /\ Documents!Move(call[r].seen.to, call[r].seen.quantity, call[r].seen.unitCost)
      /\ Documents!ClaimAs(r, "RECEIVED", old.unitCost)
    BY DEF Documents!Receive, Documents!Serving
<1>2. /\ cell \in [Warehouse -> Cell] /\ count \in [Count -> CountRow]
      /\ adjustment \in [Adjustment -> AdjustmentRow]
      /\ bought \in [Warehouse -> Nat] /\ taken \in [Warehouse -> Nat]
    BY DocumentTypes
<1>3. old.unitCost \in Int
    BY <1>1 DEF DocumentsInv, SeenBefore, TransferHistory, Documents!Claimed
<1> HIDE DEF row, t
<1>4. /\ t \in Transfer /\ old.status = "APPROVED" /\ call[r].seen = old
      /\ old.from \in Warehouse /\ old.to \in Warehouse /\ old.quantity \in Nat \ {0}
      /\ transfer' = [transfer EXCEPT ![t] = row] /\ row \in TransferRow
      /\ row.status = "RECEIVED" /\ row.from = old.from /\ row.to = old.to
      /\ row.quantity = old.quantity /\ row.unitCost = old.unitCost
      /\ call' \in [Call -> CallRow] /\ TransferHistory' /\ SeenBefore' /\ DocumentsPlaced'
      /\ DocumentsFinite'
      /\ UNCHANGED <<count, adjustment, bought, taken>>
    <2> DEFINE cost == old.unitCost
    <2>1. ClaimMade(r, "APPROVED", "RECEIVED", cost)
        BY <1>1, <1>3 DEF ClaimMade
    <2>2. t = call[r].of /\ row = ClaimedRow(r, "RECEIVED", cost)
        BY DEF row, t
    <2> HIDE DEF cost
    <2>3. ClaimSettled(t, row, r, "APPROVED", "RECEIVED", cost)
        BY <2>1, <2>2, ClaimSettles
    <2>4. cost = old.unitCost
        BY DEF cost
    <2> QED BY <2>3, <2>4 DEF ClaimSettled
<1>5. Documents!Move(old.to, old.quantity, old.unitCost)
    BY <1>1, <1>4
<1>6. cell' \in [Warehouse -> Cell] /\ cell[old.to].quantity \in Int
    BY <1>2, <1>3, <1>4, <1>5, Moved
<1>7. /\ transfer' \in [Transfer -> TransferRow] /\ transfer'[t] = row
      /\ \A u \in Transfer : u # t => transfer'[u] = transfer[u]
      /\ \A w : LeftOf(w)' = LeftOf(w)
               - (IF t \in Documents!Left(w) THEN old.quantity ELSE 0)
               + (IF row.from = w /\ row.status \in {"APPROVED", "RECEIVED"}
                  THEN row.quantity ELSE 0)
      /\ \A w : ArrivedOf(w)' = ArrivedOf(w)
               - (IF t \in Documents!Arrived(w) THEN old.quantity ELSE 0)
               + (IF row.to = w /\ row.status = "RECEIVED" THEN row.quantity ELSE 0)
    <2>1. row.status # "NONE"
        BY <1>4
    <2> QED BY <1>4, <2>1, TransferChanges
<1>8. DocumentsInv'
    <2>1. Documents!TypeOK'
        BY <1>2, <1>4, <1>6, <1>7, TypesNext
    <2> QED BY <1>4, <2>1 DEF DocumentsInv
<1>9. ASSUME Documents!StockExplained PROVE Documents!StockExplained'
    <2>1. ASSUME NEW v \in Warehouse
          PROVE  bought'[v] - taken'[v] - LeftOf(v)' + ArrivedOf(v)' + CountedOf(v)' + AdjustedOf(v)'
                 = bought[v] - taken[v] - LeftOf(v) + ArrivedOf(v) + CountedOf(v) + AdjustedOf(v)
                   + (IF v = old.to THEN old.quantity ELSE 0)
        <3>1. (t \in Documents!Left(v) <=> old.from = v) /\ t \notin Documents!Arrived(v)
            BY <1>4 DEF Documents!Left, Documents!Arrived
        <3>2. LeftOf(v) \in Int /\ ArrivedOf(v) \in Int /\ CountedOf(v) \in Int /\ AdjustedOf(v) \in Int
            BY SumTypes
        <3>3. /\ LeftOf(v)' = LeftOf(v) - (IF old.from = v THEN old.quantity ELSE 0)
                             + (IF old.from = v THEN old.quantity ELSE 0)
              /\ ArrivedOf(v)' = ArrivedOf(v) - 0 + (IF old.to = v THEN old.quantity ELSE 0)
            BY <1>4, <1>7, <3>1
        <3>4. CountedOf(v)' = CountedOf(v) /\ AdjustedOf(v)' = AdjustedOf(v)
            BY <1>4, SameDocuments
        <3>5. bought'[v] = bought[v] /\ taken'[v] = taken[v] /\ bought[v] \in Int /\ taken[v] \in Int
            BY <1>2, <1>4
        <3> QED BY <1>4, <3>2, <3>3, <3>4, <3>5
    <2> QED BY <1>3, <1>4, <1>5, <1>9, <2>1, ExplainedMove
<1>10. ASSUME ~AllowNegative, PricesInv PROVE PricesInv'
    <2>1. Documents!CostKnown' <=> Documents!CostKnown
        BY <1>4 DEF Documents!CostKnown
    <2>2. ASSUME Documents!CostKnown, NEW v \in Warehouse
          PROVE  /\ cell'[v].quantity >= 0
                 /\ cell'[v].quantity > 0 => Documents!BetweenPrices(cell'[v].avgCost)
        <3>1. Documents!BetweenPrices(old.unitCost)
            BY <1>4, <1>10, <2>2 DEF PricesInv, Documents!AverageWithinPrices
        <3>2. cell[old.to].quantity >= 0
            BY <1>4, <1>10, <2>2 DEF PricesInv, NeverNegative
        <3>3. cell[old.to].quantity + old.quantity >= 0
            BY <1>4, <1>6, <3>2
        <3> QED BY <1>3, <1>4, <1>5, <1>10, <2>2, <3>1, <3>3, PricesMove
    <2>3. \A u \in Transfer : transfer'[u].status = "APPROVED" => transfer'[u] = transfer[u]
        BY <1>4, <1>7
    <2> QED BY <1>10, <2>1, <2>2, <2>3, PricesAfter
<1> QED BY <1>8, <1>9, <1>10 DEF Kept

LEMMA CancelStep ==
    ASSUME DocumentsInv, NEW r \in Call, Documents!Cancel(r)
    PROVE  Kept
PROOF
<1> DEFINE t == call[r].of
           old == transfer[t]
           row == ClaimedRow(r, "CANCELLED", transfer[call[r].of].unitCost)
<1>1. /\ call[r].pc = "claim" /\ Documents!Claimed(r, call[r].seen.status)
      /\ \/ /\ call[r].seen.status = "APPROVED"
            /\ Documents!Move(call[r].seen.from, call[r].seen.quantity, call[r].seen.unitCost)
         \/ call[r].seen.status # "APPROVED" /\ UNCHANGED cell
      /\ Documents!ClaimAs(r, "CANCELLED", old.unitCost)
      /\ call[r].seen.status \in {"PENDING", "APPROVED"}
    BY DEF Documents!Cancel, Documents!Serving, DocumentsInv, SeenBefore
<1>2. /\ cell \in [Warehouse -> Cell] /\ count \in [Count -> CountRow]
      /\ adjustment \in [Adjustment -> AdjustmentRow]
      /\ bought \in [Warehouse -> Nat] /\ taken \in [Warehouse -> Nat]
    BY DocumentTypes
<1>3. /\ old.unitCost \in Int \cup {NoCost}
      /\ old.status = "APPROVED" => old.unitCost \in Int
    <2>1. t \in Transfer /\ old \in TransferRow
        BY <1>1, DocumentTypes DEF DocumentsInv, SeenBefore
    <2> QED BY <2>1, RowFields DEF DocumentsInv, TransferHistory
<1> HIDE DEF row, t
<1>4. /\ t \in Transfer /\ old.status \in {"PENDING", "APPROVED"} /\ call[r].seen = old
      /\ old.from \in Warehouse /\ old.to \in Warehouse /\ old.quantity \in Nat \ {0}
      /\ transfer' = [transfer EXCEPT ![t] = row] /\ row \in TransferRow
      /\ row.status = "CANCELLED" /\ row.from = old.from /\ row.to = old.to
      /\ row.quantity = old.quantity /\ row.unitCost = old.unitCost
      /\ call' \in [Call -> CallRow] /\ TransferHistory' /\ SeenBefore' /\ DocumentsPlaced'
      /\ DocumentsFinite'
      /\ UNCHANGED <<count, adjustment, bought, taken>>
    <2> DEFINE expected == call[r].seen.status
               cost == old.unitCost
    <2>1. ClaimMade(r, expected, "CANCELLED", cost)
        BY <1>1, <1>3 DEF ClaimMade, t
    <2>2. t = call[r].of /\ row = ClaimedRow(r, "CANCELLED", cost)
        BY DEF row, t
    <2>3. expected \in {"PENDING", "APPROVED"}
        BY <1>1
    <2> HIDE DEF expected, cost
    <2>4. ClaimSettled(t, row, r, expected, "CANCELLED", cost)
        BY <2>1, <2>2, ClaimSettles
    <2>5. cost = old.unitCost
        BY DEF cost
    <2> QED BY <2>3, <2>4, <2>5 DEF ClaimSettled
<1>5. /\ transfer' \in [Transfer -> TransferRow] /\ transfer'[t] = row
      /\ \A u \in Transfer : u # t => transfer'[u] = transfer[u]
      /\ \A w : LeftOf(w)' = LeftOf(w)
               - (IF t \in Documents!Left(w) THEN old.quantity ELSE 0)
               + (IF row.from = w /\ row.status \in {"APPROVED", "RECEIVED"}
                  THEN row.quantity ELSE 0)
      /\ \A w : ArrivedOf(w)' = ArrivedOf(w)
               - (IF t \in Documents!Arrived(w) THEN old.quantity ELSE 0)
               + (IF row.to = w /\ row.status = "RECEIVED" THEN row.quantity ELSE 0)
    <2>1. row.status # "NONE"
        BY <1>4
    <2> QED BY <1>4, <2>1, TransferChanges
<1>6. /\ \A v : LeftOf(v)' = LeftOf(v)
               - (IF old.status = "APPROVED" /\ old.from = v THEN old.quantity ELSE 0)
      /\ \A v : ArrivedOf(v)' = ArrivedOf(v)
    <2> SUFFICES ASSUME NEW v
                 PROVE  /\ LeftOf(v)' = LeftOf(v)
                            - (IF old.status = "APPROVED" /\ old.from = v THEN old.quantity ELSE 0)
                        /\ ArrivedOf(v)' = ArrivedOf(v)
        OBVIOUS
    <2>1. /\ t \in Documents!Left(v) <=> old.status = "APPROVED" /\ old.from = v
          /\ t \notin Documents!Arrived(v)
        BY <1>4 DEF Documents!Left, Documents!Arrived
    <2>2. LeftOf(v) \in Int /\ ArrivedOf(v) \in Int
        BY SumTypes
    <2>3. /\ LeftOf(v)' = LeftOf(v)
               - (IF old.status = "APPROVED" /\ old.from = v THEN old.quantity ELSE 0) + 0
          /\ ArrivedOf(v)' = ArrivedOf(v) - 0 + 0
        BY <1>4, <1>5, <2>1
    <2> QED BY <1>4, <2>2, <2>3
<1>7. Documents!CostKnown' <=> Documents!CostKnown
    BY <1>4 DEF Documents!CostKnown
<1>8. \A u \in Transfer : transfer'[u].status = "APPROVED" => transfer'[u] = transfer[u]
    BY <1>4, <1>5
<1>9. ASSUME cell' \in [Warehouse -> Cell] PROVE DocumentsInv'
    <2>1. Documents!TypeOK'
        BY <1>2, <1>4, <1>5, <1>9, TypesNext
    <2> QED BY <1>4, <2>1 DEF DocumentsInv
<1>10. CASE old.status = "APPROVED" /\ Documents!Move(old.from, old.quantity, old.unitCost)
    <2>1. cell' \in [Warehouse -> Cell] /\ cell[old.from].quantity \in Int
        BY <1>2, <1>3, <1>4, <1>10, Moved
    <2>2. ASSUME Documents!StockExplained PROVE Documents!StockExplained'
        <3>1. ASSUME NEW v \in Warehouse
              PROVE  bought'[v] - taken'[v] - LeftOf(v)' + ArrivedOf(v)' + CountedOf(v)' + AdjustedOf(v)'
                     = bought[v] - taken[v] - LeftOf(v) + ArrivedOf(v) + CountedOf(v) + AdjustedOf(v)
                       + (IF v = old.from THEN old.quantity ELSE 0)
            <4>1. LeftOf(v) \in Int /\ ArrivedOf(v) \in Int /\ CountedOf(v) \in Int /\ AdjustedOf(v) \in Int
                BY SumTypes
            <4>2. /\ LeftOf(v)' = LeftOf(v) - (IF old.from = v THEN old.quantity ELSE 0)
                  /\ ArrivedOf(v)' = ArrivedOf(v)
                BY <1>6, <1>10
            <4>3. CountedOf(v)' = CountedOf(v) /\ AdjustedOf(v)' = AdjustedOf(v)
                BY <1>4, SameDocuments
            <4>4. bought'[v] = bought[v] /\ taken'[v] = taken[v] /\ bought[v] \in Int /\ taken[v] \in Int
                BY <1>2, <1>4
            <4> QED BY <1>4, <4>1, <4>2, <4>3, <4>4
        <3> QED BY <1>3, <1>4, <1>10, <2>2, <3>1, ExplainedMove
    <2>3. ASSUME PricesInv PROVE PricesInv'
        <3>1. ASSUME Documents!CostKnown, NEW v \in Warehouse
              PROVE  /\ cell'[v].quantity >= 0
                     /\ cell'[v].quantity > 0 => Documents!BetweenPrices(cell'[v].avgCost)
            <4>1. Documents!BetweenPrices(old.unitCost)
                BY <1>4, <1>10, <2>3, <3>1 DEF PricesInv, Documents!AverageWithinPrices
            <4>2. cell[old.from].quantity >= 0
                BY <1>4, <2>3, <3>1 DEF PricesInv, NeverNegative
            <4>3. cell[old.from].quantity + old.quantity >= 0
                BY <1>4, <2>1, <4>2
            <4> QED BY <1>3, <1>4, <1>10, <2>3, <3>1, <4>1, <4>3, PricesMove
        <3> QED BY <1>7, <1>8, <2>3, <3>1, PricesAfter
    <2> QED BY <1>9, <2>1, <2>2, <2>3 DEF Kept
<1>11. CASE old.status # "APPROVED" /\ UNCHANGED cell
    <2>1. ASSUME Documents!StockExplained PROVE Documents!StockExplained'
        <3> SUFFICES ASSUME NEW v \in Warehouse
                     PROVE  LeftOf(v)' = LeftOf(v) /\ ArrivedOf(v)' = ArrivedOf(v)
                            /\ CountedOf(v)' = CountedOf(v) /\ AdjustedOf(v)' = AdjustedOf(v)
            BY <1>4, <1>11, <2>1, ExplainedSums
        <3>1. LeftOf(v) \in Int /\ LeftOf(v)' = LeftOf(v) - 0 /\ ArrivedOf(v)' = ArrivedOf(v)
            BY <1>6, <1>11, SumTypes
        <3> QED BY <1>4, <3>1, SameDocuments
    <2>2. ASSUME PricesInv PROVE PricesInv'
        <3>1. Documents!CostKnown => \A v \in Warehouse :
                /\ cell'[v].quantity >= 0
                /\ cell'[v].quantity > 0 => Documents!BetweenPrices(cell'[v].avgCost)
            BY <1>11, <2>2 DEF PricesInv, NeverNegative, Documents!AverageWithinPrices
        <3> QED BY <1>7, <1>8, <2>2, <3>1, PricesAfter
    <2> QED BY <1>2, <1>9, <1>11, <2>1, <2>2 DEF Kept
<1> QED BY <1>1, <1>4, <1>10, <1>11

(* A count that moves nothing: it is created, or begins. *)
LEMMA CountStep ==
    ASSUME DocumentsInv, NEW c \in Count, NEW row \in CountRow, row.status \in {"DRAFT", "COUNTING"},
           count[c].status # "COMPLETED", row.at \in Warehouse,
           count' = [count EXCEPT ![c] = row],
           UNCHANGED <<cell, transfer, call, adjustment, bought, taken>>
    PROVE  Kept
PROOF
<1>1. /\ cell \in [Warehouse -> Cell] /\ call \in [Call -> CallRow]
      /\ transfer \in [Transfer -> TransferRow]
      /\ adjustment \in [Adjustment -> AdjustmentRow]
      /\ bought \in [Warehouse -> Nat] /\ taken \in [Warehouse -> Nat]
    BY DocumentTypes
<1>2. row.status # "NONE" /\ row.status # "COMPLETED"
    OBVIOUS
<1>3. /\ count' \in [Count -> CountRow] /\ count'[c] = row
      /\ \A d \in Count : d # c => count'[d] = count[d]
      /\ IsFiniteSet({d \in Count : count[d].status # "NONE"})'
      /\ \A w : CountedOf(w)' = CountedOf(w)
               + (IF row.at = w /\ row.status = "COMPLETED" THEN row.difference ELSE 0)
    BY <1>2, CountChanges
<1>4. Documents!TypeOK'
    BY <1>1, <1>3, TypesNext
<1>5. TransferHistory' /\ SeenBefore'
    BY PartsStay
<1>6. DocumentsPlaced' /\ DocumentsFinite'
    BY <1>3 DEF DocumentsInv, DocumentsPlaced, DocumentsFinite
<1>7. ASSUME Documents!StockExplained PROVE Documents!StockExplained'
    <2> SUFFICES ASSUME NEW w \in Warehouse
                 PROVE  LeftOf(w)' = LeftOf(w) /\ ArrivedOf(w)' = ArrivedOf(w)
                        /\ CountedOf(w)' = CountedOf(w) /\ AdjustedOf(w)' = AdjustedOf(w)
        BY <1>7, ExplainedSums
    <2>1. CountedOf(w) \in Int /\ CountedOf(w)' = CountedOf(w) + 0
        BY <1>2, <1>3, SumTypes
    <2> QED BY <2>1, SameDocuments
<1>8. ASSUME PricesInv PROVE PricesInv'
    <2>1. Documents!CostKnown' => Documents!CostKnown
        BY <1>2, <1>3 DEF Documents!CostKnown
    <2>2. Documents!CostKnown => \A v \in Warehouse :
            /\ cell'[v].quantity >= 0
            /\ cell'[v].quantity > 0 => Documents!BetweenPrices(cell'[v].avgCost)
        BY <1>8 DEF PricesInv, NeverNegative, Documents!AverageWithinPrices
    <2> QED BY <1>8, <2>1, <2>2, PricesAfter
<1> QED BY <1>4, <1>5, <1>6, <1>7, <1>8 DEF DocumentsInv, Kept

(* Every count names the item once. *)
CountedOnce == \A actual \in Counted : Len(actual) = 1

(* What a count posts is an integer, and the difference it keeps if it      *)
(* names the item once.                                                     *)
LEMMA Posted ==
    ASSUME NEW actual \in Counted, NEW system \in Int
    PROVE  LET posted == Documents!SumFunction([n \in DOMAIN actual |-> actual[n] - system]) IN
           /\ posted \in Int /\ Documents!Last(actual) \in Nat
           /\ CountedOnce => posted = Documents!Last(actual) - system
PROOF
<1> DEFINE f == [n \in DOMAIN actual |-> actual[n] - system]
<1>1. /\ actual \in Seq(Nat) /\ actual # <<>> /\ Len(actual) \in Nat
      /\ DOMAIN actual = 1 .. Len(actual)
    BY ConstantTypes
<1>2. Len(actual) \in DOMAIN actual /\ \A n \in DOMAIN actual : actual[n] \in Nat
    BY <1>1
<1>3. IsFiniteSet(DOMAIN actual)
    BY <1>1, FS_Interval
<1>4. DOMAIN f = DOMAIN actual /\ \A n \in DOMAIN actual : f[n] = actual[n] - system /\ f[n] \in Int
    BY <1>2
<1> HIDE DEF f
<1>5. Documents!SumFunction(f) = SumFunctionOnSet(f, DOMAIN actual)
    BY <1>4, SameSums
<1>6. SumFunctionOnSet(f, DOMAIN actual) \in Int
    BY <1>3, <1>4, SumType
<1>7. Documents!Last(actual) = actual[Len(actual)] /\ actual[Len(actual)] \in Nat
    BY <1>2 DEF Documents!Last
<1>8. ASSUME CountedOnce PROVE SumFunctionOnSet(f, DOMAIN actual) = actual[Len(actual)] - system
    <2>1. Len(actual) = 1 /\ DOMAIN actual = {1}
        <3>1. Len(actual) = 1
            BY <1>8 DEF CountedOnce
        <3>2. 1 .. 1 = {1}
            OBVIOUS
        <3> QED BY <1>1, <3>1, <3>2
    <2>2. SumFunctionOnSet(f, DOMAIN actual) = f[1]
        BY <1>3, <1>4, <2>1, SumSingle
    <2> QED BY <1>4, <2>1, <2>2
<1> QED BY <1>5, <1>6, <1>7, <1>8 DEF f

LEMMA CompleteCountStep ==
    ASSUME DocumentsInv, NEW c \in Count, NEW actual \in Counted,
           Documents!CompleteCount(c, actual)
    PROVE  /\ DocumentsInv'
           /\ CountedOnce /\ Documents!StockExplained => Documents!StockExplained'
           /\ PricesInv => PricesInv'
PROOF
<1> DEFINE w == count[c].at
           system == count[c].system
           posted == Documents!SumFunction([n \in DOMAIN actual |-> actual[n] - system])
           row == [count[c] EXCEPT !.status = "COMPLETED",
                                   !.difference = Documents!Last(actual) - system]
<1>1. /\ count[c].status = "COUNTING" /\ count' = [count EXCEPT ![c] = row]
      /\ Documents!Move(w, posted, NoCost)
      /\ UNCHANGED <<transfer, call, adjustment, bought, taken>>
    BY DEF Documents!CompleteCount
<1>2. /\ cell \in [Warehouse -> Cell] /\ call \in [Call -> CallRow] /\ count \in [Count -> CountRow]
      /\ transfer \in [Transfer -> TransferRow]
      /\ adjustment \in [Adjustment -> AdjustmentRow]
      /\ bought \in [Warehouse -> Nat] /\ taken \in [Warehouse -> Nat] /\ NoCost \in Int \cup {NoCost}
    BY DocumentTypes
<1>3. system \in Int /\ w \in Warehouse
    BY <1>1, <1>2 DEF CountRow, DocumentsInv, DocumentsPlaced
<1>4. /\ posted \in Int /\ Documents!Last(actual) \in Nat
      /\ CountedOnce => posted = Documents!Last(actual) - system
    BY <1>3, Posted
<1> HIDE DEF posted
<1>5. /\ row \in CountRow /\ row.status = "COMPLETED" /\ row.at = w
      /\ row.difference = Documents!Last(actual) - system
    <2>1. count[c] \in CountRow
        BY <1>2
    <2>2. Documents!Last(actual) - system \in Int
        BY <1>3, <1>4
    <2>3. row \in CountRow
        BY <2>1, <2>2 DEF CountRow
    <2> QED BY <2>1, <2>3 DEF CountRow
<1> HIDE DEF row
<1>6. /\ count' \in [Count -> CountRow] /\ count'[c] = row
      /\ \A d \in Count : d # c => count'[d] = count[d]
      /\ IsFiniteSet({d \in Count : count[d].status # "NONE"})'
      /\ \A v : CountedOf(v)' = CountedOf(v)
               + (IF row.at = v /\ row.status = "COMPLETED" THEN row.difference ELSE 0)
    <2>1. row.status # "NONE" /\ count[c].status # "COMPLETED"
        BY <1>1, <1>5
    <2> QED BY <1>1, <1>5, <2>1, CountChanges
<1>7. DocumentsInv'
    <2>1. cell' \in [Warehouse -> Cell]
        BY <1>1, <1>2, <1>3, <1>4, Moved
    <2>2. Documents!TypeOK'
        BY <1>1, <1>2, <1>6, <2>1, TypesNext
    <2>3. TransferHistory' /\ SeenBefore'
        BY <1>1, PartsStay
    <2>4. DocumentsPlaced' /\ DocumentsFinite'
        BY <1>1, <1>3, <1>5, <1>6 DEF DocumentsInv, DocumentsPlaced, DocumentsFinite
    <2> QED BY <2>2, <2>3, <2>4 DEF DocumentsInv
<1>8. ASSUME CountedOnce, Documents!StockExplained PROVE Documents!StockExplained'
    <2>1. ASSUME NEW v \in Warehouse
          PROVE  bought'[v] - taken'[v] - LeftOf(v)' + ArrivedOf(v)' + CountedOf(v)' + AdjustedOf(v)'
                 = bought[v] - taken[v] - LeftOf(v) + ArrivedOf(v) + CountedOf(v) + AdjustedOf(v)
                   + (IF v = w THEN posted ELSE 0)
        <3>1. LeftOf(v) \in Int /\ ArrivedOf(v) \in Int /\ CountedOf(v) \in Int /\ AdjustedOf(v) \in Int
            BY SumTypes
        <3>2. LeftOf(v)' = LeftOf(v) /\ ArrivedOf(v)' = ArrivedOf(v) /\ AdjustedOf(v)' = AdjustedOf(v)
            BY <1>1, SameDocuments
        <3>3. CountedOf(v)' = CountedOf(v) + (IF v = w THEN posted ELSE 0)
            BY <1>4, <1>5, <1>6, <1>8
        <3>4. bought'[v] = bought[v] /\ taken'[v] = taken[v] /\ bought[v] \in Int /\ taken[v] \in Int
            BY <1>1, <1>2
        <3> QED BY <1>4, <3>1, <3>2, <3>3, <3>4
    <2> QED BY <1>1, <1>2, <1>3, <1>4, <1>8, <2>1, ExplainedMove
<1>9. ~Documents!CostKnown'
    BY <1>5, <1>6 DEF Documents!CostKnown
<1>10. PricesInv => PricesInv'
    BY <1>9 DEF PricesInv, NeverNegative, Documents!AverageWithinPrices
<1> QED BY <1>7, <1>8, <1>10

(* An adjustment that moves nothing: it is created, submitted or approved.  *)
LEMMA AdjustmentStep ==
    ASSUME DocumentsInv, NEW a \in Adjustment, NEW row \in AdjustmentRow,
           row.status \in {"DRAFT", "SUBMITTED", "APPROVED"}, row.at \in Warehouse,
           adjustment[a].status # "COMPLETED",
           adjustment' = [adjustment EXCEPT ![a] = row],
           UNCHANGED <<cell, transfer, call, count, bought, taken>>
    PROVE  Kept
PROOF
<1>1. /\ cell \in [Warehouse -> Cell] /\ call \in [Call -> CallRow] /\ count \in [Count -> CountRow]
      /\ transfer \in [Transfer -> TransferRow]
      /\ bought \in [Warehouse -> Nat] /\ taken \in [Warehouse -> Nat]
    BY DocumentTypes
<1>2. row.status # "NONE" /\ row.status # "COMPLETED"
    OBVIOUS
<1>3. /\ adjustment' \in [Adjustment -> AdjustmentRow] /\ adjustment'[a] = row
      /\ \A b \in Adjustment : b # a => adjustment'[b] = adjustment[b]
      /\ IsFiniteSet({b \in Adjustment : adjustment[b].status # "NONE"})'
      /\ \A w : AdjustedOf(w)' = AdjustedOf(w)
               + (IF row.at = w /\ row.status = "COMPLETED" THEN row.delta ELSE 0)
    BY <1>2, AdjustmentChanges
<1>4. Documents!TypeOK'
    BY <1>1, <1>3, TypesNext
<1>5. TransferHistory' /\ SeenBefore'
    BY PartsStay
<1>6. DocumentsPlaced' /\ DocumentsFinite'
    BY <1>3 DEF DocumentsInv, DocumentsPlaced, DocumentsFinite
<1>7. ASSUME Documents!StockExplained PROVE Documents!StockExplained'
    <2> SUFFICES ASSUME NEW w \in Warehouse
                 PROVE  LeftOf(w)' = LeftOf(w) /\ ArrivedOf(w)' = ArrivedOf(w)
                        /\ CountedOf(w)' = CountedOf(w) /\ AdjustedOf(w)' = AdjustedOf(w)
        BY <1>7, ExplainedSums
    <2>1. AdjustedOf(w) \in Int /\ AdjustedOf(w)' = AdjustedOf(w) + 0
        BY <1>2, <1>3, SumTypes
    <2> QED BY <2>1, SameDocuments
<1>8. ASSUME PricesInv PROVE PricesInv'
    <2>1. Documents!CostKnown' => Documents!CostKnown
        BY <1>2, <1>3 DEF Documents!CostKnown
    <2>2. Documents!CostKnown => \A v \in Warehouse :
            /\ cell'[v].quantity >= 0
            /\ cell'[v].quantity > 0 => Documents!BetweenPrices(cell'[v].avgCost)
        BY <1>8 DEF PricesInv, NeverNegative, Documents!AverageWithinPrices
    <2> QED BY <1>8, <2>1, <2>2, PricesAfter
<1> QED BY <1>4, <1>5, <1>6, <1>7, <1>8 DEF DocumentsInv, Kept

LEMMA AdvanceStep ==
    ASSUME DocumentsInv, NEW a \in Adjustment,
           NEW from \in {"DRAFT", "SUBMITTED"}, NEW to \in {"SUBMITTED", "APPROVED"},
           Documents!AdvanceAdjustment(a, from, to)
    PROVE  Kept
PROOF
<1> DEFINE row == [adjustment[a] EXCEPT !.status = to]
<1>1. /\ adjustment[a].status = from /\ adjustment' = [adjustment EXCEPT ![a] = row]
      /\ UNCHANGED <<cell, transfer, call, count, bought, taken>>
    BY DEF Documents!AdvanceAdjustment
<1>2. adjustment[a] \in AdjustmentRow /\ adjustment[a].at \in Warehouse
    BY <1>1, DocumentTypes DEF DocumentsInv, DocumentsPlaced
<1>3. row \in AdjustmentRow /\ row.status = to /\ row.at = adjustment[a].at
    BY <1>2 DEF AdjustmentRow
<1> HIDE DEF row
<1>4. adjustment[a].status # "COMPLETED" /\ row.status \in {"DRAFT", "SUBMITTED", "APPROVED"}
    BY <1>1, <1>3
<1> QED BY <1>1, <1>2, <1>3, <1>4, AdjustmentStep

LEMMA CompleteAdjustmentStep ==
    ASSUME DocumentsInv, NEW a \in Adjustment, Documents!CompleteAdjustment(a)
    PROVE  Kept
PROOF
<1> DEFINE w == adjustment[a].at
           delta == adjustment[a].delta
           row == [adjustment[a] EXCEPT !.status = "COMPLETED"]
<1>1. /\ adjustment[a].status = "APPROVED" /\ adjustment' = [adjustment EXCEPT ![a] = row]
      /\ Documents!Enough(w, delta) /\ Documents!Move(w, delta, NoCost)
      /\ UNCHANGED <<transfer, call, count, bought, taken>>
    BY DEF Documents!CompleteAdjustment
<1>2. /\ cell \in [Warehouse -> Cell] /\ call \in [Call -> CallRow] /\ count \in [Count -> CountRow]
      /\ transfer \in [Transfer -> TransferRow]
      /\ adjustment \in [Adjustment -> AdjustmentRow]
      /\ bought \in [Warehouse -> Nat] /\ taken \in [Warehouse -> Nat] /\ NoCost \in Int \cup {NoCost}
    BY DocumentTypes
<1>3. delta \in Int /\ w \in Warehouse
    BY <1>1, <1>2 DEF AdjustmentRow, DocumentsInv, DocumentsPlaced
<1>4. row \in AdjustmentRow /\ row.status = "COMPLETED" /\ row.at = w /\ row.delta = delta
    BY <1>2 DEF AdjustmentRow
<1> HIDE DEF row
<1>5. /\ adjustment' \in [Adjustment -> AdjustmentRow] /\ adjustment'[a] = row
      /\ \A b \in Adjustment : b # a => adjustment'[b] = adjustment[b]
      /\ IsFiniteSet({b \in Adjustment : adjustment[b].status # "NONE"})'
      /\ \A v : AdjustedOf(v)' = AdjustedOf(v)
               + (IF row.at = v /\ row.status = "COMPLETED" THEN row.delta ELSE 0)
    <2>1. row.status # "NONE" /\ adjustment[a].status # "COMPLETED"
        BY <1>1, <1>4
    <2> QED BY <1>1, <1>4, <2>1, AdjustmentChanges
<1>6. DocumentsInv'
    <2>1. cell' \in [Warehouse -> Cell]
        BY <1>1, <1>2, <1>3, Moved
    <2>2. Documents!TypeOK'
        BY <1>1, <1>2, <1>5, <2>1, TypesNext
    <2>3. TransferHistory' /\ SeenBefore'
        BY <1>1, PartsStay
    <2>4. DocumentsPlaced' /\ DocumentsFinite'
        BY <1>1, <1>3, <1>4, <1>5 DEF DocumentsInv, DocumentsPlaced, DocumentsFinite
    <2> QED BY <2>2, <2>3, <2>4 DEF DocumentsInv
<1>7. ASSUME Documents!StockExplained PROVE Documents!StockExplained'
    <2>1. ASSUME NEW v \in Warehouse
          PROVE  bought'[v] - taken'[v] - LeftOf(v)' + ArrivedOf(v)' + CountedOf(v)' + AdjustedOf(v)'
                 = bought[v] - taken[v] - LeftOf(v) + ArrivedOf(v) + CountedOf(v) + AdjustedOf(v)
                   + (IF v = w THEN delta ELSE 0)
        <3>1. LeftOf(v) \in Int /\ ArrivedOf(v) \in Int /\ CountedOf(v) \in Int /\ AdjustedOf(v) \in Int
            BY SumTypes
        <3>2. LeftOf(v)' = LeftOf(v) /\ ArrivedOf(v)' = ArrivedOf(v) /\ CountedOf(v)' = CountedOf(v)
            BY <1>1, SameDocuments
        <3>3. AdjustedOf(v)' = AdjustedOf(v) + (IF v = w THEN delta ELSE 0)
            BY <1>4, <1>5
        <3>4. bought'[v] = bought[v] /\ taken'[v] = taken[v] /\ bought[v] \in Int /\ taken[v] \in Int
            BY <1>1, <1>2
        <3> QED BY <1>3, <3>1, <3>2, <3>3, <3>4
    <2> QED BY <1>1, <1>2, <1>3, <1>7, <2>1, ExplainedMove
<1>8. ASSUME ~AllowNegative, PricesInv PROVE PricesInv'
    <2>1. Documents!CostKnown' => Documents!CostKnown /\ delta < 0
        BY <1>1, <1>4, <1>5 DEF Documents!CostKnown
    <2>2. cell[w].quantity + delta >= 0
        BY <1>1, <1>8 DEF Documents!Enough, Documents!AfterQuantity
    <2>3. ASSUME Documents!CostKnown', NEW v \in Warehouse
          PROVE  /\ cell'[v].quantity >= 0
                 /\ cell'[v].quantity > 0 => Documents!BetweenPrices(cell'[v].avgCost)
        <3>1. Documents!CostKnown /\ ~(delta > 0)
            BY <1>3, <2>1, <2>3
        <3> QED BY <1>1, <1>2, <1>3, <1>8, <2>2, <3>1, PricesMove
    <2> QED BY <1>1, <1>8, <2>1, <2>3, PricesAfter
<1> QED BY <1>6, <1>7, <1>8 DEF Kept

LEMMA NextDocuments ==
    ASSUME DocumentsInv, [Documents!Next]_(Documents!vars)
    PROVE  /\ DocumentsInv'
           /\ CountedOnce /\ Documents!StockExplained => Documents!StockExplained'
           /\ ~AllowNegative /\ PricesInv => PricesInv'
PROOF
<1> DEFINE Goal == /\ DocumentsInv'
                   /\ CountedOnce /\ Documents!StockExplained => Documents!StockExplained'
                   /\ ~AllowNegative /\ PricesInv => PricesInv'
<1> SUFFICES Goal
    OBVIOUS
<1>1. Kept => Goal
    BY DEF Kept
<1> HIDE DEF Goal
<1>2. CASE UNCHANGED Documents!vars
    <2>1. UNCHANGED <<cell, transfer, call, count, adjustment, bought, taken>>
        BY <1>2 DEF Documents!vars
    <2>2. Documents!TypeOK'
        BY <2>1, DocumentTypes, TypesNext
    <2>3. TransferHistory' /\ SeenBefore' /\ DocumentsPlaced' /\ DocumentsFinite'
        BY <2>1, PartsStay
    <2>4. Documents!StockExplained => Documents!StockExplained'
        BY <2>1, SameDocuments, ExplainedSums
    <2>5. PricesInv => PricesInv'
        BY <2>1 DEF PricesInv, NeverNegative, Documents!AverageWithinPrices, Documents!CostKnown
    <2> QED BY <2>2, <2>3, <2>4, <2>5 DEF DocumentsInv, Goal
<1>3. ASSUME NEW r \in Call, NEW t \in Transfer, NEW op \in {"approve", "receive", "cancel"},
             NEW v \in 1..3, Documents!StartCall(r, t, op, v)
      PROVE  Kept
    <2> DEFINE row == [pc |-> "claim", op |-> op, of |-> t, version |-> v, seen |-> transfer[t]]
    <2>1. /\ transfer[t].status # "NONE" /\ v <= transfer[t].version
          /\ op = "cancel" => transfer[t].status \in {"PENDING", "APPROVED"}
          /\ call' = [call EXCEPT ![r] = row]
          /\ UNCHANGED <<cell, transfer, count, adjustment, bought, taken>>
        BY <1>3 DEF Documents!StartCall
    <2>2. row \in CallRow
        BY DocumentTypes DEF CallRow
    <2>3. row.pc = "claim" =>
                /\ row.of \in Transfer /\ row.seen.status # "NONE"
                /\ row.version <= row.seen.version /\ row.seen = transfer[row.of]
                /\ row.op = "cancel" => row.seen.status \in {"PENDING", "APPROVED"}
        BY <2>1
    <2> HIDE DEF row
    <2> QED BY <2>1, <2>2, <2>3, CallStep
<1>4. ASSUME NEW r \in Call, Documents!Refuse(r)
      PROVE  Kept
    <2> DEFINE row == [call[r] EXCEPT !.pc = "refused"]
    <2>1. call' = [call EXCEPT ![r] = row] /\ UNCHANGED <<cell, transfer, count, adjustment, bought, taken>>
        BY <1>4 DEF Documents!Refuse
    <2>2. row \in CallRow /\ row.pc = "refused"
        BY DocumentTypes DEF CallRow
    <2> HIDE DEF row
    <2>3. row.pc # "claim"
        BY <2>2
    <2> QED BY <2>1, <2>2, <2>3, CallStep
<1>5. ASSUME NEW c \in Count, NEW w \in Warehouse, Documents!CreateCount(c, w)
      PROVE  Kept
    <2> DEFINE row == [Documents!NoCount EXCEPT !.status = "DRAFT", !.at = w,
                                                !.system = cell[w].quantity]
    <2>1. /\ count[c].status = "NONE" /\ count' = [count EXCEPT ![c] = row]
          /\ UNCHANGED <<cell, transfer, call, adjustment, bought, taken>>
        BY <1>5 DEF Documents!CreateCount
    <2>2. cell[w].quantity \in Int
        BY DocumentTypes DEF Cell
    <2>3. Documents!NoCount \in CountRow
        BY DEF Documents!NoCount, CountRow
    <2>4. row \in CountRow
        BY <2>2, <2>3 DEF CountRow
    <2>5. row.status = "DRAFT" /\ row.at = w
        BY <2>3 DEF CountRow
    <2> HIDE DEF row
    <2>6. row.status \in {"DRAFT", "COUNTING"} /\ count[c].status # "COMPLETED"
        BY <2>1, <2>5
    <2> QED BY <2>1, <2>4, <2>5, <2>6, CountStep
<1>6. ASSUME NEW c \in Count, Documents!StartCount(c)
      PROVE  Kept
    <2> DEFINE row == [count[c] EXCEPT !.status = "COUNTING"]
    <2>1. /\ count[c].status = "DRAFT" /\ count' = [count EXCEPT ![c] = row]
          /\ UNCHANGED <<cell, transfer, call, adjustment, bought, taken>>
        BY <1>6 DEF Documents!StartCount
    <2>2. count[c] \in CountRow /\ count[c].at \in Warehouse
        BY <2>1, DocumentTypes DEF DocumentsInv, DocumentsPlaced
    <2>3. row \in CountRow /\ row.status = "COUNTING" /\ row.at = count[c].at
        BY <2>2 DEF CountRow
    <2> HIDE DEF row
    <2>4. row.status \in {"DRAFT", "COUNTING"} /\ count[c].status # "COMPLETED"
        BY <2>1, <2>3
    <2> QED BY <2>1, <2>2, <2>3, <2>4, CountStep
<1>7. ASSUME NEW a \in Adjustment, NEW w \in Warehouse, NEW delta \in Delta,
             Documents!CreateAdjustment(a, w, delta)
      PROVE  Kept
    <2> DEFINE row == [status |-> "DRAFT", at |-> w, delta |-> delta]
    <2>1. /\ adjustment[a].status = "NONE" /\ adjustment' = [adjustment EXCEPT ![a] = row]
          /\ UNCHANGED <<cell, transfer, call, count, bought, taken>>
        BY <1>7 DEF Documents!CreateAdjustment
    <2>2. row \in AdjustmentRow /\ row.status = "DRAFT" /\ row.at = w
        BY ConstantTypes DEF AdjustmentRow
    <2> HIDE DEF row
    <2>3. row.status \in {"DRAFT", "SUBMITTED", "APPROVED"} /\ adjustment[a].status # "COMPLETED"
        BY <2>1, <2>2
    <2> QED BY <2>1, <2>2, <2>3, AdjustmentStep
<1>8. ASSUME NEW a \in Adjustment,
             Documents!SubmitAdjustment(a) \/ Documents!ApproveAdjustment(a)
      PROVE  Kept
    <2>1. /\ "DRAFT" \in {"DRAFT", "SUBMITTED"} /\ "SUBMITTED" \in {"DRAFT", "SUBMITTED"}
          /\ "SUBMITTED" \in {"SUBMITTED", "APPROVED"} /\ "APPROVED" \in {"SUBMITTED", "APPROVED"}
        OBVIOUS
    <2> QED BY <1>8, <2>1, AdvanceStep DEF Documents!SubmitAdjustment, Documents!ApproveAdjustment
<1>9. ASSUME NEW c \in Count, NEW actual \in Counted, Documents!CompleteCount(c, actual)
      PROVE  Goal
    BY <1>9, CompleteCountStep DEF Goal
<1>10. CASE Documents!Next
    BY <1>1, <1>3, <1>4, <1>5, <1>6, <1>7, <1>8, <1>9, <1>10, BuyStep, SellStep, CreateTransferStep,
       ApproveStep, ReceiveStep, CancelStep, CompleteAdjustmentStep DEF Documents!Next
<1> QED BY <1>2, <1>10

LEMMA InitDocuments ==
    Documents!Init => DocumentsInv /\ Documents!StockExplained /\ PricesInv
PROOF
<1> SUFFICES ASSUME Documents!Init
             PROVE  DocumentsInv /\ Documents!StockExplained /\ PricesInv
    OBVIOUS
<1>1. /\ cell = [w \in Warehouse |-> [quantity |-> 0, avgCost |-> 0]]
      /\ transfer = [t \in Transfer |-> Documents!NoTransfer]
      /\ call = [r \in Call |-> Documents!NoCall]
      /\ count = [c \in Count |-> Documents!NoCount]
      /\ adjustment = [a \in Adjustment |-> Documents!NoAdjustment]
      /\ bought = [w \in Warehouse |-> 0] /\ taken = [w \in Warehouse |-> 0]
    BY DEF Documents!Init
<1>2. /\ Documents!NoTransfer \in TransferRow /\ Documents!NoTransfer.status = "NONE"
      /\ Documents!NoTransfer.version = 1
    BY DEF Documents!NoTransfer, TransferRow, Documents!TransferRow, Documents!TransferStatus
<1>3. Documents!NoCall \in CallRow /\ Documents!NoCall.pc = "idle"
    BY <1>2 DEF Documents!NoCall, CallRow
<1>4. Documents!NoCount \in CountRow /\ Documents!NoCount.status = "NONE"
    BY DEF Documents!NoCount, CountRow
<1>5. Documents!NoAdjustment \in AdjustmentRow /\ Documents!NoAdjustment.status = "NONE"
    BY DEF Documents!NoAdjustment, AdjustmentRow
<1>6. /\ cell \in [Warehouse -> Cell] /\ transfer \in [Transfer -> TransferRow]
      /\ call \in [Call -> CallRow] /\ count \in [Count -> CountRow]
      /\ adjustment \in [Adjustment -> AdjustmentRow]
      /\ bought \in [Warehouse -> Nat] /\ taken \in [Warehouse -> Nat]
    BY <1>1, <1>2, <1>3, <1>4, <1>5 DEF Cell
<1>7. Documents!TypeOK
    BY <1>6 DEF Documents!TypeOK, Cell, TransferRow, CallRow, CountRow, AdjustmentRow
<1>8. /\ \A t \in Transfer : transfer[t].status = "NONE" /\ transfer[t].version = 1
      /\ \A r \in Call : call[r].pc = "idle"
      /\ \A c \in Count : count[c].status = "NONE"
      /\ \A a \in Adjustment : adjustment[a].status = "NONE"
    BY <1>1, <1>2, <1>3, <1>4, <1>5
<1>9. TransferHistory /\ SeenBefore /\ DocumentsPlaced
    BY <1>8 DEF TransferHistory, SeenBefore, DocumentsPlaced
<1>10. DocumentsFinite
    <2>1. /\ {t \in Transfer : transfer[t].status # "NONE"} = {}
          /\ {c \in Count : count[c].status # "NONE"} = {}
          /\ {a \in Adjustment : adjustment[a].status # "NONE"} = {}
        BY <1>8
    <2> QED BY <2>1, FS_EmptySet DEF DocumentsFinite
<1>11. Documents!StockExplained
    <2> SUFFICES ASSUME NEW w \in Warehouse
                 PROVE  cell[w].quantity = bought[w] - taken[w] - LeftOf(w) + ArrivedOf(w)
                                           + CountedOf(w) + AdjustedOf(w)
        BY ExplainedSums
    <2>1. /\ Documents!Left(w) = {} /\ Documents!Arrived(w) = {}
          /\ Documents!CountedAt(w) = {} /\ Documents!AdjustedAt(w) = {}
        BY <1>8 DEF Documents!Left, Documents!Arrived, Documents!CountedAt, Documents!AdjustedAt
    <2>2. LeftOf(w) = 0 /\ ArrivedOf(w) = 0 /\ CountedOf(w) = 0 /\ AdjustedOf(w) = 0
        BY <2>1, SumEmpty DEF LeftOf, ArrivedOf, CountedOf, AdjustedOf
    <2> QED BY <1>1, <2>2
<1>12. PricesInv
    BY <1>1, <1>8 DEF PricesInv, NeverNegative, Documents!AverageWithinPrices
<1> QED BY <1>7, <1>9, <1>10, <1>11, <1>12 DEF DocumentsInv

---------------------------------------------------------------------------
(* Both together *)

LEMMA EitherMoves ==
    [BothNext]_<<focus, vars, documentVars>> => [Next]_vars /\ [Documents!Next]_(Documents!vars)
BY DEF BothNext, PurchasingNext, vars, documentVars, Documents!vars

LEMMA BothInvariant == BothSpec => [](PurchasingInv /\ DocumentsInv)
PROOF
<1>1. BothInit => PurchasingInv /\ DocumentsInv
    BY InitPurchasing, InitDocuments DEF BothInit
<1>2. PurchasingInv /\ DocumentsInv /\ [BothNext]_<<focus, vars, documentVars>>
        => (PurchasingInv /\ DocumentsInv)'
    BY EitherMoves, NextPurchasing, NextDocuments
<1> QED BY <1>1, <1>2, PTL DEF BothSpec

(* Every variable has its type (MCStock, TypesOK).                          *)
THEOREM TypesCorrect == BothSpec => []TypesOK
PROOF
<1>1. PurchasingInv /\ DocumentsInv => TypesOK
    BY DEF PurchasingInv, DocumentsInv, TypesOK
<1> QED BY <1>1, BothInvariant, PTL

(* Every purchase order, purchase return, transfer, stock count and         *)
(* adjustment is posted to the stock once, and the debt of the supplier     *)
(* with it, if a count names the item once (MCStock, PostedOnce).           *)
THEOREM DocumentsPostedOnce ==
    ASSUME CountedOnce
    PROVE  BothSpec => []PostedOnce
PROOF
<1>1. BothInit => Documents!StockExplained
    BY InitDocuments DEF BothInit
<1>2. ASSUME DocumentsInv, Documents!StockExplained, [BothNext]_<<focus, vars, documentVars>>
      PROVE  Documents!StockExplained'
    <2>1. [Documents!Next]_(Documents!vars)
        BY <1>2, EitherMoves
    <2> QED BY <1>2, <2>1, NextDocuments
<1>3. PurchasingInv /\ Documents!StockExplained => PostedOnce
    BY DEF PurchasingInv, PostedOnce
<1> QED BY <1>1, <1>2, <1>3, BothInvariant, PTL DEF BothSpec

(* Returns created one at a time, of lines that name every item once, never *)
(* take back more than was received (Purchasing, ReturnsOneAtATime).        *)
THEOREM ReturnedWithinReceived == BothSpec => []ReturnsOneAtATime
PROOF
<1>1. PurchasingInv => ReturnsOneAtATime
    BY OneAtATime
<1> QED BY <1>1, BothInvariant, PTL

(* Goods are carried at a cost between the lowest and the highest price     *)
(* they were bought at, however often they are moved and the average is     *)
(* rounded, unless the stock may go below zero or goods without a cost were *)
(* put in (StockDocuments, AverageWithinPrices).                            *)
THEOREM AverageBounded ==
    ASSUME ~AllowNegative
    PROVE  BothSpec => []AverageWithinPrices
PROOF
<1>1. BothInit => PricesInv
    BY InitDocuments DEF BothInit
<1>2. PurchasingInv /\ DocumentsInv /\ PricesInv /\ [BothNext]_<<focus, vars, documentVars>>
        => PricesInv'
    BY EitherMoves, NextDocuments
<1>3. PricesInv => AverageWithinPrices
    BY DEF PricesInv, AverageWithinPrices
<1> QED BY <1>1, <1>2, <1>3, BothInvariant, PTL DEF BothSpec
=============================================================================
