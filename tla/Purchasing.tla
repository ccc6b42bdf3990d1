------------------------------ MODULE Purchasing ------------------------------
(***************************************************************************)
(* Purchase orders and purchase returns of one supplier                     *)
(* (backend/src/modules/purchase-order, purchase-return): documents that    *)
(* move through their statuses, and what two of the transitions post to the *)
(* stock and to the debts ledger that SupplierPayment reads.                *)
(*                                                                          *)
(* Receiving an order and completing a return each claim the document by a  *)
(* conditional update first, hold its row lock to the end and roll          *)
(* everything back on an error: each is one step, the interleavings of      *)
(* their stock updates being the subject of Inventory.  Creating a return   *)
(* locks nothing, so its reads are steps of their own.                      *)
(***************************************************************************)
EXTENDS Integers, Sequences, FiniteSetsExt, SequencesExt

CONSTANTS
    Order,      \* purchase orders
    Item,       \* purchase items; each is stored in a stock cell of its own
    Return,     \* purchase returns
    OrderOf,    \* OrderOf[i]: the order of item i
    Ordered,    \* Ordered[i]: PurchaseItem.quantity
    UnitCost,   \* UnitCost[i]
    Discount,   \* Discount[i]: discount minus tax of the item
    Opening,    \* Opening[i]: stock of the cell before any order
    Lines,      \* what the items array of POST /purchase-returns may be
    AllowNegative   \* setting inventory.allowNegativeStock

(* What the quantity of a cell may be.                                      *)
Level == IF AllowNegative THEN Int ELSE Nat

Line == [item : Item, quantity : Nat \ {0}]

ASSUME PurchasingAssumption ==
    /\ OrderOf \in [Item -> Order]
    /\ \A o \in Order : IsFiniteSet({i \in Item : OrderOf[i] = o})
    /\ Ordered \in [Item -> Nat \ {0}]
    /\ UnitCost \in [Item -> Nat] /\ Discount \in [Item -> Int]
    /\ Opening \in [Item -> Level] /\ AllowNegative \in BOOLEAN
    /\ Lines \subseteq Seq(Line)

VARIABLES
    order,      \* order[o]: status and version of the row
    received,   \* received[i]: PurchaseItem.receivedQuantity
    doc,        \* doc[x]: the row of return x and its items
    create,     \* create[x]: the request that creates x, in memory; alone records
                \* that no other creation ran meanwhile, for the properties only
    stock,      \* stock[i]: quantity of the cell of i
    sold,       \* sold[i]: what other documents took out of that cell
    debt        \* SUM(debts.amount) of the supplier, before payments

vars == <<order, received, doc, create, stock, sold, debt>>

OrderStatus == {"NONE", "DRAFT", "APPROVED", "RECEIVED", "CANCELLED"}
ReturnStatus == {"NONE", "DRAFT", "APPROVED", "COMPLETED", "CANCELLED"}

TypeOK ==
    /\ order \in [Order -> [status : OrderStatus, version : 1..2]]
    /\ received \in [Item -> Nat]
    /\ doc \in [Return -> [status : ReturnStatus, version : 1..2, lines : Lines \cup {<<>>}]]
    /\ create \in [Return -> [pc : {"idle", "check", "done", "refused"},
                              lines : Lines \cup {<<>>}, next : Nat, alone : BOOLEAN]]
    /\ stock \in [Item -> Level] /\ sold \in [Item -> Nat]
    /\ debt \in Int

Init ==
    /\ order = [o \in Order |-> [status |-> "NONE", version |-> 1]]
    /\ received = [i \in Item |-> 0]
    /\ doc = [x \in Return |-> [status |-> "NONE", version |-> 1, lines |-> <<>>]]
    /\ create = [x \in Return |-> [pc |-> "idle", lines |-> <<>>, next |-> 1, alone |-> TRUE]]
    /\ stock = Opening
    /\ sold = [i \in Item |-> 0]
    /\ debt = 0

---------------------------------------------------------------------------
(* Quantities and amounts *)

QuantityOf(lines, i) ==
    SumFunction([n \in DOMAIN lines |-> IF lines[n].item = i THEN lines[n].quantity ELSE 0])

(* A return is valued at unit cost, an order less its discounts. *)
ReturnTotal(lines) ==
    SumFunction([n \in DOMAIN lines |-> lines[n].quantity * UnitCost[lines[n].item]])

ItemsOf(o) == {i \in Item : OrderOf[i] = o}
OrderTotal(o) == SumFunction([i \in ItemsOf(o) |-> Ordered[i] * UnitCost[i] - Discount[i]])

ReturnsIn(statuses) == {x \in Return : doc[x].status \in statuses}

ReturnedOf(i, statuses) ==
    SumFunctionOnSet([x \in Return |-> QuantityOf(doc[x].lines, i)], ReturnsIn(statuses))

Uncancelled == ReturnStatus \ {"NONE", "CANCELLED"}

(* Mutant of AlreadyReturned: only the returns that left the warehouse.     *)
CompletedReturned(i) == ReturnedOf(i, {"COMPLETED"})

AlreadyReturned(i) == ReturnedOf(i, Uncancelled)

---------------------------------------------------------------------------
(* Purchase orders *)

CreateOrder(o) ==
    /\ order[o].status = "NONE"
    /\ order' = [order EXCEPT ![o].status = "DRAFT"]
    /\ UNCHANGED <<received, doc, create, stock, sold, debt>>

ApproveOrder(o) ==
    /\ order[o].status = "DRAFT"
    /\ order' = [order EXCEPT ![o].status = "APPROVED"]
    /\ UNCHANGED <<received, doc, create, stock, sold, debt>>

OrderCancellable(o) == order[o].status \in {"DRAFT", "APPROVED"}

CancelOrder(o) ==
    /\ OrderCancellable(o)
    /\ order' = [order EXCEPT ![o].status = "CANCELLED"]
    /\ UNCHANGED <<received, doc, create, stock, sold, debt>>

OrderClaimed(o, version) ==
    order[o].status = "APPROVED" /\ order[o].version = version

(* Goods in, receivedQuantity, and a debt of the total. *)
ReceiveOrder(o, version) ==
    /\ OrderClaimed(o, version)
    /\ order' = [order EXCEPT ![o] = [status |-> "RECEIVED", version |-> 2]]
    /\ stock' = [i \in Item |-> IF OrderOf[i] = o THEN stock[i] + Ordered[i] ELSE stock[i]]
    /\ received' = [i \in Item |-> IF OrderOf[i] = o THEN Ordered[i] ELSE received[i]]
    /\ debt' = debt + OrderTotal(o)
    /\ UNCHANGED <<doc, create, sold>>

---------------------------------------------------------------------------
(* Purchase returns *)

(* The service finds the order received and every line among its items.     *)
StartReturn(x, o, lines) ==
    LET busy == {y \in Return : create[y].pc = "check"} IN
    /\ create[x].pc = "idle"
    /\ order[o].status = "RECEIVED"
    /\ \A n \in DOMAIN lines : OrderOf[lines[n].item] = o
    /\ create' = [y \in Return |->
                    IF y = x THEN [pc |-> "check", lines |-> lines, next |-> 1,
                                   alone |-> busy = {}]
                    ELSE [create[y] EXCEPT !.alone = create[y].alone /\ y \notin busy]]
    /\ UNCHANGED <<order, received, doc, stock, sold, debt>>

(* One turn of the loop: what earlier returns took of the item, this line,  *)
(* and what was received.                                                   *)
CheckLine(x) ==
    LET line == create[x].lines[create[x].next] IN
    /\ create[x].pc = "check"
    /\ create[x].next <= Len(create[x].lines)
    /\ IF AlreadyReturned(line.item) + line.quantity <= received[line.item]
       THEN create' = [create EXCEPT ![x].next = @ + 1]
       ELSE create' = [create EXCEPT ![x].pc = "refused"]
    /\ UNCHANGED <<order, received, doc, stock, sold, debt>>

InsertReturn(x) ==
    /\ create[x].pc = "check"
    /\ create[x].next > Len(create[x].lines)
    /\ create' = [create EXCEPT ![x].pc = "done"]
    /\ doc' = [doc EXCEPT ![x] = [@ EXCEPT !.status = "DRAFT", !.lines = create[x].lines]]
    /\ UNCHANGED <<order, received, stock, sold, debt>>

ApproveReturn(x) ==
    /\ doc[x].status = "DRAFT"
    /\ doc' = [doc EXCEPT ![x].status = "APPROVED"]
    /\ UNCHANGED <<order, received, create, stock, sold, debt>>

ReturnCancellable(x) == doc[x].status \in {"DRAFT", "APPROVED"}

CancelReturn(x) ==
    /\ ReturnCancellable(x)
    /\ doc' = [doc EXCEPT ![x].status = "CANCELLED"]
    /\ UNCHANGED <<order, received, create, stock, sold, debt>>

(* Mutant of InStock: the lines are checked one by one against the stock    *)
(* the transaction began with.                                              *)
EachInStock(lines) ==
    AllowNegative \/ \A n \in DOMAIN lines : lines[n].quantity <= stock[lines[n].item]

InStock(lines) == AllowNegative \/ \A i \in Item : QuantityOf(lines, i) <= stock[i]

(* Goods out, unless a cell may not turn negative and would, and a negative *)
(* debt.                                                                    *)
CompleteReturn(x, version) ==
    /\ doc[x].status = "APPROVED" /\ doc[x].version = version
    /\ InStock(doc[x].lines)
    /\ doc' = [doc EXCEPT ![x] = [@ EXCEPT !.status = "COMPLETED", !.version = 2]]
    /\ stock' = [i \in Item |-> stock[i] - QuantityOf(doc[x].lines, i)]
    /\ debt' = debt - ReturnTotal(doc[x].lines)
    /\ UNCHANGED <<order, received, create, sold>>

(* Everything else that takes stock, a sale for one. *)
Sell(i) ==
    /\ AllowNegative \/ stock[i] > 0
    /\ stock' = [stock EXCEPT ![i] = @ - 1]
    /\ sold' = [sold EXCEPT ![i] = @ + 1]
    /\ UNCHANGED <<order, received, doc, create, debt>>

---------------------------------------------------------------------------
Next ==
    \/ \E o \in Order : CreateOrder(o) \/ ApproveOrder(o) \/ CancelOrder(o)
    \/ \E o \in Order, version \in 1..2 : ReceiveOrder(o, version)
    \/ \E x \in Return, o \in Order, lines \in Lines : StartReturn(x, o, lines)
    \/ \E x \in Return : CheckLine(x) \/ InsertReturn(x)
    \/ \E x \in Return : ApproveReturn(x) \/ CancelReturn(x)
    \/ \E x \in Return, version \in 1..2 : CompleteReturn(x, version)
    \/ \E i \in Item : Sell(i)

Spec == Init /\ [][Next]_vars
---------------------------------------------------------------------------
(* Properties *)

Received == {o \in Order : order[o].status = "RECEIVED"}

(* The stock is what was there, plus the orders received, minus the returns *)
(* completed and what was sold: a document moves stock exactly when it is   *)
(* RECEIVED or COMPLETED, and once (prisma-purchase-order.repository.ts:153,*)
(* prisma-purchase-return.repository.ts:179).                               *)
StockExplained ==
    \A i \in Item :
        stock[i] = Opening[i] + (IF OrderOf[i] \in Received THEN Ordered[i] ELSE 0)
                   - sold[i] - ReturnedOf(i, {"COMPLETED"})

(* The debt to the supplier is the sum over the documents that posted, one  *)
(* entry each (prisma-purchase-order.repository.ts:229).                    *)
DebtExplained ==
    debt = SumFunctionOnSet([o \in Order |-> OrderTotal(o)], Received)
           - SumFunctionOnSet([x \in Return |-> ReturnTotal(doc[x].lines)],
                              ReturnsIn({"COMPLETED"}))

(* Of no item more is returned than was received, all returns together that *)
(* are not cancelled (docs/specifications/T045-PURCHASE-DOMAIN-SPEC.md:175).*)
ReturnsWithinReceived == \A i \in Item : ReturnedOf(i, Uncancelled) <= received[i]

(* The check of the code does enforce that for returns created one at a     *)
(* time that name every item once.                                          *)
NamesOnce(x) == IsInjective([n \in DOMAIN doc[x].lines |-> doc[x].lines[n].item])
Careful(x) == create[x].alone /\ NamesOnce(x)

ReturnsOneAtATime ==
    \A i \in Item :
        (\A x \in ReturnsIn(Uncancelled) : QuantityOf(doc[x].lines, i) > 0 => Careful(x))
        => ReturnedOf(i, Uncancelled) <= received[i]
==============================================================================
