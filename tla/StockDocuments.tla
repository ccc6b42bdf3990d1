--------------------------- MODULE StockDocuments ---------------------------
(***************************************************************************)
(* The internal documents of the stock: transfers between warehouses,       *)
(* stock counts and inventory adjustments (backend/src/modules/transfer,    *)
(* stock-count, inventory-adjustment), with purchases and sales beside      *)
(* them.  Their items act on one cell of the inventory each, so one product *)
(* is enough.                                                               *)
(*                                                                          *)
(* A transaction that moves stock claims its document first and rolls back  *)
(* as a whole: one step here, its statements being the subject of           *)
(* Inventory.  What happens outside it is a step of its own: the service    *)
(* reads a transfer, and computes the movements from what it read, before   *)
(* the transaction; a count remembers the quantity of the day it began.     *)
(***************************************************************************)
EXTENDS Integers, Functions, SequencesExt, AverageCost

CONSTANTS
    Warehouse,
    Transfer, Count, Adjustment,    \* documents
    Call,           \* HTTP calls that approve, receive or cancel a transfer
    Quantity,       \* quantities of a transfer
    Delta,          \* quantities of an adjustment, signed
    Counted,        \* what the items of PATCH /stock-count/:id/complete say of
                    \* the one item: sequences of actualQty
    Price,          \* unit costs of purchases
    MaxBought,      \* bound on the units bought into a warehouse, for model checking
    AllowNegative   \* setting inventory.allowNegativeStock

StockDocumentsAssumption ==
    /\ NoCost \notin Int
    /\ Quantity \subseteq Nat \ {0} /\ Delta \subseteq Int
    /\ Counted \subseteq Seq(Nat) /\ <<>> \notin Counted
    /\ Price \subseteq Nat /\ MaxBought \in Nat
    /\ AllowNegative \in BOOLEAN

VARIABLES
    stock,      \* stock[w]: quantity and avgCost of the cell
    transfer,   \* transfer[t]: the row and its item
    call,       \* call[r]: what the service holds of a transfer
    count,      \* count[c]: the row and its item
    adjustment, \* adjustment[a]: the row and its item
    bought,     \* bought[w]: units received from suppliers
    sold        \* sold[w]: units sold

vars == <<stock, transfer, call, count, adjustment, bought, sold>>

TransferStatus == {"NONE", "PENDING", "APPROVED", "RECEIVED", "CANCELLED"}
NoTransfer == [status |-> "NONE", version |-> 1, from |-> NoCost, to |-> NoCost,
               quantity |-> 0, unitCost |-> NoCost]
NoCall == [pc |-> "idle", op |-> NoCost, of |-> NoCost, version |-> 0, seen |-> NoTransfer]
NoCount == [status |-> "NONE", at |-> NoCost, system |-> 0, difference |-> 0]
NoAdjustment == [status |-> "NONE", at |-> NoCost, delta |-> 0]

TransferRow == [status : TransferStatus, version : 1..3, from : Warehouse \cup {NoCost},
                to : Warehouse \cup {NoCost}, quantity : Nat, unitCost : Int \cup {NoCost}]

TypeOK ==
    /\ stock \in [Warehouse -> [quantity : Int, avgCost : Int]]
    /\ transfer \in [Transfer -> TransferRow]
    /\ call \in [Call -> [pc : {"idle", "claim", "done", "refused"},
                          op : {"approve", "receive", "cancel", NoCost},
                          of : Transfer \cup {NoCost}, version : 0..3, seen : TransferRow]]
    /\ count \in [Count -> [status : {"NONE", "DRAFT", "COUNTING", "COMPLETED"},
                            at : Warehouse \cup {NoCost}, system : Int, difference : Int]]
    /\ adjustment \in [Adjustment ->
            [status : {"NONE", "DRAFT", "SUBMITTED", "APPROVED", "COMPLETED"},
             at : Warehouse \cup {NoCost}, delta : Int]]
    /\ bought \in [Warehouse -> Nat] /\ sold \in [Warehouse -> Nat]

Init ==
    /\ stock = [w \in Warehouse |-> [quantity |-> 0, avgCost |-> 0]]
    /\ transfer = [t \in Transfer |-> NoTransfer]
    /\ call = [r \in Call |-> NoCall]
    /\ count = [c \in Count |-> NoCount]
    /\ adjustment = [a \in Adjustment |-> NoAdjustment]
    /\ bought = [w \in Warehouse |-> 0]
    /\ sold = [w \in Warehouse |-> 0]

---------------------------------------------------------------------------
(* recordMovement *)

Move(w, delta, unitCost) ==
    stock' = [stock EXCEPT ![w] =
                [quantity |-> AfterQuantity(@.quantity, delta),
                 avgCost |-> AverageAfter(@.quantity, @.avgCost, delta, unitCost)]]

Enough(w, delta) == AllowNegative \/ AfterQuantity(stock[w].quantity, delta) >= 0

(* PurchaseOrder.receive and checkout.                                      *)
Buy(w, price) ==
    /\ bought[w] < MaxBought
    /\ Move(w, 1, price)
    /\ bought' = [bought EXCEPT ![w] = @ + 1]
    /\ UNCHANGED <<transfer, call, count, adjustment, sold>>

Sell(w) ==
    /\ Enough(w, -1) /\ sold[w] < MaxBought
    /\ Move(w, -1, NoCost)
    /\ sold' = [sold EXCEPT ![w] = @ + 1]
    /\ UNCHANGED <<transfer, call, count, adjustment, bought>>

---------------------------------------------------------------------------
(* Transfers *)

CreateTransfer(t, from, to, n) ==
    /\ transfer[t].status = "NONE"
    /\ from # to
    /\ transfer' = [transfer EXCEPT ![t] = [NoTransfer EXCEPT !.status = "PENDING",
                        !.from = from, !.to = to, !.quantity = n]]
    /\ UNCHANGED <<stock, call, count, adjustment, bought, sold>>

(* The service reads the transfer; the client sent a version it had read.   *)
StartCall(r, t, op, version) ==
    /\ call[r].pc = "idle"
    /\ transfer[t].status # "NONE"
    /\ version <= transfer[t].version
    /\ op = "cancel" => transfer[t].status \in {"PENDING", "APPROVED"}
    /\ call' = [call EXCEPT ![r] = [pc |-> "claim", op |-> op, of |-> t,
                                    version |-> version, seen |-> transfer[t]]]
    /\ UNCHANGED <<stock, transfer, count, adjustment, bought, sold>>

(* Mutant of Claimed: UPDATE ... WHERE status only of cancellable transfers. *)
ClaimedWhenActive(r, expected) == transfer[call[r].of].status \in {"PENDING", "APPROVED"}

(* The first statement: status and version as the call expects them.        *)
Claimed(r, expected) ==
    LET row == transfer[call[r].of] IN
    row.status = expected /\ row.version = call[r].version

ClaimAs(r, status, unitCost) ==
    /\ transfer' = [transfer EXCEPT ![call[r].of] =
            [@ EXCEPT !.status = status, !.version = transfer[call[r].of].version + 1,
                      !.unitCost = unitCost]]
    /\ call' = [call EXCEPT ![r].pc = "done"]
    /\ UNCHANGED <<count, adjustment, bought, sold>>

Serving(r, op) == call[r].pc = "claim" /\ call[r].op = op

(* Mutant of Approve: the average cost at the source is not kept. *)
ApproveWithoutCost(r) ==
    LET seen == call[r].seen IN
    /\ Serving(r, "approve")
    /\ Claimed(r, "PENDING")
    /\ Enough(seen.from, -seen.quantity)
    /\ Move(seen.from, -seen.quantity, NoCost)
    /\ ClaimAs(r, "APPROVED", NoCost)

(* The goods leave, and the item keeps the average cost they left at.       *)
Approve(r) ==
    LET seen == call[r].seen IN
    /\ Serving(r, "approve")
    /\ Claimed(r, "PENDING")
    /\ Enough(seen.from, -seen.quantity)
    /\ Move(seen.from, -seen.quantity, NoCost)
    /\ ClaimAs(r, "APPROVED", stock[seen.from].avgCost)

(* They arrive at that cost. *)
Receive(r) ==
    LET seen == call[r].seen IN
    /\ Serving(r, "receive")
    /\ Claimed(r, "APPROVED")
    /\ Move(seen.to, seen.quantity, seen.unitCost)
    /\ ClaimAs(r, "RECEIVED", transfer[call[r].of].unitCost)

(* Or go back at that cost, when the service saw that they had left.        *)
Cancel(r) ==
    LET seen == call[r].seen IN
    /\ Serving(r, "cancel")
    /\ Claimed(r, seen.status)
    /\ \/ seen.status = "APPROVED" /\ Move(seen.from, seen.quantity, seen.unitCost)
       \/ seen.status # "APPROVED" /\ UNCHANGED stock
    /\ ClaimAs(r, "CANCELLED", transfer[call[r].of].unitCost)

(* A lost claim, not enough stock, or any other error. *)
Refuse(r) ==
    /\ call[r].pc = "claim"
    /\ call' = [call EXCEPT ![r].pc = "refused"]
    /\ UNCHANGED <<stock, transfer, count, adjustment, bought, sold>>

---------------------------------------------------------------------------
(* Stock counts *)

CreateCount(c, w) ==
    /\ count[c].status = "NONE"
    /\ count' = [count EXCEPT ![c] = [NoCount EXCEPT !.status = "DRAFT", !.at = w,
                                                     !.system = stock[w].quantity]]
    /\ UNCHANGED <<stock, transfer, call, adjustment, bought, sold>>

StartCount(c) ==
    /\ count[c].status = "DRAFT"
    /\ count' = [count EXCEPT ![c].status = "COUNTING"]
    /\ UNCHANGED <<stock, transfer, call, adjustment, bought, sold>>

(* Every entry is compared with the quantity of CreateCount and posted, the *)
(* last one is what the item keeps; nothing is checked for negative stock.  *)
CompleteCount(c, actual) ==
    LET row == count[c] IN
    /\ row.status = "COUNTING"
    /\ count' = [count EXCEPT ![c] = [@ EXCEPT !.status = "COMPLETED",
                                               !.difference = Last(actual) - row.system]]
    /\ Move(row.at, SumFunction([n \in DOMAIN actual |-> actual[n] - row.system]), NoCost)
    /\ UNCHANGED <<transfer, call, adjustment, bought, sold>>

---------------------------------------------------------------------------
(* Adjustments *)

CreateAdjustment(a, w, delta) ==
    /\ adjustment[a].status = "NONE"
    /\ adjustment' = [adjustment EXCEPT ![a] = [status |-> "DRAFT", at |-> w, delta |-> delta]]
    /\ UNCHANGED <<stock, transfer, call, count, bought, sold>>

AdvanceAdjustment(a, from, to) ==
    /\ adjustment[a].status = from
    /\ adjustment' = [adjustment EXCEPT ![a].status = to]
    /\ UNCHANGED <<stock, transfer, call, count, bought, sold>>

SubmitAdjustment(a) == AdvanceAdjustment(a, "DRAFT", "SUBMITTED")
ApproveAdjustment(a) == AdvanceAdjustment(a, "SUBMITTED", "APPROVED")

CompleteAdjustment(a) ==
    LET row == adjustment[a] IN
    /\ row.status = "APPROVED"
    /\ Enough(row.at, row.delta)
    /\ Move(row.at, row.delta, NoCost)
    /\ adjustment' = [adjustment EXCEPT ![a].status = "COMPLETED"]
    /\ UNCHANGED <<transfer, call, count, bought, sold>>

---------------------------------------------------------------------------
Next ==
    \/ \E w \in Warehouse, price \in Price : Buy(w, price)
    \/ \E w \in Warehouse : Sell(w)
    \/ \E t \in Transfer, from, to \in Warehouse, n \in Quantity : CreateTransfer(t, from, to, n)
    \/ \E r \in Call, t \in Transfer, op \in {"approve", "receive", "cancel"}, v \in 1..3 :
            StartCall(r, t, op, v)
    \/ \E r \in Call : Approve(r) \/ Receive(r) \/ Cancel(r) \/ Refuse(r)
    \/ \E c \in Count, w \in Warehouse : CreateCount(c, w)
    \/ \E c \in Count : StartCount(c)
    \/ \E c \in Count, actual \in Counted : CompleteCount(c, actual)
    \/ \E a \in Adjustment, w \in Warehouse, delta \in Delta : CreateAdjustment(a, w, delta)
    \/ \E a \in Adjustment :
            SubmitAdjustment(a) \/ ApproveAdjustment(a) \/ CompleteAdjustment(a)

Spec == Init /\ [][Next]_vars
---------------------------------------------------------------------------
(* Properties *)

Left(w) == {t \in Transfer : transfer[t].from = w /\ transfer[t].status \in {"APPROVED", "RECEIVED"}}
Arrived(w) == {t \in Transfer : transfer[t].to = w /\ transfer[t].status = "RECEIVED"}
CountedAt(w) == {c \in Count : count[c].at = w /\ count[c].status = "COMPLETED"}
AdjustedAt(w) == {a \in Adjustment : adjustment[a].at = w /\ adjustment[a].status = "COMPLETED"}

(* The stock of a warehouse is what the documents say: goods are never lost *)
(* or doubled between two warehouses, however calls on the same transfer    *)
(* overlap (prisma-transfer.repository.ts:145), and a count or adjustment   *)
(* posts what it shows, once.                                               *)
StockExplained ==
    \A w \in Warehouse :
        stock[w].quantity =
            bought[w] - sold[w]
            - SumFunctionOnSet([t \in Transfer |-> transfer[t].quantity], Left(w))
            + SumFunctionOnSet([t \in Transfer |-> transfer[t].quantity], Arrived(w))
            + SumFunctionOnSet([c \in Count |-> count[c].difference], CountedAt(w))
            + SumFunctionOnSet([a \in Adjustment |-> adjustment[a].delta], AdjustedAt(w))

(* Goods are carried, wherever they have been moved, at a cost between the  *)
(* lowest and the highest they were ever bought at                          *)
(* (transfer.service.ts:216: the cost of the source goes with them), as     *)
(* long as no count and no adjustment has put in goods without a cost.      *)
CostKnown ==
    /\ \A c \in Count : count[c].status # "COMPLETED"
    /\ \A a \in Adjustment : adjustment[a].status = "COMPLETED" => adjustment[a].delta < 0

BetweenPrices(cost) == \E low, high \in Price : cost \in low..high

AverageWithinPrices ==
    CostKnown =>
        /\ \A w \in Warehouse : stock[w].quantity > 0 => BetweenPrices(stock[w].avgCost)
        /\ \A t \in Transfer : transfer[t].status = "APPROVED" =>
            BetweenPrices(transfer[t].unitCost)
=============================================================================
