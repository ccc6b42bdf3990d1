-------------------------------- MODULE MCStock --------------------------------
(* What moves stock and debt besides the sales, for TLC: Purchasing with an *)
(* order of two items and one of one item, and StockDocuments with one of   *)
(* each document.  A behaviour is of one of the two: they share nothing but *)
(* the transactions of Inventory.  The calls of StockDocuments are given    *)
(* the values of the returns, so that one symmetry serves both.             *)
EXTENDS Purchasing, TLC

CONSTANTS o1, o2, nails, paint, tape

OrderOfItem == (nails :> o1) @@ (paint :> o1) @@ (tape :> o2)
OrderedQuantity == (nails :> 2) @@ (paint :> 1) @@ (tape :> 1)
Costs == (nails :> 1) @@ (paint :> 3) @@ (tape :> 1)
Discounts == (nails :> 1) @@ (paint :> 0) @@ (tape :> 0)
Before == (nails :> 1) @@ (paint :> 0) @@ (tape :> 0)

L(i, n) == [item |-> i, quantity |-> n]

(* Each item at most once in a return. *)
DistinctLines == {<<L(nails, 1)>>, <<L(nails, 2), L(paint, 1)>>, <<L(tape, 1)>>}

(* The same item on two lines. *)
RepeatedLines == {<<L(nails, 2), L(nails, 1)>>}

AllLines == DistinctLines \cup RepeatedLines
---------------------------------------------------------------------------
CONSTANTS
    NoCost, Warehouse, Transfer, Count, Adjustment, Call, Quantity, Delta, Counted,
    Price, MaxBought

VARIABLES cell, transfer, call, count, adjustment, bought, taken

OneEntry == {<<0>>}
Down == {-1}

Documents == INSTANCE StockDocuments WITH stock <- cell, sold <- taken
documentVars == <<cell, transfer, call, count, adjustment, bought, taken>>

ASSUME DocumentsAssumed == Documents!StockDocumentsAssumption
---------------------------------------------------------------------------
VARIABLE focus

Symmetry == Permutations(Return)
BothSymmetry == Symmetry \cup Permutations(Warehouse)

PurchasingInit == focus = "purchasing" /\ Init /\ Documents!Init
PurchasingNext == Next /\ UNCHANGED documentVars
PurchasingOnly == PurchasingInit /\ [][PurchasingNext /\ UNCHANGED focus]_<<focus, vars, documentVars>>

BothInit == focus \in {"purchasing", "documents"} /\ Init /\ Documents!Init
BothNext ==
    /\ \/ focus = "purchasing" /\ PurchasingNext
       \/ focus = "documents" /\ Documents!Next /\ UNCHANGED vars
    /\ UNCHANGED focus
BothSpec == BothInit /\ [][BothNext]_<<focus, vars, documentVars>>
---------------------------------------------------------------------------
(* Purchasing and StockDocuments: every variable has its type.              *)
TypesOK == TypeOK /\ Documents!TypeOK

(* Every document is posted to the stock once, when its status says so, and *)
(* the debt to the supplier along with it: the definitions of the same      *)
(* names in Purchasing and StockDocuments.                                  *)
PostedOnce == StockExplained /\ DebtExplained /\ Documents!StockExplained

(* See StockDocuments. *)
AverageWithinPrices == Documents!AverageWithinPrices
=============================================================================
