----------------------------- MODULE MCInventory -----------------------------
(* Inventory on two cells of one warehouse.                                 *)
EXTENDS Inventory

CONSTANTS p, q      \* two products

Increase(c, n, cost) == [cell |-> c, delta |-> n, unitCost |-> cost, check |-> FALSE]
Decrease(c, n) == [cell |-> c, delta |-> -n, unitCost |-> NoCost, check |-> TRUE]

(* Receipts at two prices, sales, and documents that lock two rows in       *)
(* opposite orders.                                                         *)
MixedDocuments ==
    {<<Increase(p, 2, 10)>>, <<Decrease(p, 1)>>,
     <<Increase(p, 1, 40), Increase(q, 1, 10)>>, <<Decrease(q, 1), Decrease(p, 1)>>,
     <<Increase(q, 1, 10), Decrease(q, 1)>>}

==============================================================================
