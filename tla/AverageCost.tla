----------------------------- MODULE AverageCost -----------------------------
(***************************************************************************)
(* Moving average cost: applyInventoryDelta of                              *)
(* backend/src/common/utils/average-cost.util.ts and the column it is       *)
(* stored in.  Quantities and costs are integers: thousandths of a unit and *)
(* cents, the scales of the columns quantity DECIMAL(18,3) and avgCost      *)
(* DECIMAL(18,2).                                                           *)
(***************************************************************************)
EXTENDS Integers

CONSTANT NoCost          \* unitCost null or absent

ASSUME NoCostAssumption == NoCost \notin Int

(* n / d as avgCost keeps it: rounded to the nearest, halves away from 0.   *)
RoundedQuotient(n, d) ==
    LET num == IF d < 0 THEN -n ELSE n
        den == IF d < 0 THEN -d ELSE d
    IN  IF num >= 0 THEN (2 * num + den) \div (2 * den)
                    ELSE -((den - 2 * num) \div (2 * den))

AfterQuantity(before, delta) == before + delta

(* Only a receipt with a known cost moves the average. *)
AverageAfter(before, average, delta, unitCost) ==
    IF delta > 0 /\ unitCost # NoCost
    THEN IF AfterQuantity(before, delta) = 0
         THEN 0
         ELSE RoundedQuotient(before * average + delta * unitCost,
                              AfterQuantity(before, delta))
    ELSE average
=============================================================================
