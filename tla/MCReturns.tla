------------------------------ MODULE MCReturns ------------------------------
(* Instances of SalesReturn and RefundCommand for TLC.  The run of the      *)
(* returns explores two things that share everything but the refunds' keys: *)
(* the returns of an invoice, where every refund is a call of its own, and  *)
(* the refunds of a return that was received, where calls share keys.       *)
EXTENDS RefundCommand, TLC

CONSTANTS i1, i2

VARIABLE focus

OneItem == {i1}
TwoItems == {i1, i2}
TwoOfEach == [i \in Item |-> IF i = i1 THEN 2 ELSE 1]
Values == [i \in Item |-> IF i = i1 THEN 1 ELSE 2]
NoService == {i1}

(* A line, two lines of one item, both items in both orders. *)
SomeLines == {
    <<[item |-> i1, quantity |-> 1]>>,
    <<[item |-> i1, quantity |-> 1], [item |-> i1, quantity |-> 1]>>,
    <<[item |-> i2, quantity |-> 1], [item |-> i1, quantity |-> 2]>>}

(* One of the two pieces sold, or both. *)
OneOrBoth == {<<[item |-> i1, quantity |-> n]>> : n \in 1..2}

Symmetry == Permutations(Worker) \cup Permutations(Return)
CommandSymmetry == Symmetry \cup Permutations(Key)

ReturnsInit == focus = "returns" /\ Init /\ CommandIdle
ReturnsNext == Next /\ UNCHANGED <<operation, request>>
ReturnsOnly == ReturnsInit /\ [][ReturnsNext /\ UNCHANGED focus]_<<focus, commandVars>>

BothInit == ReturnsInit \/ (focus = "refunds" /\ CommandInit)
BothNext ==
    /\ \/ focus = "returns" /\ ReturnsNext
       \/ focus = "refunds" /\ CommandNext
    /\ UNCHANGED focus
BothSpec == BothInit /\ [][BothNext]_<<focus, commandVars>>
=============================================================================
