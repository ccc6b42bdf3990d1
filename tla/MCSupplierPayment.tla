-------------------------- MODULE MCSupplierPayment --------------------------
(* SupplierPayment on small sets: two bodies that pay 1 and 2.  What may go *)
(* wrong is chosen for a whole behaviour: crashes alone, under which every  *)
(* payment is made once, or the faults of the configuration, under which a  *)
(* call that is slow or not acknowledged may be repeated and only the rest  *)
(* is promised.  A crash needs no place among those: a slow call may fail   *)
(* its transaction and never be heard of again.                             *)
EXTENDS SupplierPayment, TLC

CONSTANTS small, large      \* the two bodies

VARIABLE environment        \* "crashes" or "delays"

Bodies == {small, large}
Amounts == (small :> 1) @@ (large :> 2)

Symmetry == Permutations(Request) \cup Permutations(Key)

Crashing == INSTANCE SupplierPayment WITH Faults <- {"crash"}

ChosenInit == Init /\ environment \in {"crashes", "delays"}
ChosenNext ==
    /\ \/ environment = "crashes" /\ Crashing!Next
       \/ environment = "delays" /\ Next
    /\ UNCHANGED environment
ChosenSpec == ChosenInit /\ [][ChosenNext]_<<environment, vars>>
---------------------------------------------------------------------------
(* Under crashes alone only the call that holds a row may mark it FAILED:   *)
(* the row of another call still at work never turns FAILED                 *)
(* (supplier-debt.service.ts:189, supplier-payment-operation.service.ts:120). *)
OnlyOwnerFails ==
    [][environment = "crashes" =>
        \A r \in Request : MarkFailed(r) => Owners(call[r].key) = {r}]_vars

(* The command as its clients see it, where crashes are all that happens.   *)
Promised(set) == IF environment = "crashes" THEN set ELSE {}
Answered == {r \in Request : call[r].pc \in {"answered", "replayed"}}
Command == INSTANCE IdempotentCommand WITH
    Effect <- Request,
    effects <- [k \in Key |-> Promised(PaymentsOf(k))],
    answers <- {<<call[r].key, call[r].result>> : r \in Promised(Answered)}

(* Rows, lock and retries together implement the at-most-once command, its  *)
(* rows marked COMPLETED with the payment they guard                        *)
(* (prisma-supplier-debt.repository.ts:143).                                *)
ImplementsCommand == Command!Spec
==============================================================================
