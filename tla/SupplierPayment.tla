--------------------------- MODULE SupplierPayment ---------------------------
(***************************************************************************)
(* POST /supplier-payment (backend/src/modules/supplier-debt): the         *)
(* idempotency rows of supplier_payment_operations and the balance of one   *)
(* supplier, which is no column but the sum of the debts table minus the    *)
(* sum of the payments table, guarded by a transaction-level advisory lock. *)
(* Purchasing adds to the debts at any time, without that lock.             *)
(*                                                                          *)
(* The payment transaction runs statement by statement at READ COMMITTED:   *)
(* each statement sees what was committed when it started.                  *)
(***************************************************************************)
EXTENDS Integers

CONSTANTS
    Request,    \* HTTP calls; a retry is a call of its own
    Key,        \* values of the Idempotency-Key header
    Payload,    \* request bodies that differ (in requestFingerprint)
    Amount,     \* Amount[p]: what body p pays
    Price,      \* totalAmount of a purchase order or purchase return
    MaxDebt,    \* bound on what is ever bought, and returned, for model checking
    Faults,     \* what the environment may do, a subset of AllFaults
    None        \* NULL

(* crash     the server process dies during a call                           *)
(* stall     a call is still running STUCK_THRESHOLD_MS after its reserve    *)
(* lost_ack  the transaction commits but its COMMIT is not acknowledged      *)
AllFaults == {"crash", "stall", "lost_ack"}

ASSUME PaymentAssumption ==
    /\ Amount \in [Payload -> Nat \ {0}]
    /\ Price \subseteq Nat
    /\ MaxDebt \in Nat
    /\ Faults \subseteq AllFaults
    /\ None \notin Request \cup Key \cup Payload \cup Int

VARIABLES
    operation,  \* operation[k]: the row of supplier_payment_operations
    call,       \* call[r]: what request r holds in memory
    payment,    \* payment[r]: the payment r committed
    paid,       \* SUM(payments.amount)
    bought,     \* SUM(debts.amount) of the purchase orders received
    returned,   \* -SUM(debts.amount) of the purchase returns completed
    lock        \* holder of the advisory lock of the supplier

vars == <<operation, call, payment, paid, bought, returned, lock>>

NoPayment == [key |-> None]
NoRow == [status |-> "NONE", fingerprint |-> None, stuck |-> FALSE, payment |-> None]

(* The steps of a call.  "sum" reads the two sums of the balance, in either *)
(* order; from then on to the end of its transaction it holds the lock.     *)
Reserving == {"find", "create", "reclaim"}
InTransaction == {"sum", "insert"}
Owning == {"validate", "lock", "audit", "fail"} \cup InTransaction
Ended == {"answered", "replayed", "refused", "failed", "dead"}
Pc == {"idle", "replay"} \cup Reserving \cup Owning \cup Ended

PaymentRecord == [key : Key, fingerprint : Payload]
Row == [status : {"PROCESSING", "COMPLETED", "FAILED"}, fingerprint : Payload,
        stuck : BOOLEAN, payment : Request \cup {None}]
Call == [pc : Pc, key : Key \cup {None}, fingerprint : Payload \cup {None},
         debtSum : Int \cup {None}, paidSum : Int \cup {None},
         result : Request \cup {None}]

TypeOK ==
    /\ operation \in [Key -> Row \cup {NoRow}]
    /\ call \in [Request -> Call]
    /\ payment \in [Request -> PaymentRecord \cup {NoPayment}]
    /\ paid \in Nat /\ bought \in Nat /\ returned \in Nat
    /\ lock \in Request \cup {None}

Init ==
    /\ operation = [k \in Key |-> NoRow]
    /\ call = [r \in Request |-> [pc |-> "idle", key |-> None, fingerprint |-> None,
                                  debtSum |-> None, paidSum |-> None, result |-> None]]
    /\ payment = [r \in Request |-> NoPayment]
    /\ paid = 0 /\ bought = 0 /\ returned = 0
    /\ lock = None

---------------------------------------------------------------------------
(* Helpers *)

At(r, step) == call[r].pc = step
Set(r, c) == call' = [call EXCEPT ![r] = c]
Goto(r, step) == Set(r, [call[r] EXCEPT !.pc = step])
Made == {r \in Request : payment[r] # NoPayment}
PaymentsOf(k) == {r \in Made : payment[r].key = k}
Owners(k) == {r \in Request : call[r].pc \in Owning /\ call[r].key = k}

ledgers == <<payment, paid, bought, returned>>

---------------------------------------------------------------------------
(* The debts, as Purchasing writes them *)

(* PurchaseOrder.receive inserts a debt of the order's total.               *)
Buy(amount) ==
    /\ bought + amount <= MaxDebt
    /\ bought' = bought + amount
    /\ UNCHANGED <<operation, call, payment, paid, returned, lock>>

(* PurchaseReturn.complete inserts a negative one.                          *)
Return(amount) ==
    /\ returned + amount <= MaxDebt
    /\ returned' = returned + amount
    /\ UNCHANGED <<operation, call, payment, paid, bought, lock>>

---------------------------------------------------------------------------
(* Step 1: reserve, three statements with nothing held in between *)

Receive(r, k, p) ==
    /\ At(r, "idle")
    /\ Set(r, [call[r] EXCEPT !.pc = "find", !.key = k, !.fingerprint = p])
    /\ UNCHANGED <<operation, ledgers, lock>>

(* Mutant of Find: a COMPLETED row is replayed whatever the payload. *)
FindIgnoringFingerprint(r) ==
    LET row == operation[call[r].key] IN
    /\ At(r, "find")
    /\ \/ row.status = "NONE" /\ Goto(r, "create")
       \/ /\ row.status = "COMPLETED"
          /\ Set(r, [call[r] EXCEPT !.pc = "replay", !.result = row.payment])
       \/ row.status \in {"PROCESSING", "FAILED"} /\ Goto(r, "refused")
    /\ UNCHANGED <<operation, ledgers, lock>>

(* findByKey and the branches taken on what it returned.  Unlike the        *)
(* checkout, a row of another fingerprint is never reclaimed.               *)
Find(r) ==
    LET row == operation[call[r].key]
        same == row.fingerprint = call[r].fingerprint
    IN
    /\ At(r, "find")
    /\ \/ row.status = "NONE" /\ Goto(r, "create")
       \/ /\ row.status = "COMPLETED" /\ same
          /\ Set(r, [call[r] EXCEPT !.pc = "replay", !.result = row.payment])
       \/ row.status = "PROCESSING" /\ ~row.stuck /\ Goto(r, "refused")
       \/ /\ row.status = "FAILED" \/ (row.status = "PROCESSING" /\ row.stuck)
          /\ same
          /\ Goto(r, "reclaim")
       \/ row.status # "NONE" /\ ~same /\ Goto(r, "refused")
    /\ UNCHANGED <<operation, ledgers, lock>>

(* Mutant of Create: the loser of the race for the key ends up in the catch of the winner. *)
CreateInsideTry(r) ==
    LET k == call[r].key IN
    /\ At(r, "create")
    /\ \/ /\ operation[k].status = "NONE"
          /\ operation' = [operation EXCEPT ![k] =
                            [status |-> "PROCESSING", fingerprint |-> call[r].fingerprint,
                             stuck |-> FALSE, payment |-> None]]
          /\ Goto(r, "validate")
       \/ operation[k].status # "NONE" /\ Goto(r, "fail") /\ UNCHANGED operation
    /\ UNCHANGED <<ledgers, lock>>

(* INSERT; the unique key refuses the second of two. *)
Create(r) ==
    LET k == call[r].key IN
    /\ At(r, "create")
    /\ \/ /\ operation[k].status = "NONE"
          /\ operation' = [operation EXCEPT ![k] =
                            [status |-> "PROCESSING", fingerprint |-> call[r].fingerprint,
                             stuck |-> FALSE, payment |-> None]]
          /\ Goto(r, "validate")
       \/ operation[k].status # "NONE" /\ Goto(r, "refused") /\ UNCHANGED operation
    /\ UNCHANGED <<ledgers, lock>>

(* Mutant of Reclaimable: a row just reclaimed can be reclaimed again. *)
ReclaimableFresh(row, fingerprint) ==
    row.fingerprint = fingerprint /\ row.status # "COMPLETED"

Reclaimable(row, fingerprint) ==
    /\ row.fingerprint = fingerprint
    /\ row.status = "FAILED" \/ (row.status = "PROCESSING" /\ row.stuck)

(* tryReclaim: one conditional UPDATE; the fingerprint is not among what it *)
(* writes.                                                                  *)
TryReclaim(r) ==
    LET k == call[r].key IN
    /\ At(r, "reclaim")
    /\ \/ /\ Reclaimable(operation[k], call[r].fingerprint)
          /\ operation' = [operation EXCEPT ![k] =
                            [status |-> "PROCESSING", fingerprint |-> @.fingerprint,
                             stuck |-> FALSE, payment |-> None]]
          /\ Goto(r, "validate")
       \/ /\ ~Reclaimable(operation[k], call[r].fingerprint)
          /\ Goto(r, "refused") /\ UNCHANGED operation
    /\ UNCHANGED <<ledgers, lock>>

(* REPLAY: the stored payment is read and returned. *)
Replay(r) ==
    /\ At(r, "replay")
    /\ Goto(r, "replayed")
    /\ UNCHANGED <<operation, ledgers, lock>>

---------------------------------------------------------------------------
(* Step 2: the payment *)

(* Supplier, branch and purchase order are looked up; one may be missing.   *)
Validate(r) ==
    /\ At(r, "validate")
    /\ Goto(r, "lock") \/ Goto(r, "fail")
    /\ UNCHANGED <<operation, ledgers, lock>>

(* Mutant of Lock: the balance is read without waiting for the lock. *)
LockNotAwaited(r) ==
    /\ At(r, "lock")
    /\ lock' = r
    /\ Set(r, [call[r] EXCEPT !.pc = "sum", !.debtSum = None, !.paidSum = None])
    /\ UNCHANGED <<operation, ledgers>>

(* pg_advisory_xact_lock, the first statement of the transaction.           *)
Lock(r) ==
    /\ At(r, "lock")
    /\ lock = None
    /\ lock' = r
    /\ Set(r, [call[r] EXCEPT !.pc = "sum", !.debtSum = None, !.paidSum = None])
    /\ UNCHANGED <<operation, ledgers>>

(* computeBalance: two aggregates issued together, one statement each.      *)
SumDebts(r) ==
    /\ At(r, "sum")
    /\ call[r].debtSum = None
    /\ Set(r, [call[r] EXCEPT !.debtSum = bought - returned,
                              !.pc = IF call[r].paidSum # None THEN "insert" ELSE "sum"])
    /\ UNCHANGED <<operation, ledgers, lock>>

SumPayments(r) ==
    /\ At(r, "sum")
    /\ call[r].paidSum = None
    /\ Set(r, [call[r] EXCEPT !.paidSum = paid,
                              !.pc = IF call[r].debtSum # None THEN "insert" ELSE "sum"])
    /\ UNCHANGED <<operation, ledgers, lock>>

Covered(r) == Amount[call[r].fingerprint] <= call[r].debtSum - call[r].paidSum

Unlocked(r) == lock' = IF lock = r THEN None ELSE lock

(* The amount exceeds the balance: rolled back.                             *)
Rollback(r) ==
    /\ At(r, "insert")
    /\ ~Covered(r)
    /\ Goto(r, "fail")
    /\ Unlocked(r)
    /\ UNCHANGED <<operation, ledgers>>

(* markCompleted, the last statement: UPDATE ... WHERE id, no other guard.  *)
MarkCompleted(k, r) ==
    operation' = [operation EXCEPT ![k] = [@ EXCEPT !.status = "COMPLETED",
                                                    !.payment = r]]

(* The payment is inserted, the row completed, both committed.  With a lost *)
(* acknowledgement the caller sees an exception all the same.               *)
Commit(r) ==
    /\ At(r, "insert")
    /\ Covered(r)
    /\ payment' = [payment EXCEPT ![r] = [key |-> call[r].key,
                                          fingerprint |-> call[r].fingerprint]]
    /\ paid' = paid + Amount[call[r].fingerprint]
    /\ MarkCompleted(call[r].key, r)
    /\ \/ Set(r, [call[r] EXCEPT !.pc = "audit", !.result = r])
       \/ "lost_ack" \in Faults /\ Goto(r, "fail")
    /\ Unlocked(r)
    /\ UNCHANGED <<bought, returned>>

(* The audit log does not throw; then the answer. *)
Finish(r) ==
    /\ At(r, "audit")
    /\ Goto(r, "answered")
    /\ UNCHANGED <<operation, ledgers, lock>>

(* The catch around everything after reserve: UPDATE ... WHERE id.          *)
MarkFailed(r) ==
    /\ At(r, "fail")
    /\ operation' = [operation EXCEPT ![call[r].key] = [@ EXCEPT !.status = "FAILED"]]
    /\ Goto(r, "failed")
    /\ UNCHANGED <<ledgers, lock>>

---------------------------------------------------------------------------
(* The environment *)

(* A statement of the transaction fails or outlasts Prisma's timeout.       *)
StatementFails(r) ==
    /\ call[r].pc \in {"lock"} \cup InTransaction
    /\ Goto(r, "fail")
    /\ Unlocked(r)
    /\ UNCHANGED <<operation, ledgers>>

(* The process dies; the database rolls back and frees the lock.            *)
Crash(r) ==
    /\ "crash" \in Faults
    /\ call[r].pc \in Reserving \cup {"replay"} \cup Owning
    /\ Goto(r, "dead")
    /\ Unlocked(r)
    /\ UNCHANGED <<operation, ledgers>>

(* Two minutes pass.  Without the fault "stall" no call takes that long.    *)
Age(k) ==
    /\ operation[k].status = "PROCESSING"
    /\ "stall" \in Faults \/ Owners(k) = {}
    /\ operation' = [operation EXCEPT ![k] = [@ EXCEPT !.stuck = TRUE]]
    /\ UNCHANGED <<call, ledgers, lock>>

---------------------------------------------------------------------------
ServerStep(r) ==
    \/ Find(r) \/ Create(r) \/ TryReclaim(r) \/ Replay(r)
    \/ Validate(r) \/ Lock(r) \/ SumDebts(r) \/ SumPayments(r)
    \/ Rollback(r) \/ Commit(r) \/ Finish(r) \/ MarkFailed(r)

Next ==
    \/ \E amount \in Price : Buy(amount) \/ Return(amount)
    \/ \E r \in Request, k \in Key, p \in Payload : Receive(r, k, p)
    \/ \E r \in Request : ServerStep(r) \/ StatementFails(r) \/ Crash(r)
    \/ \E k \in Key : Age(k)

Spec == Init /\ [][Next]_vars
---------------------------------------------------------------------------
(* Properties *)

(* A supplier is never paid more than was ever bought from it, whatever     *)
(* fails: the advisory lock keeps the balance read and the payment          *)
(* inserted together (prisma-supplier-debt.repository.ts:100).              *)
PaidWithinDebt == paid <= bought

(* Under one key there is one intent: every payment under it, and every     *)
(* answer replayed for it, is of the fingerprint that created the row, also *)
(* after a reclaim (supplier-payment-operation.service.ts:29).              *)
OneIntentPerKey ==
    /\ \A r \in Made : payment[r].fingerprint = operation[payment[r].key].fingerprint
    /\ \A r \in Request : At(r, "replayed") =>
            /\ call[r].result \in PaymentsOf(call[r].key)
            /\ payment[call[r].result].fingerprint = call[r].fingerprint

---------------------------------------------------------------------------
(* Inductive strengthenings, for SupplierPaymentProofs *)

(* Past its reserve a call has a key and a payload. *)
Addressed == \A r \in Request : ~At(r, "idle") =>
    call[r].key \in Key /\ call[r].fingerprint \in Payload

(* What a call has read of the balance is at most stale by debts added, and *)
(* only the holder of the lock has read any.                                *)
LockInv == \A r \in Request : call[r].pc \in InTransaction =>
    /\ lock = r
    /\ call[r].debtSum \in Int \cup {None}
    /\ call[r].debtSum # None => call[r].debtSum <= bought
    /\ call[r].paidSum # None => call[r].paidSum = paid
    /\ At(r, "insert") => call[r].debtSum # None /\ call[r].paidSum # None

Unpaid == {"idle", "validate", "lock"} \cup Reserving \cup InTransaction

(* Fingerprints agree between a row, the calls that own it and the payments *)
(* under its key; a COMPLETED row names one of those payments.              *)
IntentInv ==
    /\ \A r \in Request : call[r].pc \in Unpaid => payment[r] = NoPayment
    /\ \A r \in Request : call[r].pc \in Owning =>
            /\ operation[call[r].key].status # "NONE"
            /\ operation[call[r].key].fingerprint = call[r].fingerprint
    /\ \A r \in Made : /\ operation[payment[r].key].status # "NONE"
                       /\ operation[payment[r].key].fingerprint = payment[r].fingerprint
    /\ \A k \in Key : operation[k].status = "COMPLETED" =>
            /\ operation[k].payment \in Made
            /\ payment[operation[k].payment].key = k
    /\ \A r \in Request : call[r].pc \in {"replay", "replayed"} =>
            /\ call[r].result \in Made
            /\ payment[call[r].result].key = call[r].key
            /\ payment[call[r].result].fingerprint = call[r].fingerprint
==============================================================================
