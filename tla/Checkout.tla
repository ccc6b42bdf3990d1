------------------------------- MODULE Checkout -------------------------------
(***************************************************************************)
(* POST /checkout (backend/src/modules/checkout): the idempotency row of    *)
(* checkout_operations, the Redis cart, the voucher counter and the stock,  *)
(* as the requests of several clients use them.                             *)
(*                                                                          *)
(* Every await that reads or writes shared state is a step of its own, so   *)
(* the requests interleave between them.  The business transaction is one   *)
(* step: it commits as a whole or not at all, and every row it writes       *)
(* stays locked until it commits (module Inventory opens it up).            *)
(***************************************************************************)
EXTENDS Naturals, FiniteSets

CONSTANTS
    Request,        \* HTTP calls; a retry is a call of its own
    Key,            \* values of the Idempotency-Key header
    Payload,        \* request bodies that differ (in requestHash)
    VoucherPayload, \* the bodies that carry a voucher code
    User,           \* cashiers; a cart belongs to one
    Line,           \* cart lines, one unit of the product each
    UsageLimit,     \* vouchers.usageLimit
    InitialStock,   \* units in the warehouse at the start
    Faults,         \* what the environment may do, a subset of AllFaults
    NoRequest       \* NULL

(* crash     the server process dies during a call                           *)
(* stall     a call is still running STUCK_THRESHOLD_MS after its reserve    *)
(* redis     deleting the cart fails                                         *)
(* lost_ack  the transaction commits but its COMMIT is not acknowledged      *)
(* overlap   one cashier has several calls open at a time                    *)
AllFaults == {"crash", "stall", "redis", "lost_ack", "overlap"}

ASSUME CheckoutAssumption ==
    /\ VoucherPayload \subseteq Payload
    /\ UsageLimit \in Nat
    /\ InitialStock \in Nat
    /\ IsFiniteSet(Line) /\ IsFiniteSet(Request)
    /\ Faults \subseteq AllFaults
    /\ NoRequest \notin Request \cup Key \cup Payload \cup User

VARIABLES
    operation,  \* operation[k]: the row of checkout_operations with that key
    call,       \* call[r]: what request r holds in memory
    invoice,    \* invoice[r]: the invoice, and its payment, r committed
    cart,       \* cart[u]: the cart of u in Redis
    usedCount,  \* vouchers.usedCount
    stock       \* inventories.quantity

vars == <<operation, call, invoice, cart, usedCount, stock>>

NoInvoice == [key |-> NoRequest]
NoRow == [status |-> "NONE", hash |-> NoRequest, stuck |-> FALSE,
          invoice |-> NoRequest]

(* The steps of a call between its reserve and its answer: operationId is   *)
(* the row's, so several calls may be past the reserve of one row.          *)
BeforeCommit == {"cart", "voucher", "tx"}
AfterCommit == {"clear", "audit"}
Owning == BeforeCommit \cup AfterCommit \cup {"fail"}
Reserving == {"find", "create", "reclaim"}
Ended == {"answered", "replayed", "refused", "failed", "dead"}
Pc == {"idle"} \cup Reserving \cup {"replay"} \cup Owning \cup Ended

InvoiceRecord == [key : Key, hash : Payload, lines : SUBSET Line]
Row == [status : {"NONE", "PROCESSING", "COMPLETED", "FAILED"},
        hash : Payload \cup {NoRequest}, stuck : BOOLEAN,
        invoice : Request \cup {NoRequest}]
Call == [pc : Pc, key : Key \cup {NoRequest}, hash : Payload \cup {NoRequest},
         user : User \cup {NoRequest}, lines : SUBSET Line, seenUsed : Nat,
         result : Request \cup {NoRequest}]

TypeOK ==
    /\ operation \in [Key -> Row]
    /\ call \in [Request -> Call]
    /\ invoice \in [Request -> InvoiceRecord \cup {NoInvoice}]
    /\ cart \in [User -> SUBSET Line]
    /\ usedCount \in Nat
    /\ stock \in Nat

Init ==
    /\ operation = [k \in Key |-> NoRow]
    /\ call = [r \in Request |->
                [pc |-> "idle", key |-> NoRequest, hash |-> NoRequest,
                 user |-> NoRequest, lines |-> {}, seenUsed |-> 0,
                 result |-> NoRequest]]
    /\ invoice = [r \in Request |-> NoInvoice]
    /\ cart = [u \in User |-> {}]
    /\ usedCount = 0
    /\ stock = InitialStock

---------------------------------------------------------------------------
(* Helpers *)

At(r, step) == call[r].pc = step
Goto(r, step) == call' = [call EXCEPT ![r].pc = step]
Committed == {r \in Request : invoice[r] # NoInvoice}
InvoicesOf(k) == {r \in Committed : invoice[r].key = k}
Owners(k) == {r \in Request : call[r].pc \in Owning /\ call[r].key = k}
Open(u) == {r \in Request : call[r].user = u
                            /\ call[r].pc \notin Ended \cup {"idle"}}
UsesVoucher(hash) == hash \in VoucherPayload
VoucherSales == {r \in Committed : UsesVoucher(invoice[r].hash)}

---------------------------------------------------------------------------
(* The cart and the call *)

(* A line is added to a cart; a line is a new one each time. *)
AddLine(u, l) ==
    /\ \A v \in User : l \notin cart[v]
    /\ \A r \in Request : l \notin call[r].lines
    /\ "overlap" \in Faults \/ Open(u) = {}
    /\ cart' = [cart EXCEPT ![u] = @ \cup {l}]
    /\ UNCHANGED <<operation, call, invoice, usedCount, stock>>

Receive(r, k, p, u) ==
    /\ At(r, "idle")
    /\ "overlap" \in Faults \/ Open(u) = {}
    /\ call' = [call EXCEPT ![r].pc = "find", ![r].key = k,
                            ![r].hash = p, ![r].user = u]
    /\ UNCHANGED <<operation, invoice, cart, usedCount, stock>>

---------------------------------------------------------------------------
(* Step 1: reserve, three statements with nothing held in between *)

(* Mutant of Find: the hash of a completed row is not compared.             *)
FindIgnoringHash(r) ==
    LET row == operation[call[r].key] IN
    /\ At(r, "find")
    /\ \/ row.status = "NONE" /\ Goto(r, "create")
       \/ /\ row.status = "COMPLETED"
          /\ call' = [call EXCEPT ![r].pc = "replay", ![r].result = row.invoice]
       \/ row.status = "PROCESSING" /\ ~row.stuck /\ Goto(r, "refused")
       \/ /\ row.status = "FAILED" \/ (row.status = "PROCESSING" /\ row.stuck)
          /\ Goto(r, "reclaim")
    /\ UNCHANGED <<operation, invoice, cart, usedCount, stock>>

(* findByKey and the branches taken on what it returned. *)
Find(r) ==
    LET row == operation[call[r].key] IN
    /\ At(r, "find")
    /\ \/ row.status = "NONE" /\ Goto(r, "create")
       \/ row.status = "COMPLETED" /\ row.hash # call[r].hash /\ Goto(r, "refused")
       \/ /\ row.status = "COMPLETED" /\ row.hash = call[r].hash
          /\ call' = [call EXCEPT ![r].pc = "replay", ![r].result = row.invoice]
       \/ row.status = "PROCESSING" /\ ~row.stuck /\ Goto(r, "refused")
       \/ /\ row.status = "FAILED" \/ (row.status = "PROCESSING" /\ row.stuck)
          /\ Goto(r, "reclaim")
    /\ UNCHANGED <<operation, invoice, cart, usedCount, stock>>

(* Mutant of Create: an upsert instead of an insert. *)
CreateOrOverwrite(r) ==
    /\ At(r, "create")
    /\ operation' = [operation EXCEPT ![call[r].key] =
                        [status |-> "PROCESSING", hash |-> call[r].hash,
                         stuck |-> FALSE, invoice |-> NoRequest]]
    /\ Goto(r, "cart")
    /\ UNCHANGED <<invoice, cart, usedCount, stock>>

(* INSERT; the unique key refuses the second of two. *)
Create(r) ==
    LET k == call[r].key IN
    /\ At(r, "create")
    /\ \/ /\ operation[k].status = "NONE"
          /\ operation' = [operation EXCEPT ![k] =
                            [status |-> "PROCESSING", hash |-> call[r].hash,
                             stuck |-> FALSE, invoice |-> NoRequest]]
          /\ Goto(r, "cart")
       \/ operation[k].status # "NONE" /\ Goto(r, "refused") /\ UNCHANGED operation
    /\ UNCHANGED <<invoice, cart, usedCount, stock>>

(* Mutant of Reclaimable: the WHERE clause does not ask for a stuck row.     *)
ReclaimableFresh(row) == row.status \in {"FAILED", "PROCESSING"}

Reclaimable(row) == row.status = "FAILED" \/ (row.status = "PROCESSING" /\ row.stuck)

(* tryReclaim: one conditional UPDATE that also overwrites requestHash. *)
TryReclaim(r) ==
    LET k == call[r].key IN
    /\ At(r, "reclaim")
    /\ \/ /\ Reclaimable(operation[k])
          /\ operation' = [operation EXCEPT ![k] =
                            [status |-> "PROCESSING", hash |-> call[r].hash,
                             stuck |-> FALSE, invoice |-> NoRequest]]
          /\ Goto(r, "cart")
       \/ ~Reclaimable(operation[k]) /\ Goto(r, "refused") /\ UNCHANGED operation
    /\ UNCHANGED <<invoice, cart, usedCount, stock>>

(* REPLAY: the stored invoice and payment are read and returned. *)
Replay(r) ==
    /\ At(r, "replay")
    /\ Goto(r, "replayed")
    /\ UNCHANGED <<operation, invoice, cart, usedCount, stock>>

---------------------------------------------------------------------------
(* Step 2: validation, outside the transaction *)

(* findByUserId on the cart.  An empty cart is refused, and so is a branch,   *)
(* a warehouse, a customer, a product or a unit that cannot be sold.        *)
ReadCart(r) ==
    LET lines == cart[call[r].user] IN
    /\ At(r, "cart")
    /\ \/ Goto(r, "fail")
       \/ /\ lines # {}
          /\ call' = [call EXCEPT ![r].lines = lines,
                        ![r].pc = IF UsesVoucher(call[r].hash) THEN "voucher" ELSE "tx"]
    /\ UNCHANGED <<operation, invoice, cart, usedCount, stock>>

(* findActiveByCode and assertVoucherApplicable, which refuses a voucher     *)
(* used up, not yet or no longer valid, or below its minimum; usedCount is  *)
(* remembered.                                                              *)
ReadVoucher(r) ==
    /\ At(r, "voucher")
    /\ \/ Goto(r, "fail")
       \/ /\ usedCount < UsageLimit
          /\ call' = [call EXCEPT ![r].pc = "tx", ![r].seenUsed = usedCount]
    /\ UNCHANGED <<operation, invoice, cart, usedCount, stock>>

---------------------------------------------------------------------------
(* Step 3: the business transaction *)

(* Mutant of VoucherUnchanged: usedCount + 1 without comparing the count.   *)
VoucherNotCompared(r) == TRUE

(* incrementUsage: UPDATE ... WHERE usedCount = the count read before.      *)
VoucherUnchanged(r) == UsesVoucher(call[r].hash) => usedCount = call[r].seenUsed
(* Mutant of EnoughStock: the sale skips the check for negative stock.      *)
StockNotChecked(r) == TRUE

EnoughStock(r) == Cardinality(call[r].lines) <= stock

(* Mutant of Rollback: markCompleted ran outside the transaction that is    *)
(* rolled back.                                                             *)
RollbackAfterCompletion(r) ==
    /\ At(r, "tx")
    /\ operation' = [operation EXCEPT ![call[r].key].status = "COMPLETED",
                                      ![call[r].key].invoice = r]
    /\ Goto(r, "fail")
    /\ UNCHANGED <<invoice, cart, usedCount, stock>>

(* A transaction that throws is rolled back: the voucher or the stock has   *)
(* changed, the points do not suffice, or the database gives up.            *)
Rollback(r) ==
    /\ At(r, "tx")
    /\ Goto(r, "fail")
    /\ UNCHANGED <<operation, invoice, cart, usedCount, stock>>

(* markCompleted, the last statement: UPDATE ... WHERE id, no other guard.  *)
MarkCompleted(k, r) ==
    operation' = [operation EXCEPT ![k].status = "COMPLETED", ![k].invoice = r]

(* With a lost acknowledgement the caller sees an exception all the same.   *)
Commit(r) ==
    /\ At(r, "tx")
    /\ VoucherUnchanged(r)
    /\ EnoughStock(r)
    /\ usedCount' = IF UsesVoucher(call[r].hash) THEN usedCount + 1 ELSE usedCount
    /\ stock' = stock - Cardinality(call[r].lines)
    /\ invoice' = [invoice EXCEPT ![r] = [key |-> call[r].key, hash |-> call[r].hash,
                                          lines |-> call[r].lines]]
    /\ MarkCompleted(call[r].key, r)
    /\ \/ call' = [call EXCEPT ![r].pc = "clear", ![r].result = r]
       \/ "lost_ack" \in Faults /\ Goto(r, "fail")
    /\ UNCHANGED cart

---------------------------------------------------------------------------
(* Step 4: after the commit *)

(* Mutant of ClearCart: the cart is left as it is. *)
CartNotCleared(r) ==
    /\ At(r, "clear")
    /\ Goto(r, "audit")
    /\ UNCHANGED <<operation, invoice, cart, usedCount, stock>>

(* clearAfterCheckout deletes whatever the cart holds by now. *)
ClearCart(r) ==
    /\ At(r, "clear")
    /\ \/ cart' = [cart EXCEPT ![call[r].user] = {}] /\ Goto(r, "audit")
       \/ "redis" \in Faults /\ Goto(r, "fail") /\ UNCHANGED cart
    /\ UNCHANGED <<operation, invoice, usedCount, stock>>

(* Mutant of Finish: an error of the audit log reaches the catch.           *)
FinishOrThrow(r) ==
    /\ At(r, "audit")
    /\ Goto(r, "answered") \/ Goto(r, "fail")
    /\ UNCHANGED <<operation, invoice, cart, usedCount, stock>>

(* Events and audit log, neither of which throws; then the answer. *)
Finish(r) ==
    /\ At(r, "audit")
    /\ Goto(r, "answered")
    /\ UNCHANGED <<operation, invoice, cart, usedCount, stock>>

(* Mutant of MarkFailed: the error is rethrown without releasing the key.   *)
KeyNotReleased(r) ==
    /\ At(r, "fail")
    /\ Goto(r, "failed")
    /\ UNCHANGED <<operation, invoice, cart, usedCount, stock>>

(* The catch around everything after reserve: UPDATE ... WHERE id.  A       *)
(* reclaimed row is the same row, and a completed one is not spared.        *)
MarkFailed(r) ==
    /\ At(r, "fail")
    /\ operation' = [operation EXCEPT ![call[r].key].status = "FAILED"]
    /\ Goto(r, "failed")
    /\ UNCHANGED <<invoice, cart, usedCount, stock>>

---------------------------------------------------------------------------
(* The environment *)

(* The process dies; an open transaction is rolled back by the database.    *)
Crash(r) ==
    /\ "crash" \in Faults
    /\ call[r].pc \in Reserving \cup {"replay"} \cup Owning
    /\ Goto(r, "dead")
    /\ UNCHANGED <<operation, invoice, cart, usedCount, stock>>

(* Two minutes pass.  Without the fault "stall" no call takes that long.    *)
Age(k) ==
    /\ operation[k].status = "PROCESSING"
    /\ "stall" \in Faults \/ Owners(k) = {}
    /\ operation' = [operation EXCEPT ![k].stuck = TRUE]
    /\ UNCHANGED <<call, invoice, cart, usedCount, stock>>

---------------------------------------------------------------------------
ServerStep(r) ==
    \/ Find(r) \/ Create(r) \/ TryReclaim(r) \/ Replay(r)
    \/ ReadCart(r) \/ ReadVoucher(r) \/ Rollback(r) \/ Commit(r)
    \/ ClearCart(r) \/ Finish(r) \/ MarkFailed(r)

Next ==
    \/ \E u \in User, l \in Line : AddLine(u, l)
    \/ \E r \in Request, k \in Key, p \in Payload, u \in User : Receive(r, k, p, u)
    \/ \E r \in Request : ServerStep(r) \/ Crash(r)
    \/ \E k \in Key : Age(k)

(* A running process executes its pending continuation sooner or later.     *)
Fairness == \A r \in Request : WF_vars(ServerStep(r))

Spec == Init /\ [][Next]_vars
FairSpec == Spec /\ Fairness
---------------------------------------------------------------------------
(* Properties *)

(* Every COMPLETED row refers to an invoice committed under its own key,    *)
(* whatever fails: markCompleted runs in the transaction of the invoice.    *)
CompletedNamesItsSale ==
    \A k \in Key :
        operation[k].status = "COMPLETED" => operation[k].invoice \in InvoicesOf(k)

(* Vouchers are never used more often than usageLimit, and usedCount counts *)
(* exactly the invoices that used one: the count is read before the         *)
(* transaction and compared again by incrementUsage.                        *)
VoucherLimit ==
    /\ usedCount <= UsageLimit
    /\ usedCount = Cardinality(VoucherSales)

(* Under one Idempotency-Key at most one invoice is ever committed          *)
(* (RFC-T013, section 19, principles 5 and 7).                              *)
AtMostOneInvoicePerKey ==
    \A r1, r2 \in Request :
        /\ invoice[r1] # NoInvoice
        /\ invoice[r2] # NoInvoice
        /\ invoice[r1].key = invoice[r2].key
        => r1 = r2

(* A caller that is replayed gets the invoice of its own key and of its own *)
(* payload (RFC-T013, section 19, principle 3).                             *)
ReplayedSameRequest ==
    \A r \in Request :
        At(r, "replayed") =>
            /\ call[r].result \in InvoicesOf(call[r].key)
            /\ invoice[call[r].result].hash = call[r].hash

(* A FAILED row certifies that nothing was sold under its key: reserve lets *)
(* the key be tried again at once on the strength of it                     *)
(* (SPEC-T013-SALES-FOUNDATION-001, FAILED Recovery).                       *)
FailedMeansNoSale ==
    \A k \in Key : operation[k].status = "FAILED" => InvoicesOf(k) = {}

(* A line of a cart is on two invoices only when a call that sold it did not *)
(* get to delete the cart: it died, or failed, after its commit.  The cart   *)
(* is read before the transaction and deleted after it, by key and not by    *)
(* content, so a cashier with one call open at a time is safe.               *)
CutShort == {r \in Committed : call[r].pc \in {"dead", "fail", "failed"}}

CartLineSoldOnce ==
    "overlap" \notin Faults =>
        \A r1, r2 \in Committed \ CutShort :
            invoice[r1].lines \cap invoice[r2].lines # {} => r1 = r2

(* A row that is COMPLETED stays as it is: later calls with its key are     *)
(* replayed or refused, and no other call's failure reaches it.             *)
CompletedIsFinal ==
    [][\A k \in Key : operation[k].status = "COMPLETED" =>
            operation'[k].status = "COMPLETED" /\ operation'[k].invoice = operation[k].invoice]_vars

(* A reserved key is released by the call itself, completed or failed,      *)
(* without waiting for the stuck threshold, unless a process died on it     *)
(* (checkout.service.ts:436).                                               *)
KeyReleased ==
    \A k \in Key : operation[k].status = "PROCESSING"
        ~> \/ operation[k].status \in {"COMPLETED", "FAILED"}
           \/ \E r \in Request : call[r].key = k /\ At(r, "dead")

(* The command as its clients see it: the effects of a key are its          *)
(* invoices, an answer is a call answered or replayed with one.             *)
Answered == {r \in Request : call[r].pc \in {"answered", "replayed"}}
Command == INSTANCE IdempotentCommand WITH
    Effect <- Request,
    effects <- [k \in Key |-> InvoicesOf(k)],
    answers <- {<<call[r].key, call[r].result>> : r \in Answered}

(* The interplay of rows, statements and retries implements the             *)
(* at-most-once command.                                                    *)
ImplementsCommand == Command!Spec
---------------------------------------------------------------------------
(* The inductive strengthening of AtMostOneInvoicePerKey for an environment *)
(* without slow calls and without failures after the commit                 *)
(* (CheckoutProofs).                                                        *)

Punctual == Faults \subseteq {"crash", "overlap"}

(* Calls that may still sell or report a failure under their key.           *)
Undecided == BeforeCommit \cup {"fail"}

(* An undecided call holds its row: in progress, fresh, and nobody else's.  *)
UndecidedHoldsRow ==
    \A r \in Request : call[r].pc \in Undecided =>
        /\ operation[call[r].key].status = "PROCESSING"
        /\ ~operation[call[r].key].stuck
        /\ operation[call[r].key].hash = call[r].hash
        /\ \A s \in Request :
            call[s].pc \in Undecided /\ call[s].key = call[r].key => s = r

(* An invoice and the COMPLETED row of its key name each other. *)
SaleClosesRow ==
    /\ \A r \in Request : invoice[r] # NoInvoice =>
        /\ operation[invoice[r].key].status = "COMPLETED"
        /\ operation[invoice[r].key].invoice = r
        /\ operation[invoice[r].key].hash = invoice[r].hash
    /\ \A k \in Key : operation[k].status = "COMPLETED" =>
        /\ operation[k].invoice \in Request
        /\ invoice[operation[k].invoice] # NoInvoice
        /\ invoice[operation[k].invoice].key = k

(* What a call remembers of a sale. *)
CallRemembersSale ==
    \A r \in Request :
        /\ call[r].pc # "idle" => call[r].key \in Key /\ call[r].hash \in Payload
        /\ call[r].pc \in {"idle"} \cup Reserving \cup Undecided => invoice[r] = NoInvoice
        /\ call[r].pc \in {"replay", "replayed"} \cup AfterCommit \cup {"answered"} =>
            /\ call[r].result \in Request
            /\ invoice[call[r].result] # NoInvoice
            /\ invoice[call[r].result].key = call[r].key
            /\ invoice[call[r].result].hash = call[r].hash

(* Whatever the environment does: an invoice is written once, by a call     *)
(* that was in its transaction, with a voucher it had found usable.         *)
SalesSound ==
    /\ \A r \in Request :
        /\ call[r].pc \in {"idle"} \cup Reserving \cup BeforeCommit => invoice[r] = NoInvoice
        /\ call[r].pc = "tx" /\ UsesVoucher(call[r].hash) => call[r].seenUsed < UsageLimit
    /\ CompletedNamesItsSale
    /\ VoucherLimit

CInv == TypeOK /\ UndecidedHoldsRow /\ SaleClosesRow /\ CallRemembersSale
===============================================================================
