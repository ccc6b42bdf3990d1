----------------------------- MODULE SalesReturn -----------------------------
(***************************************************************************)
(* The returns of one invoice and their refunds                             *)
(* (backend/src/modules/sales-return).  A return moves DRAFT, SUBMITTED,    *)
(* APPROVED, RECEIVED, COMPLETED; receiving it puts the goods back in stock *)
(* and is the only place where the quantity is checked for good, under the  *)
(* row locks of the invoice items.  A refund has a life of its own, created *)
(* under the row lock of its return.                                        *)
(*                                                                          *)
(* The two transactions run statement by statement; a transition that       *)
(* compares and swaps the version of one row is one step.  Items of another *)
(* invoice are never on the same return, so one invoice is enough.          *)
(***************************************************************************)
EXTENDS Integers, Sequences, Functions

CONSTANTS
    Item,       \* lines of the invoice
    Sold,       \* Sold[i]: InvoiceItem.quantity
    UnitValue,  \* UnitValue[i]: InvoiceItem.totalAmount per unit, a whole number here
    Stocked,    \* items whose product is no SERVICE
    Paid,       \* Invoice.totalAmount, which is also what the customer paid
    Return,     \* documents
    Lines,      \* what the items array of a request may be
    Worker,     \* HTTP calls that receive a return or create a refund
    Amount,     \* amounts of the refunds asked for
    MaxVersion, \* bound on the version of a draft, for model checking
    None        \* nobody

Line == [item : Item, quantity : Nat \ {0}]

ASSUME SalesReturnAssumption ==
    /\ Sold \in [Item -> Nat \ {0}] /\ UnitValue \in [Item -> Nat]
    /\ Stocked \subseteq Item /\ Paid \in Nat
    /\ Lines \subseteq Seq(Line)
    /\ Amount \subseteq Nat \ {0}
    /\ MaxVersion \in Nat \ {0}
    /\ None \notin Worker \cup Return

VARIABLES
    doc,        \* doc[x]: the row of return x and its items
    refund,     \* refund[w]: the row that call w inserted
    call,       \* call[w]: the transaction of call w
    itemLock,   \* itemLock[i]: who holds the row of invoice item i
    rowLock,    \* rowLock[x]: who holds the row of return x
    restored    \* restored[i]: quantity that RETURN movements put back

vars == <<doc, refund, call, itemLock, rowLock, restored>>

ReturnStatus == {"NONE", "DRAFT", "SUBMITTED", "APPROVED", "RECEIVED", "COMPLETED", "CANCELLED"}
RefundStatus == {"NONE", "PENDING", "PROCESSING", "COMPLETED", "FAILED", "CANCELLED"}
InTransaction == {"lock items", "check", "post", "lock return", "read", "insert"}
Pc == {"idle", "done", "failed"} \cup InTransaction

TypeOK ==
    /\ doc \in [Return -> [status : ReturnStatus, version : 1..(MaxVersion + 4),
                           lines : Lines \cup {<<>>}]]
    /\ refund \in [Worker -> [status : RefundStatus, of : Return \cup {None}, amount : Nat]]
    /\ call \in [Worker -> [pc : Pc, on : Return \cup {None}, version : Nat,
                            amount : Nat, active : Nat]]
    /\ itemLock \in [Item -> Worker \cup {None}]
    /\ rowLock \in [Return -> Worker \cup {None}]
    /\ restored \in [Item -> Nat]

Init ==
    /\ doc = [x \in Return |-> [status |-> "NONE", version |-> 1, lines |-> <<>>]]
    /\ refund = [w \in Worker |-> [status |-> "NONE", of |-> None, amount |-> 0]]
    /\ call = [w \in Worker |-> [pc |-> "idle", on |-> None, version |-> 0,
                                 amount |-> 0, active |-> 0]]
    /\ itemLock = [i \in Item |-> None]
    /\ rowLock = [x \in Return |-> None]
    /\ restored = [i \in Item |-> 0]

---------------------------------------------------------------------------
(* Quantities and amounts *)

Requested(lines, i) ==
    SumFunctionOnSet([n \in DOMAIN lines |-> lines[n].quantity],
                     {n \in DOMAIN lines : lines[n].item = i})

(* Every line is worth its share of the item's total. *)
Total(lines) ==
    SumFunction([n \in DOMAIN lines |-> lines[n].quantity * UnitValue[lines[n].item]])

Received == {x \in Return : doc[x].status \in {"RECEIVED", "COMPLETED"}}
Returned(i) == SumFunctionOnSet([x \in Return |-> Requested(doc[x].lines, i)], Received)

Eligible(i) == Sold[i] - Returned(i)

RefundsOf(x, statuses) == {w \in Worker : refund[w].of = x /\ refund[w].status \in statuses}
Refunded(x, statuses) ==
    SumFunctionOnSet([w \in Worker |-> refund[w].amount], RefundsOf(x, statuses))

Active == {"PENDING", "PROCESSING", "COMPLETED"}

---------------------------------------------------------------------------
(* Locks and the end of a transaction *)

At(w, step) == call[w].pc = step
Goto(w, step) == call' = [call EXCEPT ![w].pc = step]

Released(w) ==
    /\ itemLock' = [i \in Item |-> IF itemLock[i] = w THEN None ELSE itemLock[i]]
    /\ rowLock' = [x \in Return |-> IF rowLock[x] = w THEN None ELSE rowLock[x]]

(* An exception: everything is rolled back. *)
RollBack(w) ==
    /\ Goto(w, "failed")
    /\ Released(w)
    /\ UNCHANGED <<doc, refund, restored>>

(* A statement fails or times out, or the process dies. *)
StatementFails(w) == call[w].pc \in InTransaction /\ RollBack(w)

---------------------------------------------------------------------------
(* The document *)

(* The quantities were eligible when the service looked, some time before   *)
(* the statement: at least no more than was sold.                           *)
Plausible(lines) == \A i \in Item : Requested(lines, i) <= Sold[i]

CreateReturn(x, lines) ==
    /\ doc[x].status = "NONE"
    /\ Plausible(lines)
    /\ doc' = [doc EXCEPT ![x] = [status |-> "DRAFT", version |-> 1, lines |-> lines]]
    /\ UNCHANGED <<refund, call, itemLock, rowLock, restored>>

(* The lines are replaced in the transaction that swaps the version.        *)
UpdateDraft(x, lines) ==
    /\ doc[x].status = "DRAFT" /\ doc[x].version < MaxVersion
    /\ Plausible(lines)
    /\ doc' = [doc EXCEPT ![x] = [status |-> "DRAFT", version |-> @.version + 1, lines |-> lines]]
    /\ UNCHANGED <<refund, call, itemLock, rowLock, restored>>

Moved(x, status) ==
    [status |-> status, version |-> doc[x].version + 1, lines |-> doc[x].lines]

(* An UPDATE of the row waits for a refund that holds it. *)
Transition(x, status) ==
    /\ rowLock[x] = None
    /\ doc' = [doc EXCEPT ![x] = Moved(x, status)]
    /\ UNCHANGED <<refund, call, itemLock, rowLock, restored>>

Submit(x) == doc[x].status = "DRAFT" /\ Transition(x, "SUBMITTED")
Approve(x) == doc[x].status = "SUBMITTED" /\ Transition(x, "APPROVED")
Complete(x) == doc[x].status = "RECEIVED" /\ Transition(x, "COMPLETED")

(* Mutant of Cancellable: in any status. *)
CancellableAnyTime(x) == doc[x].status # "NONE"

Cancellable(x) == doc[x].status \in {"DRAFT", "SUBMITTED", "APPROVED"}

Cancel(x) == Cancellable(x) /\ Transition(x, "CANCELLED")

---------------------------------------------------------------------------
(* Receiving a return, in one transaction *)

StartReceive(w, x) ==
    /\ At(w, "idle")
    /\ doc[x].status = "APPROVED"
    /\ call' = [call EXCEPT ![w] = [@ EXCEPT !.pc = "lock items", !.on = x,
                                             !.version = doc[x].version]]
    /\ UNCHANGED <<doc, refund, itemLock, rowLock, restored>>

ItemsOf(x) == {i \in Item : Requested(doc[x].lines, i) > 0}

(* Mutant of LockItems: the rows are read without FOR UPDATE. *)
ReadItems(w) ==
    /\ At(w, "lock items")
    /\ Goto(w, "check")
    /\ UNCHANGED <<doc, refund, itemLock, rowLock, restored>>

(* FOR UPDATE in the order of the ids; who gets some of them waits for the  *)
(* rest and cannot deadlock, so taking them is one step.                    *)
LockItems(w) ==
    /\ At(w, "lock items")
    /\ \A i \in ItemsOf(call[w].on) : itemLock[i] = None
    /\ itemLock' = [i \in Item |-> IF i \in ItemsOf(call[w].on) THEN w ELSE itemLock[i]]
    /\ Goto(w, "check")
    /\ UNCHANGED <<doc, refund, rowLock, restored>>

AllEligible(x) == \A i \in ItemsOf(x) : Requested(doc[x].lines, i) <= Eligible(i)

(* The eligible quantities, read again under the locks.                     *)
Check(w) ==
    /\ At(w, "check")
    /\ \/ /\ AllEligible(call[w].on)
          /\ Goto(w, "post")
          /\ UNCHANGED <<doc, refund, itemLock, rowLock, restored>>
       \/ ~AllEligible(call[w].on) /\ RollBack(w)

(* Mutant of Claimed: UPDATE ... WHERE id, without the version. *)
ClaimedAnyVersion(w) == doc[call[w].on].status # "NONE"

Claimed(w) == doc[call[w].on].version = call[w].version

(* The status by its version, the stock of what has one, commit.            *)
Post(w) ==
    LET x == call[w].on IN
    /\ At(w, "post")
    /\ rowLock[x] = None
    /\ Claimed(w)
    /\ doc' = [doc EXCEPT ![x] = Moved(x, "RECEIVED")]
    /\ restored' = [i \in Item |->
                      IF i \in Stocked THEN restored[i] + Requested(doc[x].lines, i)
                      ELSE restored[i]]
    /\ Goto(w, "done")
    /\ Released(w)
    /\ UNCHANGED refund

(* The version is another by now: a conflict. *)
LoseClaim(w) ==
    /\ At(w, "post")
    /\ rowLock[call[w].on] = None
    /\ ~Claimed(w)
    /\ RollBack(w)

---------------------------------------------------------------------------
(* Refunds *)

StartRefund(w, x, amount) ==
    /\ At(w, "idle")
    /\ doc[x].status # "NONE"
    /\ call' = [call EXCEPT ![w] = [@ EXCEPT !.pc = "lock return", !.on = x, !.amount = amount]]
    /\ UNCHANGED <<doc, refund, itemLock, rowLock, restored>>

(* Mutant of LockReturn: the row is not locked. *)
ReadReturn(w) ==
    /\ At(w, "lock return")
    /\ Goto(w, "read")
    /\ UNCHANGED <<doc, refund, itemLock, rowLock, restored>>

LockReturn(w) ==
    /\ At(w, "lock return")
    /\ rowLock[call[w].on] = None
    /\ rowLock' = [rowLock EXCEPT ![call[w].on] = w]
    /\ Goto(w, "read")
    /\ UNCHANGED <<doc, refund, itemLock, restored>>

(* The return as it is under the lock, then its refunds. *)
ReadRefunds(w) ==
    /\ At(w, "read")
    /\ \/ /\ call[w].on \in Received
          /\ call' = [call EXCEPT ![w] = [@ EXCEPT !.pc = "insert",
                                                   !.active = Refunded(call[w].on, Active)]]
          /\ UNCHANGED <<doc, refund, itemLock, rowLock, restored>>
       \/ call[w].on \notin Received /\ RollBack(w)

WithinTotal(w) == call[w].active + call[w].amount <= Total(doc[call[w].on].lines)

(* assertRefundCapNotExceeded held: the row, commit. *)
InsertRefund(w) ==
    /\ At(w, "insert")
    /\ WithinTotal(w)
    /\ refund' = [refund EXCEPT ![w] = [status |-> "PENDING", of |-> call[w].on,
                                        amount |-> call[w].amount]]
    /\ Goto(w, "done")
    /\ Released(w)
    /\ UNCHANGED <<doc, restored>>

ExceedTotal(w) == At(w, "insert") /\ ~WithinTotal(w) /\ RollBack(w)

(* A compare-and-swap of the version of the refund's row. *)
RefundTransition(w, from, to) ==
    /\ refund[w].status = from
    /\ refund' = [refund EXCEPT ![w].status = to]
    /\ UNCHANGED <<doc, call, itemLock, rowLock, restored>>

ProcessRefund(w) == RefundTransition(w, "PENDING", "PROCESSING")
CompleteRefund(w) == RefundTransition(w, "PROCESSING", "COMPLETED")
FailRefund(w) == RefundTransition(w, "PROCESSING", "FAILED")
CancelRefund(w) == RefundTransition(w, "PENDING", "CANCELLED")

---------------------------------------------------------------------------
Receiving(w) == LockItems(w) \/ Check(w) \/ Post(w) \/ LoseClaim(w)
Refunding(w) == LockReturn(w) \/ ReadRefunds(w) \/ InsertRefund(w) \/ ExceedTotal(w)

Next ==
    \/ \E x \in Return, lines \in Lines : CreateReturn(x, lines) \/ UpdateDraft(x, lines)
    \/ \E x \in Return : Submit(x) \/ Approve(x) \/ Complete(x) \/ Cancel(x)
    \/ \E w \in Worker, x \in Return : StartReceive(w, x)
    \/ \E w \in Worker, x \in Return, amount \in Amount : StartRefund(w, x, amount)
    \/ \E w \in Worker : Receiving(w) \/ Refunding(w) \/ StatementFails(w)
    \/ \E w \in Worker : ProcessRefund(w) \/ CompleteRefund(w) \/ FailRefund(w) \/ CancelRefund(w)

Spec == Init /\ [][Next]_vars
---------------------------------------------------------------------------
(* Properties *)

(* Of no item more comes back than was sold, however many returns are open  *)
(* and received at the same time (prisma-sales-return.repository.ts:264).   *)
ReturnedWithinSold == \A i \in Item : Returned(i) <= Sold[i]

(* The goods of a return are put back when it is received, once, and never  *)
(* when it is not (sales-return.service.ts:317).                            *)
RestoredOnce ==
    \A i \in Item : restored[i] = IF i \in Stocked THEN Returned(i) ELSE 0

(* The refunds of a return that are under way or paid out together stay     *)
(* within its total, and there is none for goods that did not come back     *)
(* (prisma-sales-return.repository.ts:411 and :426).                        *)
RefundsWithinReturn ==
    \A x \in Return :
        Refunded(x, Active) <= (IF x \in Received THEN Total(doc[x].lines) ELSE 0)

(* What the customer gets back for an invoice is no more than was paid,     *)
(* whatever is split over several returns (sales-return.service.ts:529;     *)
(* docs/specifications/SPEC-T014-SALES-RETURN-EXCHANGE-001.md:16).          *)
RefundsWithinPaid == SumFunction([x \in Return |-> Refunded(x, Active)]) <= Paid
=============================================================================
