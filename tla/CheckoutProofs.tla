---------------------------- MODULE CheckoutProofs ----------------------------
(***************************************************************************)
(* Proofs about Checkout, for any number of requests, keys, payloads,       *)
(* cashiers and cart lines.                                                 *)
(***************************************************************************)
EXTENDS Checkout, FiniteSetTheorems, TLAPS

LEMMA NoRowType == NoRow \in Row
BY DEF NoRow, Row

LEMMA FreshRowType ==
    ASSUME NEW p \in Payload
    PROVE  [status |-> "PROCESSING", hash |-> p, stuck |-> FALSE,
            invoice |-> NoRequest] \in Row
BY DEF Row

(* Every step preserves the types, whatever the faults. *)
Typed == TypeOK /\ \A r \in Request : call[r].pc # "idle" =>
            call[r].key \in Key /\ call[r].hash \in Payload /\ call[r].user \in User

LEMMA InitTyped == Init => Typed
PROOF
<1> SUFFICES ASSUME Init PROVE Typed
    OBVIOUS
<1>1. TypeOK
    BY NoRowType, CheckoutAssumption
       DEF Init, TypeOK, Call, Pc
<1> QED BY <1>1 DEF Typed, Init

LEMMA ReserveTyped ==
    ASSUME Typed, NEW r \in Request,
           Find(r) \/ Create(r) \/ TryReclaim(r) \/ Replay(r)
    PROVE  Typed'
PROOF
<1> USE DEF Typed, TypeOK
<1>1. /\ call[r].pc # "idle" /\ call[r] \in Call
      /\ call[r].key \in Key /\ call[r].hash \in Payload
    BY DEF Find, Create, TryReclaim, Replay, At
<1>2. operation[call[r].key] \in Row
    BY <1>1
<1>3. operation' \in [Key -> Row]
    BY <1>1, FreshRowType DEF Find, Create, TryReclaim, Replay
<1>4. call' \in [Request -> Call]
    <2>1. ASSUME NEW step \in {"create", "refused", "reclaim", "cart", "replayed"},
                 Goto(r, step)
          PROVE  call' \in [Request -> Call]
        <3>1. step \in Pc
            BY DEF Pc, Reserving, Owning, BeforeCommit, Ended
        <3> QED BY <2>1, <3>1 DEF Goto, Call
    <2>2. CASE call' = [call EXCEPT ![r].pc = "replay",
                                    ![r].result = operation[call[r].key].invoice]
        <3>1. operation[call[r].key].invoice \in Request \cup {NoRequest}
            BY <1>2 DEF Row
        <3>2. call' = [call EXCEPT ![r] = [call[r] EXCEPT !.pc = "replay",
                                  !.result = operation[call[r].key].invoice]]
            BY <2>2
        <3>3. [call[r] EXCEPT !.pc = "replay",
                              !.result = operation[call[r].key].invoice] \in Call
            BY <1>1, <3>1 DEF Call, Pc
        <3> QED BY <3>2, <3>3
    <2>3. CASE Find(r)
        BY <2>1, <2>2, <2>3 DEF Find
    <2>4. CASE Create(r)
        BY <2>1, <2>4 DEF Create
    <2>5. CASE TryReclaim(r)
        BY <2>1, <2>5 DEF TryReclaim
    <2>6. CASE Replay(r)
        BY <2>1, <2>6 DEF Replay
    <2> QED BY <2>3, <2>4, <2>5, <2>6
<1>5. ASSUME NEW s \in Request
      PROVE  /\ call'[s].key = call[s].key /\ call'[s].hash = call[s].hash
             /\ call'[s].user = call[s].user
             /\ s # r => call'[s].pc = call[s].pc
    BY DEF Find, Create, TryReclaim, Replay, Goto, Call
<1>6. UNCHANGED <<invoice, cart, usedCount, stock>>
    BY DEF Find, Create, TryReclaim, Replay
<1> QED BY <1>1, <1>3, <1>4, <1>5, <1>6 DEF Typed

LEMMA BusinessTyped ==
    ASSUME Typed, NEW r \in Request,
           ReadCart(r) \/ ReadVoucher(r) \/ Rollback(r) \/ Commit(r)
    PROVE  Typed'
PROOF
<1> USE DEF Typed, TypeOK
<1>1. /\ call[r].pc # "idle" /\ call[r] \in Call
      /\ call[r].key \in Key /\ call[r].hash \in Payload /\ call[r].user \in User
    BY DEF ReadCart, ReadVoucher, Rollback, Commit, At
<1>2. {"fail", "voucher", "tx", "clear"} \subseteq Pc
    BY DEF Pc, Owning, BeforeCommit, AfterCommit
<1>3. call' \in [Request -> Call]
    <2>1. CASE ReadCart(r)
        BY <2>1, <1>1, <1>2 DEF ReadCart, Goto, Call
    <2>2. CASE ReadVoucher(r)
        BY <2>2, <1>1, <1>2 DEF ReadVoucher, Goto, Call
    <2>3. CASE Rollback(r)
        BY <2>3, <1>1, <1>2 DEF Rollback, Goto, Call
    <2>4. CASE Commit(r)
        BY <2>4, <1>1, <1>2 DEF Commit, Goto, Call
    <2> QED BY <2>1, <2>2, <2>3, <2>4
<1>4. operation' \in [Key -> Row]
    BY <1>1 DEF ReadCart, ReadVoucher, Rollback, Commit, MarkCompleted, Row
<1>5. invoice' \in [Request -> InvoiceRecord \cup {NoInvoice}]
    BY <1>1 DEF ReadCart, ReadVoucher, Rollback, Commit, InvoiceRecord, Call
<1>6. usedCount' \in Nat /\ cart' = cart
    BY DEF ReadCart, ReadVoucher, Rollback, Commit
<1>7. stock' \in Nat
    <2>1. call[r].lines \subseteq Line
        BY <1>1 DEF Call
    <2>2. Cardinality(call[r].lines) \in Nat
        BY <2>1, CheckoutAssumption, FS_Subset, FS_CardinalityType
    <2> QED BY <2>2 DEF ReadCart, ReadVoucher, Rollback, Commit, EnoughStock
<1>8. ASSUME NEW s \in Request
      PROVE  /\ call'[s].key = call[s].key /\ call'[s].hash = call[s].hash
             /\ call'[s].user = call[s].user
             /\ s # r => call'[s].pc = call[s].pc
    BY DEF ReadCart, ReadVoucher, Rollback, Commit, Goto, Call
<1> QED BY <1>1, <1>3, <1>4, <1>5, <1>6, <1>7, <1>8 DEF Typed

LEMMA EndTyped ==
    ASSUME Typed, NEW r \in Request,
           ClearCart(r) \/ Finish(r) \/ MarkFailed(r) \/ Crash(r)
    PROVE  Typed'
PROOF
<1> USE DEF Typed, TypeOK
<1>1. /\ call[r].pc # "idle" /\ call[r] \in Call
      /\ call[r].key \in Key /\ call[r].user \in User
    BY DEF ClearCart, Finish, MarkFailed, Crash, At, Reserving, Owning,
           BeforeCommit, AfterCommit
<1>2. {"fail", "audit", "answered", "failed", "dead"} \subseteq Pc
    BY DEF Pc, Owning, AfterCommit, Ended
<1>3. call' \in [Request -> Call]
    BY <1>1, <1>2 DEF ClearCart, Finish, MarkFailed, Crash, Goto, Call
<1>4. operation' \in [Key -> Row]
    BY <1>1 DEF ClearCart, Finish, MarkFailed, Crash, Row
<1>5. cart' \in [User -> SUBSET Line]
    BY <1>1 DEF ClearCart, Finish, MarkFailed, Crash
<1>6. UNCHANGED <<invoice, usedCount, stock>>
    BY DEF ClearCart, Finish, MarkFailed, Crash
<1>7. ASSUME NEW s \in Request
      PROVE  /\ call'[s].key = call[s].key /\ call'[s].hash = call[s].hash
             /\ call'[s].user = call[s].user
             /\ s # r => call'[s].pc = call[s].pc
    BY DEF ClearCart, Finish, MarkFailed, Crash, Goto, Call
<1> QED BY <1>1, <1>3, <1>4, <1>5, <1>6, <1>7 DEF Typed

LEMMA ClientTyped ==
    ASSUME Typed,
           \/ \E u \in User, l \in Line : AddLine(u, l)
           \/ \E r \in Request, k \in Key, p \in Payload, u \in User : Receive(r, k, p, u)
           \/ \E k \in Key : Age(k)
    PROVE  Typed'
PROOF
<1>1. ASSUME NEW u \in User, NEW l \in Line, AddLine(u, l) PROVE Typed'
    BY <1>1 DEF AddLine, Typed, TypeOK
<1>2. ASSUME NEW r \in Request, NEW k \in Key, NEW p \in Payload, NEW u \in User,
             Receive(r, k, p, u)
      PROVE  Typed'
    <2> USE DEF Typed, TypeOK
    <2>1. "find" \in Pc
        BY DEF Pc, Reserving
    <2>2. call' \in [Request -> Call]
        <3> DEFINE received == [call[r] EXCEPT !.pc = "find", !.key = k,
                                               !.hash = p, !.user = u]
        <3>1. call' = [call EXCEPT ![r] = received]
            BY <1>2 DEF Receive
        <3>2. received \in Call
            BY <2>1 DEF Call
        <3> QED BY <3>1, <3>2
    <2>3. ASSUME NEW s \in Request
          PROVE  IF s = r THEN call'[s].key = k /\ call'[s].hash = p /\ call'[s].user = u
                          ELSE call'[s] = call[s]
        BY <1>2 DEF Receive, Call
    <2> QED BY <1>2, <2>2, <2>3 DEF Receive
<1>3. ASSUME NEW k \in Key, Age(k) PROVE Typed'
    <2>1. operation[k] \in Row
        BY DEF Typed, TypeOK
    <2>2. [operation[k] EXCEPT !.stuck = TRUE] \in Row
        BY <2>1 DEF Row
    <2>3. operation' = [operation EXCEPT ![k] = [operation[k] EXCEPT !.stuck = TRUE]]
        BY <1>3 DEF Age
    <2>4. operation' \in [Key -> Row] /\ UNCHANGED <<call, invoice, cart, usedCount, stock>>
        BY <1>3, <2>2, <2>3 DEF Age, Typed, TypeOK
    <2> QED BY <2>4 DEF Typed, TypeOK
<1> QED BY <1>1, <1>2, <1>3

LEMMA NextTyped == Typed /\ [Next]_vars => Typed'
PROOF
<1> SUFFICES ASSUME Typed, [Next]_vars PROVE Typed'
    OBVIOUS
<1>1. CASE UNCHANGED vars
    BY <1>1 DEF vars, Typed, TypeOK
<1>2. ASSUME NEW r \in Request, ServerStep(r) \/ Crash(r) PROVE Typed'
    BY <1>2, ReserveTyped, BusinessTyped, EndTyped DEF ServerStep
<1> QED BY <1>1, <1>2, ClientTyped DEF Next

(* Every variable always has its type, whatever fails. *)
THEOREM TypeCorrect == Spec => []TypeOK
PROOF
<1>1. Typed => TypeOK
    BY DEF Typed
<1> QED BY InitTyped, NextTyped, <1>1, PTL DEF Spec

---------------------------------------------------------------------------
(* What holds whatever fails: calls that stall, crash, lose the             *)
(* acknowledgement of their commit, or cannot delete the cart.              *)

LEMMA VoucherSalesFinite ==
    IsFiniteSet(VoucherSales) /\ Cardinality(VoucherSales) \in Nat
BY CheckoutAssumption, FS_Subset, FS_CardinalityType DEF VoucherSales, Committed

LEMMA InitSound == Init => SalesSound
PROOF
<1> SUFFICES ASSUME Init PROVE SalesSound
    OBVIOUS
<1>1. \A r \in Request : invoice[r] = NoInvoice /\ call[r].pc = "idle"
    BY DEF Init
<1>2. VoucherSales = {}
    BY <1>1 DEF VoucherSales, Committed
<1>3. VoucherLimit
    BY <1>2, FS_EmptySet, CheckoutAssumption DEF VoucherLimit, Init
<1>4. CompletedNamesItsSale
    BY DEF CompletedNamesItsSale, Init, NoRow
<1> QED BY <1>1, <1>3, <1>4 DEF SalesSound

(* A step that writes no invoice. *)
LEMMA NoSaleStep ==
    ASSUME Typed, SalesSound, NEW r \in Request,
           invoice' = invoice, usedCount' = usedCount,
           \A s \in Request : s # r => call'[s] = call[s],
           \/ call[r].pc \in {"idle"} \cup Reserving \cup BeforeCommit
           \/ call'[r].pc \notin {"idle"} \cup Reserving \cup BeforeCommit,
           call'[r].pc = "tx" /\ UsesVoucher(call'[r].hash) =>
                call'[r].seenUsed < UsageLimit,
           \A k \in Key : operation'[k].status = "COMPLETED" =>
                /\ operation[k].status = "COMPLETED"
                /\ operation'[k].invoice = operation[k].invoice
    PROVE  SalesSound'
PROOF
<1>1. VoucherLimit'
    BY DEF SalesSound, VoucherLimit, VoucherSales, Committed
<1>2. CompletedNamesItsSale'
    BY DEF SalesSound, CompletedNamesItsSale, InvoicesOf, Committed
<1> QED BY <1>1, <1>2 DEF SalesSound, BeforeCommit

LEMMA CommitSound ==
    ASSUME Typed, Typed', SalesSound, NEW r \in Request, Commit(r)
    PROVE  SalesSound'
PROOF
<1> DEFINE k == call[r].key
           hash == call[r].hash
<1>1. /\ call[r].pc = "tx" /\ k \in Key /\ hash \in Payload /\ invoice[r] = NoInvoice
    BY DEF Commit, At, Typed, SalesSound, BeforeCommit
<1>2. /\ \A s \in Request : s # r => call'[s] = call[s] /\ invoice'[s] = invoice[s]
      /\ call'[r].pc \in {"clear", "fail"}
      /\ invoice'[r] = [key |-> k, hash |-> hash, lines |-> call[r].lines]
    BY DEF Commit, Goto, Typed, TypeOK, Call
<1>3. invoice'[r] # NoInvoice /\ invoice'[r].key = k /\ invoice'[r].hash = hash
    <2>1. k # NoRequest
        BY <1>1, CheckoutAssumption
    <2> QED BY <1>2, <2>1 DEF NoInvoice
<1>4. Committed' = Committed \cup {r} /\ r \notin Committed
    BY <1>1, <1>2, <1>3 DEF Committed
<1>5. CompletedNamesItsSale'
    <2>1. operation'[k].invoice = r /\ \A j \in Key : j # k => operation'[j] = operation[j]
        BY <1>1 DEF Commit, MarkCompleted, Typed, TypeOK, Row
    <2>2. ASSUME NEW j \in Key, operation'[j].status = "COMPLETED", j # k
          PROVE  /\ operation'[j].invoice \in Committed'
                 /\ invoice'[operation'[j].invoice].key = j
        <3>1. /\ operation'[j].invoice \in Committed
              /\ invoice[operation'[j].invoice].key = j
            BY <2>1, <2>2 DEF SalesSound, CompletedNamesItsSale, InvoicesOf
        <3> QED BY <1>2, <1>4, <3>1 DEF Committed
    <2>3. r \in Committed' /\ invoice'[r].key = k
        BY <1>3, <1>4
    <2> QED BY <2>1, <2>2, <2>3 DEF CompletedNamesItsSale, InvoicesOf
<1>6. \A s \in Committed' :
        UsesVoucher(invoice'[s].hash) <=>
            IF s = r THEN UsesVoucher(hash) ELSE UsesVoucher(invoice[s].hash)
    BY <1>2, <1>3 DEF Committed
<1>7. VoucherLimit'
    <2>1. CASE UsesVoucher(hash)
        <3>1. VoucherSales' = VoucherSales \cup {r} /\ r \notin VoucherSales
            BY <1>4, <1>6, <2>1 DEF VoucherSales
        <3>2. Cardinality(VoucherSales') = Cardinality(VoucherSales) + 1
            BY <3>1, VoucherSalesFinite, FS_AddElement
        <3>3. usedCount' = usedCount + 1 /\ usedCount < UsageLimit
            BY <1>1, <2>1 DEF Commit, VoucherUnchanged, SalesSound
        <3> QED BY <3>2, <3>3, CheckoutAssumption
                DEF SalesSound, VoucherLimit, Typed, TypeOK
    <2>2. CASE ~UsesVoucher(hash)
        <3>1. VoucherSales' = VoucherSales
            BY <1>4, <1>6, <2>2 DEF VoucherSales
        <3>2. usedCount' = usedCount
            BY <2>2 DEF Commit
        <3> QED BY <3>1, <3>2 DEF SalesSound, VoucherLimit
    <2> QED BY <2>1, <2>2
<1> QED BY <1>1, <1>2, <1>5, <1>7 DEF SalesSound, Reserving, BeforeCommit

(* Goto moves the call it names to the step it names. *)
LEMMA Moved ==
    ASSUME call \in [Request -> Call], NEW r \in Request, NEW step, Goto(r, step)
    PROVE  call'[r].pc = step
BY DEF Goto, Call

LEMMA NextSound == Typed /\ Typed' /\ SalesSound /\ [Next]_vars => SalesSound'
PROOF
<1> SUFFICES ASSUME Typed, Typed', SalesSound, [Next]_vars PROVE SalesSound'
    OBVIOUS
<1> DEFINE Early == {"idle"} \cup Reserving \cup BeforeCommit
<1>1. CASE UNCHANGED <<operation, call, invoice, usedCount>>
    BY <1>1 DEF SalesSound, CompletedNamesItsSale, VoucherLimit, InvoicesOf, Committed,
                  VoucherSales
<1>2. ASSUME NEW r \in Request, ServerStep(r) \/ Crash(r) PROVE SalesSound'
    <2>1. CASE Commit(r)
        BY <2>1, CommitSound
    <2>2. CASE ~Commit(r)
        <3>a. call \in [Request -> Call]
            BY DEF Typed, TypeOK
        <3>1. /\ invoice' = invoice /\ usedCount' = usedCount
              /\ \A s \in Request : s # r => call'[s] = call[s]
            BY <1>2, <2>2 DEF ServerStep, Find, Create, TryReclaim, Replay, ReadCart,
                  ReadVoucher, Rollback, ClearCart, Finish, MarkFailed, Crash, Goto,
                  Typed, TypeOK
        <3>2. call[r].pc \in Early \/ call'[r].pc \notin Early
            <4>1. CASE \/ Find(r) \/ Create(r) \/ TryReclaim(r)
                       \/ ReadCart(r) \/ ReadVoucher(r) \/ Rollback(r)
                BY <4>1 DEF Find, Create, TryReclaim, ReadCart, ReadVoucher, Rollback, At,
                            Reserving, BeforeCommit
            <4>2. CASE Replay(r) \/ ClearCart(r) \/ Finish(r) \/ MarkFailed(r) \/ Crash(r)
                <5>1. call'[r].pc \in {"replayed", "audit", "fail", "answered", "failed", "dead"}
                    BY <4>2, <3>a, Moved DEF Replay, ClearCart, Finish, MarkFailed, Crash
                <5> QED BY <5>1 DEF Reserving, BeforeCommit
            <4> QED BY <1>2, <2>2, <4>1, <4>2 DEF ServerStep
        <3>3. call'[r].pc = "tx" /\ UsesVoucher(call'[r].hash) =>
                call'[r].seenUsed < UsageLimit
            <4>1. CASE ReadCart(r)
                BY <4>1, <3>a DEF ReadCart, Goto, Call
            <4>2. CASE ReadVoucher(r)
                BY <4>2, <3>a DEF ReadVoucher, Goto, Call
            <4>3. CASE Find(r) \/ Create(r) \/ TryReclaim(r)
                BY <4>3, <3>a DEF Find, Create, TryReclaim, Goto, Call
            <4>4. CASE \/ Replay(r) \/ Rollback(r) \/ ClearCart(r) \/ Finish(r)
                       \/ MarkFailed(r) \/ Crash(r)
                <5>1. call'[r].pc \in {"replayed", "audit", "fail", "answered", "failed", "dead"}
                    BY <4>4, <3>a, Moved
                       DEF Replay, Rollback, ClearCart, Finish, MarkFailed, Crash
                <5> QED BY <5>1
            <4> QED BY <1>2, <2>2, <4>1, <4>2, <4>3, <4>4 DEF ServerStep
        <3>4. ASSUME NEW k \in Key, operation'[k].status = "COMPLETED"
              PROVE  /\ operation[k].status = "COMPLETED"
                     /\ operation'[k].invoice = operation[k].invoice
            BY <1>2, <2>2, <3>4 DEF ServerStep, Find, Create, TryReclaim, Replay, ReadCart,
                  ReadVoucher, Rollback, ClearCart, Finish, MarkFailed, Crash,
                  Typed, TypeOK, Row
        <3> QED BY <3>1, <3>2, <3>3, <3>4, NoSaleStep
    <2> QED BY <2>1, <2>2
<1>3. ASSUME NEW r \in Request, NEW k \in Key, NEW p \in Payload, NEW u \in User,
             Receive(r, k, p, u)
      PROVE  SalesSound'
    <2>1. /\ UNCHANGED <<operation, invoice, usedCount>>
          /\ \A s \in Request : s # r => call'[s] = call[s]
          /\ call[r].pc = "idle" /\ call'[r].pc = "find"
        BY <1>3 DEF Receive, At, Typed, TypeOK, Call
    <2> QED BY <2>1, NoSaleStep
<1>4. ASSUME NEW k \in Key, Age(k) PROVE SalesSound'
    <2>1. /\ UNCHANGED <<call, invoice, usedCount>>
          /\ \A j \in Key : /\ operation'[j].status = operation[j].status
                           /\ operation'[j].invoice = operation[j].invoice
        BY <1>4 DEF Age, Typed, TypeOK, Row
    <2> QED BY <2>1 DEF SalesSound, CompletedNamesItsSale, VoucherLimit, InvoicesOf,
                        Committed, VoucherSales
<1>5. ASSUME NEW u \in User, NEW l \in Line, AddLine(u, l)
      PROVE  UNCHANGED <<operation, call, invoice, usedCount>>
    BY <1>5 DEF AddLine
<1> QED BY <1>1, <1>2, <1>3, <1>4, <1>5 DEF Next, vars

LEMMA AlwaysSound == Spec => [](Typed /\ SalesSound)
PROOF
<1>1. (Typed /\ SalesSound) /\ [Next]_vars => (Typed /\ SalesSound)'
    BY NextTyped, NextSound
<1> QED BY InitTyped, InitSound, <1>1, PTL DEF Spec

(* Whatever fails, a voucher is never used more often than its limit, and   *)
(* usedCount is exactly the number of invoices that used it.                *)
THEOREM VoucherNeverExceeded == Spec => []VoucherLimit
PROOF
<1>1. Typed /\ SalesSound => VoucherLimit
    BY DEF SalesSound
<1> QED BY <1>1, AlwaysSound, PTL

(* Whatever fails, a COMPLETED row refers to an invoice of its own key.     *)
THEOREM CompletedRowSound == Spec => []CompletedNamesItsSale
PROOF
<1>1. Typed /\ SalesSound => CompletedNamesItsSale
    BY DEF SalesSound
<1> QED BY <1>1, AlwaysSound, PTL

---------------------------------------------------------------------------
(* At most one sale.  From here on the environment is Punctual: calls die   *)
(* and overlap, but none outlives the stuck threshold and nothing fails     *)
(* after the commit.                                                        *)

Inv == Typed /\ CInv

Remembering == {"replay", "replayed"} \cup AfterCommit \cup {"answered"}
Unsold == {"idle"} \cup Reserving \cup Undecided

LEMMA InitInv == Init => Inv
PROOF
<1> SUFFICES ASSUME Init PROVE Inv
    OBVIOUS
<1>1. Typed /\ TypeOK
    BY InitTyped DEF Typed
<1>2. UndecidedHoldsRow /\ CallRemembersSale
    BY DEF Init, UndecidedHoldsRow, CallRemembersSale, Undecided, BeforeCommit,
           AfterCommit
<1>3. SaleClosesRow
    BY DEF Init, SaleClosesRow, NoRow
<1> QED BY <1>1, <1>2, <1>3 DEF Inv, CInv

(* A step of one call that touches neither rows nor invoices and does not   *)
(* claim more than the call already had.                                    *)
LEMMA QuietStep ==
    ASSUME Inv, Typed', NEW r \in Request,
           UNCHANGED <<operation, invoice>>,
           call[r].pc # "idle",
           \A s \in Request : /\ call'[s].key = call[s].key
                              /\ call'[s].hash = call[s].hash
                              /\ call'[s].result = call[s].result
                              /\ s # r => call'[s].pc = call[s].pc,
           call'[r].pc \in Undecided => call[r].pc \in Undecided,
           call'[r].pc \in Unsold => call[r].pc \in Unsold,
           call'[r].pc \in Remembering => call[r].pc \in Remembering
    PROVE  Inv'
PROOF
<1>1. SaleClosesRow' 
    BY DEF Inv, CInv, SaleClosesRow
<1>2. UndecidedHoldsRow'
    BY DEF Inv, CInv, UndecidedHoldsRow
<1>3. CallRemembersSale'
    BY DEF Inv, CInv, CallRemembersSale, Unsold, Remembering
<1> QED BY <1>1, <1>2, <1>3 DEF Inv, CInv, Typed

(* A fresh or reclaimed row: whoever claims it is alone with it, and        *)
(* nothing was sold under its key.                                          *)
LEMMA ClaimStep ==
    ASSUME Inv, Typed', NEW r \in Request, NEW k \in Key,
           k = call[r].key, call[r].pc \in Reserving,
           operation[k].status # "COMPLETED",
           \A s \in Request : ~(call[s].pc \in Undecided /\ call[s].key = k),
           operation' = [operation EXCEPT ![k] =
                            [status |-> "PROCESSING", hash |-> call[r].hash,
                             stuck |-> FALSE, invoice |-> NoRequest]],
           Goto(r, "cart"), invoice' = invoice
    PROVE  Inv'
PROOF
<1>1. \A s \in Request : /\ call'[s].key = call[s].key
                         /\ call'[s].hash = call[s].hash
                         /\ call'[s].result = call[s].result
                         /\ call'[s].pc = IF s = r THEN "cart" ELSE call[s].pc
    BY DEF Goto, Inv, Typed, TypeOK, Call
<1>2. /\ operation'[k].status = "PROCESSING" /\ ~operation'[k].stuck
      /\ operation'[k].hash = call[r].hash
      /\ \A j \in Key : j # k => operation'[j] = operation[j]
    BY DEF Inv, Typed, TypeOK
<1>3. SaleClosesRow'
    BY <1>2 DEF Inv, CInv, SaleClosesRow, TypeOK, InvoiceRecord
<1>4. UndecidedHoldsRow'
    BY <1>1, <1>2 DEF Inv, CInv, UndecidedHoldsRow, CallRemembersSale, Undecided,
                      BeforeCommit
<1>5. CallRemembersSale'
    BY <1>1 DEF Inv, CInv, CallRemembersSale, Reserving, Undecided, BeforeCommit,
                AfterCommit
<1> QED BY <1>3, <1>4, <1>5 DEF Inv, CInv, Typed

LEMMA ReserveStep ==
    ASSUME Inv, Typed', NEW r \in Request,
           Find(r) \/ Create(r) \/ TryReclaim(r) \/ Replay(r)
    PROVE  Inv'
PROOF
<1>1. /\ call[r].pc \in Reserving \cup {"replay"} /\ call[r].pc # "idle"
      /\ call[r].key \in Key /\ call[r] \in Call
    BY DEF Find, Create, TryReclaim, Replay, At, Reserving, Inv, Typed, TypeOK
<1>2. ASSUME NEW step \in {"create", "refused", "reclaim"}, Goto(r, step),
             call[r].pc \in Reserving, UNCHANGED <<operation, invoice>>
      PROVE  Inv'
    <2>1. \A s \in Request : /\ call'[s].key = call[s].key
                             /\ call'[s].hash = call[s].hash
                             /\ call'[s].result = call[s].result
                             /\ call'[s].pc = IF s = r THEN step ELSE call[s].pc
        BY <1>2 DEF Goto, Inv, Typed, TypeOK, Call
    <2>2. /\ call'[r].pc \notin Undecided \cup Remembering
          /\ call[r].pc \in Unsold
        BY <2>1, <1>2 DEF Undecided, BeforeCommit, AfterCommit, Remembering,
                          Reserving, Unsold
    <2> QED BY <1>1, <1>2, <2>1, <2>2, QuietStep
<1>3. CASE Find(r)
    <2>1. CASE /\ operation[call[r].key].status = "COMPLETED"
               /\ operation[call[r].key].hash = call[r].hash
               /\ call' = [call EXCEPT ![r].pc = "replay",
                                       ![r].result = operation[call[r].key].invoice]
        <3> DEFINE k == call[r].key
        <3>1. UNCHANGED <<operation, invoice>>
            BY <1>3 DEF Find
        <3>2. \A s \in Request : /\ call'[s].key = call[s].key
                                 /\ call'[s].hash = call[s].hash
                                 /\ s # r => call'[s] = call[s]
            BY <2>1 DEF Inv, Typed, TypeOK, Call
        <3>3. call'[r].pc = "replay" /\ call'[r].result = operation[k].invoice
            BY <2>1 DEF Inv, Typed, TypeOK, Call
        <3>4. /\ operation[k].invoice \in Request
              /\ invoice[operation[k].invoice] # NoInvoice
              /\ invoice[operation[k].invoice].key = k
              /\ invoice[operation[k].invoice].hash = call[r].hash
            BY <1>1, <2>1 DEF Inv, CInv, SaleClosesRow
        <3>5. UndecidedHoldsRow' /\ SaleClosesRow'
            BY <3>1, <3>2, <3>3
               DEF Inv, CInv, UndecidedHoldsRow, SaleClosesRow, Undecided, BeforeCommit
        <3>6. CallRemembersSale'
            BY <1>1, <3>1, <3>2, <3>3, <3>4
               DEF Inv, CInv, CallRemembersSale, Reserving, Undecided, BeforeCommit
        <3> QED BY <3>5, <3>6 DEF Inv, CInv, Typed
    <2> QED BY <1>2, <1>3, <2>1 DEF Find, At, Reserving
<1>4. CASE Create(r)
    <2>1. CASE operation[call[r].key].status = "NONE"
        BY <1>1, <1>4, <2>1, ClaimStep
           DEF Create, At, Reserving, Inv, CInv, UndecidedHoldsRow
    <2> QED BY <1>2, <1>4, <2>1 DEF Create, At, Reserving
<1>5. CASE TryReclaim(r)
    <2>1. CASE Reclaimable(operation[call[r].key])
        <3> DEFINE k == call[r].key
        <3>1. /\ call[r].pc \in Reserving /\ Goto(r, "cart") /\ invoice' = invoice
              /\ operation' = [operation EXCEPT ![k] =
                                [status |-> "PROCESSING", hash |-> call[r].hash,
                                 stuck |-> FALSE, invoice |-> NoRequest]]
            BY <1>5, <2>1 DEF TryReclaim, At, Reserving
        <3>2. operation[k].status # "COMPLETED"
            BY <2>1 DEF Reclaimable
        <3>3. \A s \in Request : ~(call[s].pc \in Undecided /\ call[s].key = k)
            BY <2>1 DEF Reclaimable, Inv, CInv, UndecidedHoldsRow
        <3> QED BY <1>1, <3>1, <3>2, <3>3, ClaimStep
    <2> QED BY <1>2, <1>5, <2>1 DEF TryReclaim, At, Reserving
<1>6. CASE Replay(r)
    <2>1. \A s \in Request : /\ call'[s].key = call[s].key
                             /\ call'[s].hash = call[s].hash
                             /\ call'[s].result = call[s].result
                             /\ call'[s].pc = IF s = r THEN "replayed" ELSE call[s].pc
        BY <1>6 DEF Replay, Goto, Inv, Typed, TypeOK, Call
    <2>2. /\ call'[r].pc \notin Undecided \cup Unsold
          /\ call[r].pc \in Remembering
        BY <2>1, <1>6 DEF Replay, At, Undecided, BeforeCommit, Remembering, Reserving,
                          Unsold
    <2>3. UNCHANGED <<operation, invoice>>
        BY <1>6 DEF Replay
    <2> QED BY <1>1, <2>1, <2>2, <2>3, QuietStep
<1> QED BY <1>3, <1>4, <1>5, <1>6

LEMMA CommitStep ==
    ASSUME Punctual, Inv, Typed', NEW r \in Request, Commit(r)
    PROVE  Inv'
PROOF
<1> DEFINE k == call[r].key
<1>1. /\ call[r].pc = "tx" /\ call[r].pc # "idle" /\ call[r] \in Call
      /\ k \in Key /\ call[r].hash \in Payload
    BY DEF Commit, At, Inv, Typed, TypeOK
<1>2. /\ operation[k].status = "PROCESSING" /\ ~operation[k].stuck
      /\ operation[k].hash = call[r].hash
      /\ \A s \in Request : call[s].pc \in Undecided /\ call[s].key = k => s = r
    BY <1>1 DEF Inv, CInv, UndecidedHoldsRow, Undecided, BeforeCommit
<1>3. \A s \in Request : /\ call'[s].key = call[s].key
                         /\ call'[s].hash = call[s].hash
                         /\ s # r => call'[s] = call[s]
    BY DEF Commit, Goto, Inv, Typed, TypeOK, Call
<1>4. call'[r].pc = "clear" /\ call'[r].result = r
    <2>1. call' = [call EXCEPT ![r].pc = "clear", ![r].result = r]
        BY DEF Commit, Punctual
    <2> QED BY <1>1, <2>1 DEF Inv, Typed, TypeOK, Call
<1>5. /\ operation'[k].status = "COMPLETED" /\ operation'[k].invoice = r
      /\ operation'[k].hash = call[r].hash
      /\ \A j \in Key : j # k => operation'[j] = operation[j]
    BY <1>1, <1>2 DEF Commit, MarkCompleted, Inv, Typed, TypeOK, Row
<1>6. /\ invoice'[r].key = k /\ invoice'[r].hash = call[r].hash
      /\ invoice'[r] # NoInvoice
      /\ \A s \in Request : s # r => invoice'[s] = invoice[s]
    <2>1. invoice'[r] = [key |-> k, hash |-> call[r].hash, lines |-> call[r].lines]
        BY DEF Commit, Inv, Typed, TypeOK
    <2>2. k # NoRequest
        BY <1>1, CheckoutAssumption
    <2> QED BY <2>1, <2>2 DEF NoInvoice, Commit, Inv, Typed, TypeOK
<1>7. \A s \in Request : invoice[s] # NoInvoice => invoice[s].key # k
    BY <1>2 DEF Inv, CInv, SaleClosesRow
<1>8. SaleClosesRow'
    <2>1. ASSUME NEW s \in Request, invoice'[s] # NoInvoice
          PROVE  /\ operation'[invoice'[s].key].status = "COMPLETED"
                 /\ operation'[invoice'[s].key].invoice = s
                 /\ operation'[invoice'[s].key].hash = invoice'[s].hash
        <3>1. CASE s = r
            BY <3>1, <1>5, <1>6
        <3>2. CASE s # r
            <4>1. invoice[s] # NoInvoice /\ invoice[s].key \in Key
                BY <2>1, <3>2, <1>6 DEF Inv, Typed, TypeOK, InvoiceRecord
            <4> QED BY <4>1, <3>2, <1>5, <1>6, <1>7 DEF Inv, CInv, SaleClosesRow
        <3> QED BY <3>1, <3>2
    <2>2. ASSUME NEW j \in Key, operation'[j].status = "COMPLETED"
          PROVE  /\ operation'[j].invoice \in Request
                 /\ invoice'[operation'[j].invoice] # NoInvoice
                 /\ invoice'[operation'[j].invoice].key = j
        <3>1. CASE j = k
            BY <3>1, <1>5, <1>6
        <3>2. CASE j # k
            <4> DEFINE i == operation[j].invoice
            <4>1. /\ operation'[j] = operation[j]
                  /\ i \in Request /\ invoice[i] # NoInvoice /\ invoice[i].key = j
                BY <2>2, <3>2, <1>5 DEF Inv, CInv, SaleClosesRow
            <4>2. i # r
                BY <4>1, <1>1 DEF Inv, CInv, CallRemembersSale, Undecided, BeforeCommit
            <4> QED BY <4>1, <4>2, <1>6
        <3> QED BY <3>1, <3>2
    <2> QED BY <2>1, <2>2 DEF SaleClosesRow
<1>9. UndecidedHoldsRow'
    BY <1>1, <1>2, <1>3, <1>4, <1>5
       DEF Inv, CInv, UndecidedHoldsRow, CallRemembersSale, Undecided, BeforeCommit
<1>10. CallRemembersSale'
    <2>1. ASSUME NEW s \in Request
          PROVE  /\ call'[s].pc # "idle" => call'[s].key \in Key /\ call'[s].hash \in Payload
                 /\ call'[s].pc \in Unsold => invoice'[s] = NoInvoice
                 /\ call'[s].pc \in Remembering =>
                        /\ call'[s].result \in Request
                        /\ invoice'[call'[s].result] # NoInvoice
                        /\ invoice'[call'[s].result].key = call'[s].key
                        /\ invoice'[call'[s].result].hash = call'[s].hash
        <3>1. CASE s = r
            BY <3>1, <1>1, <1>3, <1>4, <1>6 DEF Unsold, Reserving, Undecided, BeforeCommit
        <3>2. CASE s # r
            <4>1. invoice[r] = NoInvoice
                BY <1>1 DEF Inv, CInv, CallRemembersSale, Undecided, BeforeCommit
            <4> QED BY <3>2, <4>1, <1>3, <1>6 DEF Inv, CInv, CallRemembersSale, Unsold,
                                                  Remembering
        <3> QED BY <3>1, <3>2
    <2> QED BY <2>1 DEF CallRemembersSale, Unsold, Remembering
<1> QED BY <1>8, <1>9, <1>10 DEF Inv, CInv, Typed

LEMMA BusinessStep ==
    ASSUME Punctual, Inv, Typed', NEW r \in Request,
           \/ ReadCart(r) \/ ReadVoucher(r) \/ Rollback(r)
           \/ ClearCart(r) \/ Finish(r) \/ Crash(r)
    PROVE  Inv'
PROOF
<1>1. UNCHANGED <<operation, invoice>>
    BY DEF ReadCart, ReadVoucher, Rollback, ClearCart, Finish, Crash
<1>2. /\ call[r].pc # "idle"
      /\ \A s \in Request : /\ call'[s].key = call[s].key
                            /\ call'[s].hash = call[s].hash
                            /\ call'[s].result = call[s].result
                            /\ s # r => call'[s].pc = call[s].pc
    BY DEF ReadCart, ReadVoucher, Rollback, ClearCart, Finish, Crash, Goto, At,
           Reserving, Owning, BeforeCommit, AfterCommit, Inv, Typed, TypeOK, Call
<1>3. \/ call[r].pc \in BeforeCommit /\ call'[r].pc \in Undecided
      \/ call[r].pc \in AfterCommit /\ call'[r].pc \in AfterCommit \cup {"answered"}
      \/ call'[r].pc = "dead"
    BY DEF ReadCart, ReadVoucher, Rollback, ClearCart, Finish, Crash, Goto, At,
           Undecided, BeforeCommit, AfterCommit, Punctual, Inv, Typed, TypeOK, Call
<1>4. /\ call'[r].pc \in Undecided => call[r].pc \in Undecided
      /\ call'[r].pc \in Unsold => call[r].pc \in Unsold
      /\ call'[r].pc \in Remembering => call[r].pc \in Remembering
    BY <1>3 DEF Unsold, Remembering, Undecided, BeforeCommit, AfterCommit, Reserving
<1> QED BY <1>1, <1>2, <1>4, QuietStep

LEMMA MarkFailedStep ==
    ASSUME Inv, Typed', NEW r \in Request, MarkFailed(r)
    PROVE  Inv'
PROOF
<1> DEFINE k == call[r].key
<1>1. /\ call[r].pc = "fail" /\ k \in Key
      /\ operation[k].status = "PROCESSING"
      /\ \A s \in Request : call[s].pc \in Undecided /\ call[s].key = k => s = r
    BY DEF MarkFailed, At, Inv, Typed, CInv, UndecidedHoldsRow, Undecided
<1>2. \A s \in Request : /\ call'[s].key = call[s].key
                         /\ call'[s].hash = call[s].hash
                         /\ call'[s].result = call[s].result
                         /\ call'[s].pc = IF s = r THEN "failed" ELSE call[s].pc
    BY DEF MarkFailed, Goto, Inv, Typed, TypeOK, Call
<1>3. /\ operation'[k].status = "FAILED" /\ invoice' = invoice
      /\ \A j \in Key : j # k => operation'[j] = operation[j]
    BY <1>1 DEF MarkFailed, Inv, Typed, TypeOK, Row
<1>4. SaleClosesRow'
    BY <1>1, <1>3 DEF Inv, CInv, SaleClosesRow, TypeOK, InvoiceRecord
<1>5. UndecidedHoldsRow'
    BY <1>1, <1>2, <1>3 DEF Inv, CInv, UndecidedHoldsRow, CallRemembersSale, Undecided,
                            BeforeCommit
<1>6. CallRemembersSale'
    BY <1>1, <1>2, <1>3 DEF Inv, CInv, CallRemembersSale, Reserving, Undecided,
                            BeforeCommit, AfterCommit
<1> QED BY <1>4, <1>5, <1>6 DEF Inv, CInv, Typed

(* Time and clients do not disturb a row that somebody holds. *)
LEMMA ClientStep ==
    ASSUME Punctual, Inv, Typed',
           \/ \E u \in User, l \in Line : AddLine(u, l)
           \/ \E r \in Request, k \in Key, p \in Payload, u \in User : Receive(r, k, p, u)
           \/ \E k \in Key : Age(k)
    PROVE  Inv'
PROOF
<1>1. ASSUME NEW u \in User, NEW l \in Line, AddLine(u, l) PROVE Inv'
    BY <1>1 DEF AddLine, Inv, CInv, Typed, UndecidedHoldsRow, SaleClosesRow,
                CallRemembersSale
<1>2. ASSUME NEW r \in Request, NEW k \in Key, NEW p \in Payload, NEW u \in User,
             Receive(r, k, p, u)
      PROVE  Inv'
    <2>1. /\ call'[r].pc = "find" /\ call'[r].key = k /\ call'[r].hash = p
          /\ \A s \in Request : s # r => call'[s] = call[s]
          /\ call[r].pc = "idle" /\ UNCHANGED <<operation, invoice>>
        BY <1>2 DEF Receive, At, Inv, Typed, TypeOK, Call
    <2>2. UndecidedHoldsRow' /\ SaleClosesRow'
        BY <2>1 DEF Inv, CInv, UndecidedHoldsRow, SaleClosesRow, Undecided, BeforeCommit
    <2>3. CallRemembersSale'
        BY <2>1 DEF Inv, CInv, CallRemembersSale, Reserving, Undecided, BeforeCommit,
                    AfterCommit
    <2> QED BY <2>2, <2>3 DEF Inv, CInv, Typed
<1>3. ASSUME NEW k \in Key, Age(k) PROVE Inv'
    <2>1. /\ operation[k].status = "PROCESSING" /\ Owners(k) = {}
          /\ UNCHANGED <<call, invoice>>
          /\ operation'[k].status = "PROCESSING"
          /\ \A j \in Key : j # k => operation'[j] = operation[j]
        BY <1>3 DEF Age, Punctual, Inv, Typed, TypeOK, Row
    <2>2. \A s \in Request : ~(call[s].pc \in Undecided /\ call[s].key = k)
        BY <2>1 DEF Owners, Owning, Undecided
    <2>3. UndecidedHoldsRow'
        BY <2>1, <2>2 DEF Inv, CInv, UndecidedHoldsRow, CallRemembersSale, Undecided,
                          BeforeCommit
    <2>4. SaleClosesRow' /\ CallRemembersSale'
        BY <2>1 DEF Inv, CInv, SaleClosesRow, CallRemembersSale, TypeOK, InvoiceRecord
    <2> QED BY <2>3, <2>4 DEF Inv, CInv, Typed
<1> QED BY <1>1, <1>2, <1>3

LEMMA NextInv == Punctual /\ Inv /\ [Next]_vars => Inv'
PROOF
<1> SUFFICES ASSUME Punctual, Inv, [Next]_vars PROVE Inv'
    OBVIOUS
<1>1. Typed'
    BY NextTyped DEF Inv
<1>2. CASE UNCHANGED vars
    BY <1>1, <1>2 DEF vars, Inv, CInv, Typed, UndecidedHoldsRow, SaleClosesRow,
                      CallRemembersSale
<1>3. ASSUME NEW r \in Request, ServerStep(r) \/ Crash(r) PROVE Inv'
    BY <1>1, <1>3, ReserveStep, BusinessStep, CommitStep, MarkFailedStep DEF ServerStep
<1> QED BY <1>1, <1>2, <1>3, ClientStep DEF Next

LEMMA AlwaysInv == ASSUME Punctual PROVE Spec => []Inv
PROOF
<1>1. Inv /\ [Next]_vars => Inv'
    BY NextInv
<1> QED BY InitInv, <1>1, PTL DEF Spec

(* Under one Idempotency-Key at most one invoice is ever committed, when no *)
(* call outlives the stuck threshold and nothing fails after the commit.    *)
THEOREM OneSalePerKey == ASSUME Punctual PROVE Spec => []AtMostOneInvoicePerKey
PROOF
<1>1. Inv => AtMostOneInvoicePerKey
    BY DEF Inv, CInv, SaleClosesRow, AtMostOneInvoicePerKey
<1> QED BY <1>1, AlwaysInv, PTL

(* In the same environment a replayed caller gets the invoice of its own    *)
(* key and of its own payload.                                              *)
THEOREM ReplayFaithful == ASSUME Punctual PROVE Spec => []ReplayedSameRequest
PROOF
<1>1. Inv => ReplayedSameRequest
    BY DEF Inv, CInv, CallRemembersSale, ReplayedSameRequest, At, InvoicesOf, Committed
<1> QED BY <1>1, AlwaysInv, PTL

(* In the same environment a FAILED row certifies that nothing was sold.    *)
THEOREM FailedCertifies == ASSUME Punctual PROVE Spec => []FailedMeansNoSale
PROOF
<1>1. Inv => FailedMeansNoSale
    <2> SUFFICES ASSUME Inv, NEW k \in Key, operation[k].status = "FAILED"
                 PROVE  InvoicesOf(k) = {}
        BY DEF FailedMeansNoSale
    <2> QED BY DEF Inv, CInv, SaleClosesRow, InvoicesOf, Committed
<1> QED BY <1>1, AlwaysInv, PTL

(* In the same environment a COMPLETED row is never written again.          *)
THEOREM CompletedStays == ASSUME Punctual PROVE Spec => CompletedIsFinal
PROOF
<1>1. Inv /\ [Next]_vars =>
        [\A k \in Key : operation[k].status = "COMPLETED" =>
            operation'[k].status = "COMPLETED" /\ operation'[k].invoice = operation[k].invoice]_vars
    <2> SUFFICES ASSUME Inv, Next, NEW k \in Key, operation[k].status = "COMPLETED"
                 PROVE  operation'[k] = operation[k]
        OBVIOUS
    <2>1. ASSUME NEW r \in Request, Create(r) \/ TryReclaim(r)
          PROVE  operation'[k] = operation[k]
        BY <2>1 DEF Create, TryReclaim, Reclaimable, Inv, Typed, TypeOK
    <2>2. ASSUME NEW r \in Request, Commit(r) \/ MarkFailed(r)
          PROVE  operation'[k] = operation[k]
        <3>1. call[r].pc \in Undecided
            BY <2>2 DEF Commit, MarkFailed, At, Undecided, BeforeCommit
        <3>2. call[r].key # k
            BY <3>1 DEF Inv, CInv, UndecidedHoldsRow
        <3> QED BY <2>2, <3>2 DEF Commit, MarkFailed, MarkCompleted, Inv, Typed, TypeOK
    <2>3. ASSUME NEW j \in Key, Age(j) PROVE operation'[k] = operation[k]
        BY <2>3 DEF Age, Inv, Typed, TypeOK
    <2>4. ASSUME NEW r \in Request,
                 \/ Find(r) \/ Replay(r) \/ ReadCart(r) \/ ReadVoucher(r)
                 \/ Rollback(r) \/ ClearCart(r) \/ Finish(r) \/ Crash(r)
          PROVE  operation'[k] = operation[k]
        BY <2>4 DEF Find, Replay, ReadCart, ReadVoucher, Rollback, ClearCart, Finish,
                    Crash
    <2> QED BY <2>1, <2>2, <2>3, <2>4 DEF Next, ServerStep, AddLine, Receive
<1> QED BY <1>1, AlwaysInv, PTL DEF Spec, CompletedIsFinal

---------------------------------------------------------------------------
(* The refinement of IdempotentCommand *)

Effects == [k \in Key |-> InvoicesOf(k)]
Answers == {<<call[r].key, call[r].result>> : r \in Answered}

(* A step that commits no invoice and answers nobody is a stutter. *)
LEMMA SilentStep ==
    ASSUME Inv, NEW r \in Request, invoice' = invoice,
           \A s \in Request : s # r => call'[s] = call[s],
           call[r].pc \notin {"answered", "replayed"},
           call'[r].pc \notin {"answered", "replayed"}
    PROVE  UNCHANGED <<Effects, Answers>>
PROOF
<1>1. Effects' = Effects
    BY DEF Effects, InvoicesOf, Committed
<1>2. Answered' = Answered /\ r \notin Answered
    BY DEF Answered
<1>3. \A s \in Answered : call'[s] = call[s]
    BY <1>2 DEF Answered
<1>4. Answers' = {<<call'[s].key, call'[s].result>> : s \in Answered}
    BY <1>2 DEF Answers
<1>5. Answers' = Answers
    BY <1>3, <1>4 DEF Answers
<1> QED BY <1>1, <1>5

(* The commit is the execution of the command, the only one of its key. *)
LEMMA CommitExecutes ==
    ASSUME Punctual, Inv, Inv', NEW r \in Request, Commit(r)
    PROVE  Command!Next
PROOF
<1> DEFINE k == call[r].key
<1>1. /\ call[r].pc = "tx" /\ k \in Key
      /\ operation[k].status = "PROCESSING" /\ invoice[r] = NoInvoice
    BY DEF Commit, At, Inv, Typed, CInv, UndecidedHoldsRow, CallRemembersSale,
           Undecided, BeforeCommit
<1>2. /\ \A s \in Request : s # r => call'[s] = call[s] /\ invoice'[s] = invoice[s]
      /\ call'[r].pc = "clear"
      /\ invoice'[r] = [key |-> k, hash |-> call[r].hash, lines |-> call[r].lines]
    BY DEF Commit, Goto, Punctual, Inv, Typed, TypeOK, Call
<1>3. invoice'[r] # NoInvoice /\ invoice'[r].key = k
    <2>1. k # NoRequest
        BY <1>1, CheckoutAssumption
    <2> QED BY <1>2, <2>1 DEF NoInvoice
<1>4. InvoicesOf(k) = {} /\ r \notin Committed
    BY <1>1 DEF InvoicesOf, Committed, Inv, CInv, SaleClosesRow
<1>5. Effects' = [Effects EXCEPT ![k] = {r}]
    <2>1. \A j \in Key : InvoicesOf(j)' = IF j = k THEN {r} ELSE InvoicesOf(j)
        BY <1>1, <1>2, <1>3, <1>4 DEF InvoicesOf, Committed
    <2> QED BY <2>1 DEF Effects
<1>6. Answers' = Answers
    <2>1. Answered' = Answered /\ r \notin Answered
        BY <1>1, <1>2 DEF Answered
    <2>2. \A s \in Answered : call'[s] = call[s]
        BY <1>2, <2>1 DEF Answered
    <2>3. Answers' = {<<call'[s].key, call'[s].result>> : s \in Answered}
        BY <2>1 DEF Answers
    <2> QED BY <2>2, <2>3 DEF Answers
<1>7. Effects[k] = {} /\ \A j \in Key : r \notin Effects[j]
    BY <1>1, <1>4 DEF Effects, InvoicesOf
<1> QED BY <1>1, <1>5, <1>6, <1>7 DEF Command!Next, Command!Execute, Effects, Answers

(* Finishing and replaying answer the caller with the effect of its key. *)
LEMMA AnswerStep ==
    ASSUME Inv, NEW r \in Request, NEW step \in {"answered", "replayed"},
           call[r].pc \in {"audit", "replay"}, Goto(r, step), invoice' = invoice
    PROVE  Command!Next
PROOF
<1> DEFINE k == call[r].key
           e == call[r].result
<1>1. /\ k \in Key /\ e \in Request
      /\ invoice[e] # NoInvoice /\ invoice[e].key = k
    BY DEF Inv, Typed, CInv, CallRemembersSale, AfterCommit
<1>2. /\ \A s \in Request : call'[s].key = call[s].key /\ call'[s].result = call[s].result
      /\ \A s \in Request : call'[s].pc = IF s = r THEN step ELSE call[s].pc
    BY DEF Goto, Inv, Typed, TypeOK, Call
<1>3. Answered' = Answered \cup {r}
    BY <1>2 DEF Answered
<1>4. Answers' = Answers \cup {<<k, e>>}
    <2>1. Answers' = {<<call'[s].key, call'[s].result>> : s \in Answered \cup {r}}
        BY <1>3 DEF Answers
    <2>2. \A s \in Answered \cup {r} : <<call'[s].key, call'[s].result>>
                                        = <<call[s].key, call[s].result>>
        BY <1>2 DEF Answered
    <2>3. Answers' = {<<call[s].key, call[s].result>> : s \in Answered \cup {r}}
        BY <2>1, <2>2
    <2> QED BY <2>3 DEF Answers
<1>5. Effects' = Effects /\ e \in Effects[k]
    BY <1>1 DEF Effects, InvoicesOf, Committed
<1> QED BY <1>1, <1>4, <1>5 DEF Command!Next, Command!Answer, Effects, Answers

LEMMA StepRefines ==
    ASSUME Punctual, Inv, Inv', [Next]_vars
    PROVE  [Command!Next]_(Command!vars)
PROOF
<1>1. ASSUME UNCHANGED <<Effects, Answers>> PROVE [Command!Next]_(Command!vars)
    BY <1>1 DEF Command!vars, Effects, Answers
<1>2. CASE UNCHANGED <<call, invoice>>
    <2>1. UNCHANGED <<Effects, Answers>>
        BY <1>2 DEF Effects, Answers, InvoicesOf, Committed, Answered
    <2> QED BY <1>1, <2>1
<1>3. ASSUME NEW r \in Request,
             \/ Find(r) \/ Create(r) \/ TryReclaim(r) \/ ReadCart(r) \/ ReadVoucher(r)
             \/ Rollback(r) \/ ClearCart(r) \/ MarkFailed(r) \/ Crash(r)
      PROVE  [Command!Next]_(Command!vars)
    <2>a. call \in [Request -> Call]
        BY DEF Inv, Typed, TypeOK
    <2>b. /\ invoice' = invoice /\ \A s \in Request : s # r => call'[s] = call[s]
          /\ call[r].pc \notin {"answered", "replayed"}
        BY <1>3, <2>a DEF Find, Create, TryReclaim, ReadCart, ReadVoucher, Rollback,
                    ClearCart, MarkFailed, Crash, Goto, At, Reserving, Owning, BeforeCommit,
                    AfterCommit
    <2>c. call'[r].pc \notin {"answered", "replayed"}
        <3>1. CASE \/ Find(r) \/ Create(r) \/ TryReclaim(r) \/ ReadCart(r) \/ ReadVoucher(r)
            BY <2>a, <3>1 DEF Find, Create, TryReclaim, ReadCart, ReadVoucher, Goto, Call
        <3>2. CASE \/ Rollback(r) \/ ClearCart(r) \/ MarkFailed(r) \/ Crash(r)
            BY <2>a, <3>2, Moved DEF Rollback, ClearCart, MarkFailed, Crash
        <3> QED BY <1>3, <3>1, <3>2
    <2>1. /\ invoice' = invoice /\ \A s \in Request : s # r => call'[s] = call[s]
          /\ call[r].pc \notin {"answered", "replayed"}
          /\ call'[r].pc \notin {"answered", "replayed"}
        BY <2>b, <2>c
    <2> QED BY <1>1, <2>1, SilentStep
<1>4. ASSUME NEW r \in Request, Replay(r) \/ Finish(r) PROVE Command!Next
    <2>1. call[r].pc \in {"audit", "replay"} /\ invoice' = invoice
        BY <1>4 DEF Replay, Finish, At
    <2>2. Goto(r, "replayed") \/ Goto(r, "answered")
        BY <1>4 DEF Replay, Finish
    <2> QED BY <2>1, <2>2, AnswerStep
<1>5. ASSUME NEW r \in Request, NEW k \in Key, NEW p \in Payload, NEW u \in User,
             Receive(r, k, p, u)
      PROVE  [Command!Next]_(Command!vars)
    <2>1. /\ invoice' = invoice /\ \A s \in Request : s # r => call'[s] = call[s]
          /\ call[r].pc = "idle" /\ call'[r].pc = "find"
        BY <1>5 DEF Receive, At, Inv, Typed, TypeOK, Call
    <2> QED BY <1>1, <2>1, SilentStep
<1>6. ASSUME NEW k \in Key, Age(k) PROVE UNCHANGED <<call, invoice>>
    BY <1>6 DEF Age
<1>7. ASSUME NEW u \in User, NEW l \in Line, AddLine(u, l) PROVE UNCHANGED <<call, invoice>>
    BY <1>7 DEF AddLine
<1>8. ASSUME NEW r \in Request, ServerStep(r) \/ Crash(r)
      PROVE  [Command!Next]_(Command!vars)
    BY <1>3, <1>4, <1>8, CommitExecutes DEF ServerStep
<1> QED BY <1>2, <1>5, <1>6, <1>7, <1>8 DEF Next, vars

(* In the same environment rows, statements and retries together implement  *)
(* the at-most-once command.                                                *)
THEOREM ImplementsAtMostOnce == ASSUME Punctual PROVE Spec => ImplementsCommand
PROOF
<1>1. Init => Command!Init
    BY DEF Init, Command!Init, InvoicesOf, Committed, Answered
<1>2. Inv /\ Inv' /\ [Next]_vars => [Command!Next]_(Command!vars)
    BY StepRefines
<1> QED BY <1>1, <1>2, AlwaysInv, PTL DEF Spec, ImplementsCommand, Command!Spec
---------------------------------------------------------------------------
(* Carts, when a cashier has one call open at a time, whatever else fails.  *)

IsOpen(r) == call[r].pc \notin Ended \cup {"idle"}
Holding(r) == call[r].pc \in {"voucher", "tx", "clear"}

OneOpenCall ==
    \A r, s \in Request : IsOpen(r) /\ IsOpen(s) /\ call[r].user = call[s].user => r = s

CartsApart == \A u, v \in User : cart[u] \cap cart[v] # {} => u = v

(* The lines a call has read stay in its cart until it deletes the cart, and *)
(* once it has, they are in no cart again.                                  *)
HoldsItsLines ==
    \A r \in Request :
        /\ Holding(r) => call[r].lines \subseteq cart[call[r].user]
        /\ invoice[r] # NoInvoice =>
            /\ invoice[r].lines = call[r].lines
            /\ call[r].pc \in {"clear", "audit", "answered", "fail", "failed", "dead"}
            /\ call[r].pc \in {"audit", "answered"} =>
                \A u \in User : cart[u] \cap call[r].lines = {}

SoldApart ==
    \A r1, r2 \in Committed \ CutShort :
        invoice[r1].lines \cap invoice[r2].lines # {} => r1 = r2

CartInv == OneOpenCall /\ CartsApart /\ HoldsItsLines /\ SoldApart

LEMMA InitCarts == Init => CartInv
BY DEF Init, CartInv, OneOpenCall, IsOpen, CartsApart, HoldsItsLines, Holding,
       SoldApart, Committed

(* A call moves on without touching the cart: what it holds afterwards is    *)
(* still in its cart, and if it has sold, it is on its way to the end.      *)
LEMMA MoveKeepsCarts ==
    ASSUME Typed, CartInv, NEW r \in Request, IsOpen(r),
           cart' = cart, invoice' = invoice,
           \A s \in Request : s # r => call'[s] = call[s],
           call'[r].user = call[r].user,
           Holding(r)' => call'[r].lines \subseteq cart[call[r].user],
           invoice[r] # NoInvoice =>
                /\ call'[r].lines = call[r].lines
                /\ call'[r].pc \in {"answered", "fail", "failed", "dead"}
                /\ call'[r].pc = "answered" => call[r].pc = "audit"
    PROVE  CartInv'
PROOF
<1>1. OneOpenCall'
    BY DEF CartInv, OneOpenCall, IsOpen
<1>2. CartsApart'
    BY DEF CartInv, CartsApart
<1>3. HoldsItsLines'
    BY DEF CartInv, HoldsItsLines, Holding
<1>4. ASSUME NEW s \in Request, s \in (Committed \ CutShort)'
      PROVE  s \in Committed \ CutShort
    <2>1. invoice[s] # NoInvoice /\ call'[s].pc \notin {"dead", "fail", "failed"}
        BY <1>4 DEF Committed, CutShort
    <2> QED BY <2>1 DEF Committed, CutShort
<1>5. SoldApart'
    BY <1>4 DEF CartInv, SoldApart, Committed
<1> QED BY <1>1, <1>2, <1>3, <1>5 DEF CartInv

LEMMA EarlyCarts ==
    ASSUME Typed, CartInv, NEW r \in Request,
           Find(r) \/ Create(r) \/ TryReclaim(r) \/ Replay(r)
    PROVE  CartInv'
PROOF
<1>1. call[r].pc \in Reserving \cup {"replay"} /\ call[r] \in Call /\ IsOpen(r)
    BY DEF Find, Create, TryReclaim, Replay, At, Reserving, Typed, TypeOK, IsOpen, Ended
<1>2. cart' = cart /\ invoice' = invoice
    BY DEF Find, Create, TryReclaim, Replay
<1>3. /\ \A s \in Request : s # r => call'[s] = call[s]
      /\ call'[r].user = call[r].user
      /\ call'[r].pc \in {"create", "reclaim", "replay", "replayed", "refused", "cart"}
    BY DEF Find, Create, TryReclaim, Replay, Goto, Typed, TypeOK, Call
<1>4. invoice[r] = NoInvoice
    BY <1>1 DEF CartInv, HoldsItsLines, Reserving
<1>5. ~Holding(r)'
    BY <1>3 DEF Holding
<1> QED BY <1>1, <1>2, <1>3, <1>4, <1>5, MoveKeepsCarts

LEMMA ReadingCarts ==
    ASSUME Typed, CartInv, NEW r \in Request, ReadCart(r) \/ ReadVoucher(r) \/ Rollback(r)
    PROVE  CartInv'
PROOF
<1>1. /\ call[r].pc \in {"cart", "voucher", "tx"} /\ call[r] \in Call /\ IsOpen(r)
      /\ call[r].user \in User
    BY DEF ReadCart, ReadVoucher, Rollback, At, Typed, TypeOK, IsOpen, Ended
<1>2. cart' = cart /\ invoice' = invoice
    BY DEF ReadCart, ReadVoucher, Rollback
<1>3. /\ \A s \in Request : s # r => call'[s] = call[s]
      /\ call'[r].user = call[r].user
    BY DEF ReadCart, ReadVoucher, Rollback, Goto, Typed, TypeOK, Call
<1>4. invoice[r] = NoInvoice
    BY <1>1 DEF CartInv, HoldsItsLines
<1>5. ASSUME Holding(r)' PROVE call'[r].lines \subseteq cart[call[r].user]
    <2>1. CASE ReadCart(r)
        BY <2>1, <1>5 DEF ReadCart, Goto, Holding, Typed, TypeOK, Call
    <2>2. CASE ReadVoucher(r)
        <3>1. call'[r].lines = call[r].lines /\ Holding(r)
            BY <2>2 DEF ReadVoucher, Goto, At, Holding, Typed, TypeOK, Call
        <3> QED BY <3>1 DEF CartInv, HoldsItsLines
    <2>3. CASE Rollback(r)
        BY <2>3, <1>5 DEF Rollback, Goto, Holding, Typed, TypeOK, Call
    <2> QED BY <2>1, <2>2, <2>3
<1> QED BY <1>1, <1>2, <1>3, <1>4, <1>5, MoveKeepsCarts

LEMMA EndingCarts ==
    ASSUME Typed, CartInv, NEW r \in Request,
           \/ Finish(r) \/ MarkFailed(r) \/ Crash(r)
           \/ ClearCart(r) /\ cart' = cart /\ Goto(r, "fail")
    PROVE  CartInv'
PROOF
<1>1. IsOpen(r)
    BY DEF Finish, MarkFailed, Crash, ClearCart, At, IsOpen, Ended, Reserving, Owning,
           BeforeCommit, AfterCommit
<1>2. cart' = cart /\ invoice' = invoice
    BY DEF Finish, MarkFailed, Crash, ClearCart
<1>3. /\ \A s \in Request : s # r => call'[s] = call[s]
      /\ call'[r].user = call[r].user /\ call'[r].lines = call[r].lines
      /\ call'[r].pc \in {"answered", "fail", "failed", "dead"}
      /\ call'[r].pc = "answered" => call[r].pc = "audit"
    BY DEF Finish, MarkFailed, Crash, ClearCart, Goto, At, Typed, TypeOK, Call
<1>4. ~Holding(r)'
    BY <1>3 DEF Holding
<1> QED BY <1>1, <1>2, <1>3, <1>4, MoveKeepsCarts

(* No cart holds what a call that deleted its cart has sold: only the user's *)
(* own cart held it, and that is empty now.                                 *)
LEMMA ClearingCarts ==
    ASSUME Typed, CartInv, NEW r \in Request, At(r, "clear"), Goto(r, "audit"),
           cart' = [cart EXCEPT ![call[r].user] = {}], invoice' = invoice
    PROVE  CartInv'
PROOF
<1>1. call[r] \in Call /\ call[r].user \in User /\ IsOpen(r) /\ Holding(r)
    BY DEF At, Typed, TypeOK, IsOpen, Ended, Holding
<1>2. /\ \A s \in Request : s # r => call'[s] = call[s]
      /\ call'[r].user = call[r].user /\ call'[r].lines = call[r].lines
      /\ call'[r].pc = "audit" /\ IsOpen(r)'
    BY DEF Goto, Typed, TypeOK, Call, IsOpen, Ended
<1>3. \A u \in User : cart'[u] = IF u = call[r].user THEN {} ELSE cart[u]
    BY <1>1 DEF Typed, TypeOK
<1>4. OneOpenCall'
    BY <1>1, <1>2 DEF CartInv, OneOpenCall, IsOpen
<1>5. CartsApart'
    BY <1>3 DEF CartInv, CartsApart
<1>6. HoldsItsLines'
    <2> SUFFICES ASSUME NEW s \in Request
                 PROVE  /\ Holding(s)' => call'[s].lines \subseteq cart'[call'[s].user]
                        /\ invoice[s] # NoInvoice =>
                            /\ invoice[s].lines = call'[s].lines
                            /\ call'[s].pc \in {"clear", "audit", "answered",
                                                "fail", "failed", "dead"}
                            /\ call'[s].pc \in {"audit", "answered"} =>
                                \A u \in User : cart'[u] \cap call'[s].lines = {}
        BY DEF HoldsItsLines
    <2>1. CASE s = r
        <3>1. call[r].lines \subseteq cart[call[r].user]
            BY <1>1 DEF CartInv, HoldsItsLines
        <3>2. \A u \in User : cart'[u] \cap call[r].lines = {}
            BY <1>1, <1>3, <3>1 DEF CartInv, CartsApart
        <3>3. ~Holding(r)'
            BY <1>2 DEF Holding
        <3> QED BY <2>1, <1>2, <3>2, <3>3 DEF CartInv, HoldsItsLines
    <2>2. CASE s # r
        <3>1. Holding(s)' => call[s].user \in User /\ call[s].user # call[r].user
            BY <2>2, <1>1, <1>2 DEF Holding, IsOpen, Ended, CartInv, OneOpenCall, Typed
        <3>2. Holding(s)' => call'[s].lines \subseteq cart'[call'[s].user]
            BY <2>2, <1>2, <1>3, <3>1 DEF CartInv, HoldsItsLines, Holding
        <3>3. call'[s] = call[s]
            BY <2>2, <1>2
        <3>4. ASSUME NEW u \in User PROVE cart'[u] \subseteq cart[u]
            BY <1>3
        <3> QED BY <3>2, <3>3, <3>4 DEF CartInv, HoldsItsLines
    <2> QED BY <2>1, <2>2
<1>7. SoldApart'
    <2>1. ASSUME NEW s \in Request, s \in (Committed \ CutShort)'
          PROVE  s \in Committed \ CutShort
        BY <2>1, <1>2 DEF Committed, CutShort, At
    <2> QED BY <2>1 DEF CartInv, SoldApart, Committed
<1> QED BY <1>4, <1>5, <1>6, <1>7 DEF CartInv

(* A sale takes lines of the caller's own cart; what others have sold is     *)
(* either in no cart any more or still in another cashier's.                *)
LEMMA CommitCarts ==
    ASSUME Typed, CartInv, NEW r \in Request, Commit(r)
    PROVE  CartInv'
PROOF
<1>1. call[r] \in Call /\ call[r].user \in User /\ IsOpen(r) /\ Holding(r) /\ call[r].pc = "tx"
    BY DEF Commit, At, Typed, TypeOK, IsOpen, Ended, Holding
<1>2. /\ \A s \in Request : s # r => call'[s] = call[s]
      /\ call'[r].user = call[r].user /\ call'[r].lines = call[r].lines
      /\ call'[r].pc \in {"clear", "fail"}
    BY DEF Commit, Goto, Typed, TypeOK, Call
<1>3. /\ \A s \in Request : s # r => invoice'[s] = invoice[s]
      /\ invoice'[r].lines = call[r].lines
    BY DEF Commit, Typed, TypeOK
<1>4. cart' = cart
    BY DEF Commit
<1>5. OneOpenCall'
    BY <1>1, <1>2 DEF CartInv, OneOpenCall, IsOpen
<1>6. CartsApart'
    BY <1>4 DEF CartInv, CartsApart
<1>7. call[r].lines \subseteq cart[call[r].user]
    BY <1>1 DEF CartInv, HoldsItsLines
<1>8. HoldsItsLines'
    BY <1>2, <1>3, <1>4, <1>7 DEF CartInv, HoldsItsLines, Holding
<1>9. ASSUME NEW s \in Request, s # r, s \in (Committed \ CutShort)'
      PROVE  s \in Committed \ CutShort /\ invoice[s].lines \cap call[r].lines = {}
    <2>1. s \in Committed \ CutShort
        BY <1>9, <1>2, <1>3 DEF Committed, CutShort
    <2>2. /\ invoice[s].lines = call[s].lines
          /\ call[s].pc \in {"clear", "audit", "answered"}
          /\ call[s].user \in User
        BY <2>1 DEF CartInv, HoldsItsLines, Committed, CutShort, Typed
    <2>3. CASE call[s].pc = "clear"
        <3>1. call[s].lines \subseteq cart[call[s].user]
            BY <2>3 DEF CartInv, HoldsItsLines, Holding
        <3>2. call[s].user # call[r].user
            BY <2>3, <1>1, <1>9 DEF CartInv, OneOpenCall, IsOpen, Ended
        <3> QED BY <2>1, <2>2, <3>1, <3>2, <1>1, <1>7 DEF CartInv, CartsApart
    <2>4. CASE call[s].pc \in {"audit", "answered"}
        BY <2>1, <2>2, <2>4, <1>1, <1>7 DEF CartInv, HoldsItsLines, Committed
    <2> QED BY <2>2, <2>3, <2>4
<1>10. SoldApart'
    <2> SUFFICES ASSUME NEW r1 \in Request, NEW r2 \in Request,
                        r1 \in (Committed \ CutShort)', r2 \in (Committed \ CutShort)',
                        r1 # r2
                 PROVE  invoice'[r1].lines \cap invoice'[r2].lines = {}
        BY DEF SoldApart, Committed
    <2>1. CASE r1 = r
        BY <2>1, <1>3, <1>9
    <2>2. CASE r2 = r
        BY <2>2, <1>3, <1>9
    <2>3. CASE r1 # r /\ r2 # r
        BY <2>3, <1>3, <1>9 DEF CartInv, SoldApart
    <2> QED BY <2>1, <2>2, <2>3
<1> QED BY <1>5, <1>6, <1>8, <1>10 DEF CartInv

LEMMA ClientCarts ==
    ASSUME Typed, CartInv, "overlap" \notin Faults,
           \/ \E u \in User, l \in Line : AddLine(u, l)
           \/ \E r \in Request, k \in Key, p \in Payload, u \in User : Receive(r, k, p, u)
    PROVE  CartInv'
PROOF
<1>1. ASSUME NEW u \in User, NEW l \in Line, AddLine(u, l)
      PROVE  CartInv'
    <2>1. /\ call' = call /\ invoice' = invoice
          /\ \A v \in User : cart'[v] = IF v = u THEN cart[v] \cup {l} ELSE cart[v]
          /\ \A v \in User : l \notin cart[v]
          /\ \A r \in Request : l \notin call[r].lines
        BY <1>1 DEF AddLine, Typed, TypeOK
    <2>2. OneOpenCall' /\ SoldApart'
        BY <2>1 DEF CartInv, OneOpenCall, IsOpen, SoldApart, Committed, CutShort
    <2>3. CartsApart'
        BY <2>1 DEF CartInv, CartsApart
    <2>4. \A r \in Request : Holding(r) => call[r].user \in User
        BY DEF Holding, Typed
    <2>5. HoldsItsLines'
        <3> SUFFICES ASSUME NEW r \in Request
                     PROVE  /\ Holding(r) => call[r].lines \subseteq cart'[call[r].user]
                            /\ invoice[r] # NoInvoice =>
                                /\ invoice[r].lines = call[r].lines
                                /\ call[r].pc \in {"clear", "audit", "answered",
                                                   "fail", "failed", "dead"}
                                /\ call[r].pc \in {"audit", "answered"} =>
                                    \A v \in User : cart'[v] \cap call[r].lines = {}
            BY <2>1 DEF HoldsItsLines, Holding
        <3>1. Holding(r) => call[r].lines \subseteq cart'[call[r].user]
            <4>1. Holding(r) => cart[call[r].user] \subseteq cart'[call[r].user]
                BY <2>1, <2>4
            <4> QED BY <4>1 DEF CartInv, HoldsItsLines
        <3>2. ASSUME NEW v \in User, cart[v] \cap call[r].lines = {}
              PROVE  cart'[v] \cap call[r].lines = {}
            BY <3>2, <2>1
        <3> QED BY <3>1, <3>2 DEF CartInv, HoldsItsLines
    <2> QED BY <2>2, <2>3, <2>5 DEF CartInv
<1>2. ASSUME NEW r \in Request, NEW k \in Key, NEW p \in Payload, NEW u \in User,
             Receive(r, k, p, u)
      PROVE  CartInv'
    <2>1. /\ \A s \in Request : s # r => call'[s] = call[s]
          /\ call[r].pc = "idle" /\ call'[r].pc = "find" /\ call'[r].user = u
          /\ cart' = cart /\ invoice' = invoice
        <3>1. /\ call[r] \in Call /\ r \in DOMAIN call
              /\ call' = [call EXCEPT ![r] = [call[r] EXCEPT !.pc = "find", !.key = k,
                                                            !.hash = p, !.user = u]]
            BY <1>2 DEF Receive, Typed, TypeOK
        <3>2. /\ \A s \in Request : s # r => call'[s] = call[s]
              /\ call'[r].pc = "find" /\ call'[r].user = u
            BY <3>1 DEF Typed, TypeOK, Call
        <3> QED BY <1>2, <3>2 DEF Receive, At
    <2>2. Open(u) = {}
        BY <1>2 DEF Receive
    <2>3. \A s \in Request : IsOpen(s) => call[s].user # u
        BY <2>2 DEF Open, IsOpen
    <2>4. invoice[r] = NoInvoice
        BY <2>1 DEF CartInv, HoldsItsLines
    <2>5. OneOpenCall'
        BY <2>1, <2>3 DEF CartInv, OneOpenCall, IsOpen
    <2>6. CartsApart'
        BY <2>1 DEF CartInv, CartsApart
    <2>7. HoldsItsLines'
        BY <2>1, <2>4 DEF CartInv, HoldsItsLines, Holding
    <2>8. SoldApart'
        BY <2>1, <2>4 DEF CartInv, SoldApart, Committed, CutShort
    <2> QED BY <2>5, <2>6, <2>7, <2>8 DEF CartInv
<1> QED BY <1>1, <1>2

LEMMA NextCarts ==
    "overlap" \notin Faults /\ Typed /\ CartInv /\ [Next]_vars => CartInv'
PROOF
<1> SUFFICES ASSUME "overlap" \notin Faults, Typed, CartInv, [Next]_vars PROVE CartInv'
    OBVIOUS
<1>1. ASSUME UNCHANGED <<call, invoice, cart>> PROVE CartInv'
    BY <1>1 DEF CartInv, OneOpenCall, IsOpen, CartsApart, HoldsItsLines, Holding,
                SoldApart, Committed, CutShort
<1>2. ASSUME NEW k \in Key, Age(k) PROVE CartInv'
    BY <1>1, <1>2 DEF Age
<1>3. ASSUME NEW r \in Request, ClearCart(r) PROVE CartInv'
    <2>1. CASE cart' = [cart EXCEPT ![call[r].user] = {}] /\ Goto(r, "audit")
        BY <1>3, <2>1, ClearingCarts DEF ClearCart
    <2>2. CASE cart' = cart /\ Goto(r, "fail")
        BY <1>3, <2>2, EndingCarts
    <2> QED BY <1>3, <2>1, <2>2 DEF ClearCart
<1>4. ASSUME NEW r \in Request, ServerStep(r) \/ Crash(r) PROVE CartInv'
    BY <1>3, <1>4, EarlyCarts, ReadingCarts, EndingCarts, CommitCarts DEF ServerStep
<1>5. CASE UNCHANGED vars
    BY <1>1, <1>5 DEF vars
<1> QED BY <1>2, <1>4, <1>5, ClientCarts DEF Next

(* Whatever else fails, a line is on two invoices of calls that ran to their *)
(* end only if a cashier had several calls open: reading the cart before    *)
(* the transaction and deleting it after, by its key, is enough then.       *)
THEOREM LineSoldOnce == Spec => []CartLineSoldOnce
PROOF
<1>1. CASE "overlap" \in Faults
    <2>1. CartLineSoldOnce
        BY <1>1 DEF CartLineSoldOnce
    <2> QED BY <2>1, PTL
<1>2. CASE "overlap" \notin Faults
    <2>1. Init => CartInv
        BY InitCarts
    <2>2. Typed /\ CartInv /\ [Next]_vars => CartInv'
        BY <1>2, NextCarts
    <2>3. CartInv => CartLineSoldOnce
        BY DEF CartInv, SoldApart, CartLineSoldOnce
    <2> QED BY <2>1, <2>2, <2>3, InitTyped, NextTyped, PTL DEF Spec
<1> QED BY <1>1, <1>2
===============================================================================
