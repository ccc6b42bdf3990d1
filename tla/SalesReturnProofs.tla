---------------------------- MODULE SalesReturnProofs ----------------------------
(***************************************************************************)
(* Proofs about SalesReturn and RefundCommand, for any number of returns,   *)
(* items, calls, keys and amounts.                                          *)
(*                                                                          *)
(* Of the returns: however they are received and refunded at the same time, *)
(* no more comes back than was sold, stock is restored once, and refunds    *)
(* stay within what came back.  RefundCommand takes no other step of them,  *)
(* so the same holds there.  Of the refunds: where calls may die but are    *)
(* never slow, they implement IdempotentCommand.                            *)
(***************************************************************************)
EXTENDS RefundCommand, SumTheorems

---------------------------------------------------------------------------
(* The invariant of the returns *)

ReceiveSteps == {"lock items", "check", "post"}
RefundSteps == {"lock return", "read", "insert"}
Open == {"NONE", "DRAFT", "SUBMITTED"}

(* Each status is so many versions past the last draft.                     *)
VersionsBounded ==
    \A x \in Return :
        /\ doc[x].status \in {"NONE", "DRAFT"} => doc[x].version <= MaxVersion
        /\ doc[x].status = "SUBMITTED" => doc[x].version <= MaxVersion + 1
        /\ doc[x].status = "APPROVED" => doc[x].version <= MaxVersion + 2
        /\ doc[x].status \in {"RECEIVED", "CANCELLED"} => doc[x].version <= MaxVersion + 3

HasRefund == {w \in Worker : refund[w].status # "NONE"}
FinitelyMany == IsFiniteSet(Received) /\ IsFiniteSet(HasRefund)

(* A call that receives a return has seen it approved, and knows that from  *)
(* the version; its lines are fixed since.                                  *)
SeenApproved ==
    \A w \in Worker : call[w].pc \in ReceiveSteps =>
        LET row == doc[call[w].on] IN
        /\ call[w].on \in Return /\ row.status \notin Open
        /\ call[w].version <= row.version
        /\ row.version = call[w].version => row.status = "APPROVED"

(* What it has checked under the locks of the items still holds.            *)
ItemsLocked ==
    \A w \in Worker : call[w].pc \in {"check", "post"} =>
        \A i \in ItemsOf(call[w].on) : itemLock[i] = w
CheckedHolds ==
    \A w \in Worker : call[w].pc = "post" => AllEligible(call[w].on)

(* What a refund has read under the lock of the return is no less than what *)
(* is refunded.                                                             *)
RowLocked ==
    \A w \in Worker :
        /\ call[w].pc \in RefundSteps => call[w].on \in Return
        /\ call[w].pc \in {"read", "insert"} => rowLock[call[w].on] = w
ReadHolds ==
    \A w \in Worker : call[w].pc = "insert" =>
        call[w].on \in Received /\ Refunded(call[w].on, Active) <= call[w].active

RefundsOfReceived ==
    \A w \in HasRefund : call[w].pc = "done" /\ refund[w].of \in Received

ReturnsInv ==
    /\ TypeOK /\ VersionsBounded /\ FinitelyMany
    /\ SeenApproved /\ ItemsLocked /\ CheckedHolds
    /\ RowLocked /\ ReadHolds /\ RefundsOfReceived
    /\ ReturnedWithinSold /\ RestoredOnce /\ RefundsWithinReturn

---------------------------------------------------------------------------
(* Quantities and amounts *)

DocRow == [status : ReturnStatus, version : 1..(MaxVersion + 4), lines : Lines \cup {<<>>}]
RefundRow == [status : RefundStatus, of : Return \cup {None}, amount : Nat]
CallRow == [pc : Pc, on : Return \cup {None}, version : Nat, amount : Nat, active : Nat]

LEMMA LinesAreFinite ==
    ASSUME NEW lines \in Lines \cup {<<>>}
    PROVE  /\ IsFiniteSet(DOMAIN lines)
           /\ \A n \in DOMAIN lines : lines[n] \in Line
PROOF
<1>1. lines \in Seq(Line)
    <2>1. <<>> \in Seq(Line)
        OBVIOUS
    <2> QED BY <2>1, SalesReturnAssumption
<1>2. DOMAIN lines = 1 .. Len(lines) /\ Len(lines) \in Nat
    BY <1>1
<1>3. IsFiniteSet(1 .. Len(lines))
    BY <1>2, FS_Interval
<1> QED BY <1>1, <1>2, <1>3

LEMMA RequestedIsNat ==
    ASSUME NEW lines \in Lines \cup {<<>>}, NEW i
    PROVE  Requested(lines, i) \in Nat
PROOF
<1> DEFINE quantity == [n \in DOMAIN lines |-> lines[n].quantity]
           S == {n \in DOMAIN lines : lines[n].item = i}
<1>1. IsFiniteSet(S)
    BY LinesAreFinite, FS_Subset
<1>2. \A n \in S : quantity[n] \in Nat
    BY LinesAreFinite DEF Line
<1>3. SumFunctionOnSet(quantity, S) \in Nat
    <2> HIDE DEF quantity, S
    <2> QED BY <1>1, <1>2, SumType
<1> QED BY <1>3 DEF Requested

LEMMA TotalIsNat ==
    ASSUME NEW lines \in Lines \cup {<<>>}
    PROVE  Total(lines) \in Nat
PROOF
<1> DEFINE value == [n \in DOMAIN lines |-> lines[n].quantity * UnitValue[lines[n].item]]
<1>1. IsFiniteSet(DOMAIN lines) /\ DOMAIN value = DOMAIN lines
    BY LinesAreFinite
<1>2. \A n \in DOMAIN lines : value[n] \in Nat
    <2> TAKE n \in DOMAIN lines
    <2>1. lines[n].quantity \in Nat /\ UnitValue[lines[n].item] \in Nat
        BY LinesAreFinite, SalesReturnAssumption DEF Line
    <2>2. \A p, q \in Nat : p * q \in Nat
        OBVIOUS
    <2> QED BY <2>1, <2>2
<1>3. SumFunctionOnSet(value, DOMAIN lines) \in Nat
    <2> HIDE DEF value
    <2> QED BY <1>1, <1>2, SumType
<1> QED BY <1>1, <1>3 DEF Total, SumFunction

LEMMA ReturnedIsNat ==
    ASSUME TypeOK, FinitelyMany, NEW i
    PROVE  Returned(i) \in Nat
PROOF
<1> DEFINE requested == [x \in Return |-> Requested(doc[x].lines, i)]
<1>1. \A x \in Received : requested[x] \in Nat
    BY RequestedIsNat DEF TypeOK, Received
<1>2. SumFunctionOnSet(requested, Received) \in Nat
    <2> HIDE DEF requested
    <2> QED BY <1>1, SumType DEF FinitelyMany
<1> QED BY <1>2 DEF Returned

LEMMA RefundsAreFinite ==
    ASSUME FinitelyMany, NEW x
    PROVE  IsFiniteSet(RefundsOf(x, Active))
PROOF
<1>1. RefundsOf(x, Active) \subseteq HasRefund
    BY DEF RefundsOf, Active, HasRefund
<1> QED BY <1>1, FS_Subset DEF FinitelyMany

LEMMA RefundedIsNat ==
    ASSUME TypeOK, FinitelyMany, NEW x
    PROVE  Refunded(x, Active) \in Nat
PROOF
<1> DEFINE amount == [w \in Worker |-> refund[w].amount]
<1>1. \A w \in RefundsOf(x, Active) : amount[w] \in Nat
    BY DEF TypeOK, RefundsOf
<1>2. SumFunctionOnSet(amount, RefundsOf(x, Active)) \in Nat
    <2> HIDE DEF amount
    <2> QED BY <1>1, RefundsAreFinite, SumType
<1> QED BY <1>2 DEF Refunded

(* What has come back stays the same while the received returns do.         *)
LEMMA ReturnedKept ==
    ASSUME TypeOK, FinitelyMany, Received' = Received, NEW i,
           \A x \in Received : doc'[x].lines = doc[x].lines
    PROVE  Returned(i)' = Returned(i)
PROOF
<1> DEFINE f == [x \in Return |-> Requested(doc[x].lines, i)]
           g == [x \in Return |-> Requested(doc'[x].lines, i)]
<1>1. \A x \in Received : f[x] = g[x]
    BY DEF Received
<1>2. SumFunctionOnSet(f, Received) = SumFunctionOnSet(g, Received)
    <2> HIDE DEF f, g
    <2> QED BY <1>1, SumSame DEF FinitelyMany
<1>3. Returned(i)' = SumFunctionOnSet(g, Received)
    BY DEF Returned
<1> QED BY <1>2, <1>3 DEF Returned

(* A return is received. *)
LEMMA ReturnedGrows ==
    ASSUME TypeOK, FinitelyMany, NEW x \in Return, x \notin Received, NEW i,
           Received' = Received \cup {x},
           \A y \in Return : doc'[y].lines = doc[y].lines
    PROVE  Returned(i)' = Returned(i) + Requested(doc[x].lines, i)
PROOF
<1> DEFINE f == [y \in Return |-> Requested(doc[y].lines, i)]
<1>1. Returned(i)' = SumFunctionOnSet([y \in Return |-> Requested(doc'[y].lines, i)],
                                      Received \cup {x})
    BY DEF Returned
<1>2. [y \in Return |-> Requested(doc'[y].lines, i)] = f
    OBVIOUS
<1>3. \A y \in Received \cup {x} : f[y] \in Int
    <2> TAKE y \in Received \cup {x}
    <2>1. y \in Return /\ doc[y].lines \in Lines \cup {<<>>}
        BY DEF TypeOK, Received
    <2>2. Requested(doc[y].lines, i) \in Nat
        BY <2>1, RequestedIsNat
    <2> QED BY <2>1, <2>2
<1>4. SumFunctionOnSet(f, Received \cup {x}) = SumFunctionOnSet(f, Received) + f[x]
    <2> HIDE DEF f
    <2> QED BY <1>3, SumAdd DEF FinitelyMany
<1>5. f[x] = Requested(doc[x].lines, i)
    OBVIOUS
<1> HIDE DEF f
<1>6. Returned(i)' = SumFunctionOnSet(f, Received) + Requested(doc[x].lines, i)
    BY <1>1, <1>2, <1>4, <1>5
<1>7. Returned(i) = SumFunctionOnSet(f, Received)
    BY DEF Returned, f
<1> QED BY <1>6, <1>7

(* A refund is inserted. *)
LEMMA RefundedGrows ==
    ASSUME TypeOK, FinitelyMany, NEW w \in Worker, w \notin HasRefund,
           NEW row \in RefundRow, row.status = "PENDING", refund' = [refund EXCEPT ![w] = row],
           NEW y \in Return
    PROVE  Refunded(y, Active)' = Refunded(y, Active) + (IF y = row.of THEN row.amount ELSE 0)
PROOF
<1> DEFINE f == [v \in Worker |-> refund[v].amount]
           g == [v \in Worker |-> refund'[v].amount]
           S == RefundsOf(y, Active)
<1>1. Refunded(y, Active) = SumFunctionOnSet(f, S)
    BY DEF Refunded
<1>2. Refunded(y, Active)' = SumFunctionOnSet(g, S')
    BY DEF Refunded
<1>3. /\ refund'[w] = row
      /\ \A v \in Worker : v # w => refund'[v] = refund[v]
    BY DEF TypeOK
<1>4. IsFiniteSet(S) /\ w \notin S /\ S \subseteq Worker
    BY RefundsAreFinite DEF RefundsOf, HasRefund, Active
<1>5. S' = IF y = row.of THEN S \cup {w} ELSE S
    BY <1>3, <1>4 DEF RefundsOf, Active
<1>6. \A v \in S : f[v] = g[v] /\ f[v] \in Int
    BY <1>3, <1>4 DEF TypeOK
<1>7. SumFunctionOnSet(g, S) = SumFunctionOnSet(f, S)
    <2> HIDE DEF f, g, S
    <2> QED BY <1>4, <1>6, SumSame
<1>8. SumFunctionOnSet(g, S \cup {w}) = SumFunctionOnSet(g, S) + row.amount
    <2>1. g[w] = row.amount /\ row.amount \in Int
        BY <1>3 DEF RefundRow
    <2>2. \A v \in S : g[v] \in Int
        BY <1>6
    <2> HIDE DEF g, S
    <2>3. g[w] \in Int
        BY <2>1
    <2>4. SumFunctionOnSet(g, S \cup {w}) = SumFunctionOnSet(g, S) + g[w]
        BY <2>2, <2>3, <1>4, SumAdd
    <2> QED BY <2>1, <2>4
<1>9. SumFunctionOnSet(f, S) \in Nat
    BY <1>1, RefundedIsNat
<1> HIDE DEF f, g
<1> QED BY <1>1, <1>2, <1>5, <1>7, <1>8, <1>9

(* A refund changes its status: none of them becomes active again.          *)
LEMMA RefundedShrinks ==
    ASSUME TypeOK, FinitelyMany, NEW w \in Worker, NEW status \in RefundStatus,
           refund' = [refund EXCEPT ![w].status = status],
           refund[w].status \in Active, NEW y
    PROVE  /\ Refunded(y, Active)' \in Nat
           /\ Refunded(y, Active)' <= Refunded(y, Active)
PROOF
<1> DEFINE f == [v \in Worker |-> refund[v].amount]
           S == RefundsOf(y, Active)
<1>1. Refunded(y, Active) = SumFunctionOnSet(f, S)
    BY DEF Refunded
<1>2. /\ \A v \in Worker : refund'[v].amount = refund[v].amount /\ refund'[v].of = refund[v].of
      /\ \A v \in Worker : v # w => refund'[v] = refund[v]
    BY DEF TypeOK
<1>3. Refunded(y, Active)' = SumFunctionOnSet([v \in Worker |-> refund'[v].amount], S')
    BY DEF Refunded
<1>4. [v \in Worker |-> refund'[v].amount] = f
    BY <1>2
<1>5. S' \in SUBSET S
    BY <1>2 DEF RefundsOf
<1>6. IsFiniteSet(S) /\ \A v \in S : f[v] \in Nat
    BY RefundsAreFinite DEF RefundsOf, TypeOK
<1>7. SumFunctionOnSet(f, S') <= SumFunctionOnSet(f, S)
    <2> HIDE DEF f, S
    <2> QED BY <1>5, <1>6, SumPart
<1>8. SumFunctionOnSet(f, S') \in Nat
    <2> HIDE DEF f, S
    <2>1. IsFiniteSet(S') /\ \A v \in S' : f[v] \in Nat
        BY <1>5, <1>6, FS_Subset
    <2> QED BY <2>1, SumType
<1> HIDE DEF f, S
<1> QED BY <1>1, <1>3, <1>4, <1>7, <1>8

---------------------------------------------------------------------------
(* Steps of the document alone *)

LEMMA InitReturnsInv == Init => ReturnsInv
PROOF
<1> SUFFICES ASSUME Init PROVE ReturnsInv
    OBVIOUS
<1>1. TypeOK
    BY SalesReturnAssumption DEF Init, TypeOK, ReturnStatus, RefundStatus, Pc
<1>2. Received = {} /\ HasRefund = {}
    BY DEF Init, Received, HasRefund
<1>3. FinitelyMany
    BY <1>2, FS_EmptySet DEF FinitelyMany
<1>4. VersionsBounded
    BY SalesReturnAssumption DEF Init, VersionsBounded
<1>5. SeenApproved /\ ItemsLocked /\ CheckedHolds /\ RowLocked /\ ReadHolds
    BY DEF Init, SeenApproved, ItemsLocked, CheckedHolds, RowLocked, ReadHolds,
           ReceiveSteps, RefundSteps
<1>6. \A i \in Item : Returned(i) = 0
    BY <1>2, SumEmpty DEF Returned
<1>7. \A x \in Return : Refunded(x, Active) = 0
    <2> TAKE x \in Return
    <2>1. RefundsOf(x, Active) = {}
        BY <1>2 DEF RefundsOf, HasRefund, Active
    <2> QED BY <2>1, SumEmpty DEF Refunded
<1>8. ReturnedWithinSold /\ RestoredOnce /\ RefundsWithinReturn
    BY <1>2, <1>6, <1>7, SalesReturnAssumption
    DEF Init, ReturnedWithinSold, RestoredOnce, RefundsWithinReturn
<1>9. RefundsOfReceived
    BY <1>2 DEF RefundsOfReceived
<1> QED BY <1>1, <1>3, <1>4, <1>5, <1>8, <1>9 DEF ReturnsInv

(* The row of x becomes r, a later version of itself, and it is received    *)
(* neither before nor after or both.                                        *)
Edits(x, r) ==
    /\ r \in DocRow /\ doc' = [doc EXCEPT ![x] = r]
    /\ doc[x].status # "NONE" => r.version = doc[x].version + 1
    /\ doc[x].status \notin Open => r.status \notin Open
    /\ doc[x].status \notin {"NONE", "DRAFT"} => r.lines = doc[x].lines
    /\ r.status \in {"RECEIVED", "COMPLETED"} <=> doc[x].status \in {"RECEIVED", "COMPLETED"}
    /\ r.status \in {"NONE", "DRAFT"} => r.version <= MaxVersion
    /\ r.status = "SUBMITTED" => r.version <= MaxVersion + 1
    /\ r.status = "APPROVED" => r.version <= MaxVersion + 2
    /\ r.status \in {"RECEIVED", "CANCELLED"} => r.version <= MaxVersion + 3
    /\ UNCHANGED <<refund, call, itemLock, rowLock, restored>>

LEMMA EditInv ==
    ASSUME ReturnsInv, NEW x \in Return, NEW r, Edits(x, r)
    PROVE  ReturnsInv'
PROOF
<1>1. /\ doc'[x] = r /\ \A y \in Return : y # x => doc'[y] = doc[y]
      /\ UNCHANGED <<refund, call, itemLock, rowLock, restored>>
      /\ TypeOK /\ FinitelyMany
    BY DEF Edits, ReturnsInv, TypeOK
<1>2. TypeOK'
    BY <1>1 DEF TypeOK, Edits, DocRow
<1>3. VersionsBounded'
    BY <1>1 DEF ReturnsInv, VersionsBounded, Edits
<1>4. Received' = Received /\ HasRefund' = HasRefund
    BY <1>1 DEF Received, HasRefund, Edits
<1>5. \A y \in Return : doc[y].status \notin {"NONE", "DRAFT"} => doc'[y].lines = doc[y].lines
    BY <1>1 DEF Edits
<1>6. \A i : Returned(i)' = Returned(i)
    <2> TAKE i
    <2>1. \A y \in Received : doc'[y].lines = doc[y].lines
        BY <1>5 DEF Received
    <2> QED BY <1>1, <1>4, <2>1, ReturnedKept
<1>7. \A y : Refunded(y, Active)' = Refunded(y, Active)
    BY <1>1 DEF Refunded, RefundsOf
<1>8. SeenApproved'
    <2> SUFFICES ASSUME NEW w \in Worker, call'[w].pc \in ReceiveSteps
                 PROVE  /\ call'[w].on \in Return /\ doc'[call'[w].on].status \notin Open
                        /\ call'[w].version <= doc'[call'[w].on].version
                        /\ doc'[call'[w].on].version = call'[w].version
                            => doc'[call'[w].on].status = "APPROVED"
        BY DEF SeenApproved
    <2>1. /\ call[w].on \in Return /\ doc[call[w].on].status \notin Open
          /\ call[w].version <= doc[call[w].on].version
          /\ doc[call[w].on].version = call[w].version => doc[call[w].on].status = "APPROVED"
        BY <1>1 DEF ReturnsInv, SeenApproved
    <2>2. call[w].version \in Nat /\ \A y \in Return : doc[y].version \in Nat
        BY <1>1 DEF TypeOK
    <2>3. CASE call[w].on # x
        BY <1>1, <2>1, <2>3
    <2>4. CASE call[w].on = x
        BY <1>1, <2>1, <2>2, <2>4 DEF Edits, Open
    <2> QED BY <2>3, <2>4
<1>9. \A w \in Worker : call[w].pc \in ReceiveSteps =>
        doc'[call[w].on].lines = doc[call[w].on].lines
    BY <1>5 DEF ReturnsInv, SeenApproved, Open
<1>10. ItemsLocked'
    BY <1>1, <1>9 DEF ReturnsInv, ItemsLocked, ItemsOf, ReceiveSteps
<1>11. CheckedHolds'
    BY <1>1, <1>6, <1>9
    DEF ReturnsInv, CheckedHolds, AllEligible, Eligible, ItemsOf, ReceiveSteps
<1>12. RowLocked' /\ ReadHolds' /\ RefundsOfReceived' /\ FinitelyMany'
    BY <1>1, <1>4, <1>7
    DEF ReturnsInv, RowLocked, ReadHolds, RefundsOfReceived, FinitelyMany
<1>13. ReturnedWithinSold' /\ RestoredOnce'
    BY <1>1, <1>6 DEF ReturnsInv, ReturnedWithinSold, RestoredOnce
<1>14. RefundsWithinReturn'
    BY <1>4, <1>5, <1>7 DEF ReturnsInv, RefundsWithinReturn, Received
<1> QED BY <1>2, <1>3, <1>8, <1>10, <1>11, <1>12, <1>13, <1>14 DEF ReturnsInv

LEMMA DraftInv ==
    ASSUME ReturnsInv, NEW x \in Return, NEW lines \in Lines,
           CreateReturn(x, lines) \/ UpdateDraft(x, lines)
    PROVE  ReturnsInv'
PROOF
<1>1. doc[x] \in DocRow /\ doc \in [Return -> DocRow] /\ MaxVersion \in Nat \ {0}
    BY SalesReturnAssumption DEF ReturnsInv, TypeOK, DocRow
<1>2. /\ doc[x].status \in {"NONE", "DRAFT"} => doc[x].version <= MaxVersion
      /\ doc[x].status = "SUBMITTED" => doc[x].version <= MaxVersion + 1
      /\ doc[x].status = "APPROVED" => doc[x].version <= MaxVersion + 2
      /\ doc[x].status \in {"RECEIVED", "CANCELLED"} => doc[x].version <= MaxVersion + 3
    BY DEF ReturnsInv, VersionsBounded
<1>3. CASE CreateReturn(x, lines)
    <2>1. Edits(x, [status |-> "DRAFT", version |-> 1, lines |-> lines])
        BY <1>1, <1>3 DEF CreateReturn, Edits, DocRow, ReturnStatus, Open
    <2> QED BY <2>1, EditInv
<1>4. CASE UpdateDraft(x, lines)
    <2>1. Edits(x, [status |-> "DRAFT", version |-> doc[x].version + 1, lines |-> lines])
        BY <1>1, <1>4 DEF UpdateDraft, Edits, DocRow, ReturnStatus, Open
    <2> QED BY <2>1, EditInv
<1> QED BY <1>3, <1>4

LEMMA DocumentInv ==
    ASSUME ReturnsInv, NEW x \in Return, Submit(x) \/ Approve(x) \/ Complete(x) \/ Cancel(x)
    PROVE  ReturnsInv'
PROOF
<1>1. doc[x] \in DocRow /\ doc \in [Return -> DocRow] /\ MaxVersion \in Nat \ {0}
    BY SalesReturnAssumption DEF ReturnsInv, TypeOK, DocRow
<1>2. /\ doc[x].status \in {"NONE", "DRAFT"} => doc[x].version <= MaxVersion
      /\ doc[x].status = "SUBMITTED" => doc[x].version <= MaxVersion + 1
      /\ doc[x].status = "APPROVED" => doc[x].version <= MaxVersion + 2
      /\ doc[x].status \in {"RECEIVED", "CANCELLED"} => doc[x].version <= MaxVersion + 3
    BY DEF ReturnsInv, VersionsBounded
<1>3. ASSUME NEW status \in ReturnStatus \ {"NONE", "DRAFT"}, Transition(x, status),
             \/ doc[x].status = "DRAFT" /\ status = "SUBMITTED"
             \/ doc[x].status = "SUBMITTED" /\ status = "APPROVED"
             \/ doc[x].status = "RECEIVED" /\ status = "COMPLETED"
             \/ doc[x].status \in {"DRAFT", "SUBMITTED", "APPROVED"} /\ status = "CANCELLED"
      PROVE  ReturnsInv'
    <2>1. /\ doc' = [doc EXCEPT ![x] = Moved(x, status)]
          /\ UNCHANGED <<refund, call, itemLock, rowLock, restored>>
        BY <1>3 DEF Transition
    <2>2. /\ doc[x].version \in Nat /\ doc[x].version >= 1 /\ doc[x].lines \in Lines \cup {<<>>}
          /\ doc[x].version + 1 <= MaxVersion + 4
        BY <1>1, <1>2, <1>3 DEF DocRow
    <2> DEFINE r == Moved(x, status)
    <2>3. r.status = status /\ r.version = doc[x].version + 1 /\ r.lines = doc[x].lines
        BY DEF Moved
    <2>4. r \in DocRow
        BY <1>3, <2>2 DEF DocRow, Moved
    <2> HIDE DEF r
    <2>5. /\ r.status \notin Open \/ doc[x].status = "DRAFT"
          /\ r.status \in {"RECEIVED", "COMPLETED"} <=> doc[x].status \in {"RECEIVED", "COMPLETED"}
        BY <1>3, <2>3 DEF Open
    <2>6. /\ r.status \in {"NONE", "DRAFT"} => r.version <= MaxVersion
          /\ r.status = "SUBMITTED" => r.version <= MaxVersion + 1
          /\ r.status = "APPROVED" => r.version <= MaxVersion + 2
          /\ r.status \in {"RECEIVED", "CANCELLED"} => r.version <= MaxVersion + 3
        BY <1>1, <1>2, <1>3, <2>2, <2>3
    <2>7. doc' = [doc EXCEPT ![x] = r]
        BY <2>1 DEF r
    <2>8. doc[x].status \notin Open => r.status \notin Open
        BY <2>5 DEF Open
    <2>9. Edits(x, r)
        BY <2>1, <2>3, <2>4, <2>5, <2>6, <2>7, <2>8 DEF Edits
    <2> QED BY <2>9, EditInv
<1> QED
    BY <1>3 DEF Submit, Approve, Complete, Cancel, Cancellable, ReturnStatus

---------------------------------------------------------------------------
(* Steps of a call that write neither the document nor a refund *)

(* Nothing that a call relies on changes but for w: its transaction goes on *)
(* or ends, with or without locks that were free or its own.                *)
CallOnly(w, c) ==
    /\ c \in CallRow /\ call' = [call EXCEPT ![w] = c]
    /\ UNCHANGED <<doc, refund, restored>>
    /\ refund[w].status = "NONE"
    /\ itemLock' \in [Item -> Worker \cup {None}]
    /\ rowLock' \in [Return -> Worker \cup {None}]
    /\ \A i \in Item, v \in Worker : v # w /\ itemLock[i] = v => itemLock'[i] = v
    /\ \A x \in Return, v \in Worker : v # w /\ rowLock[x] = v => rowLock'[x] = v
    /\ c.pc \in ReceiveSteps \cup RefundSteps => c.on \in Return
    /\ c.pc \in ReceiveSteps =>
        LET row == doc[c.on] IN
        /\ row.status \notin Open
        /\ c.version <= row.version
        /\ row.version = c.version => row.status = "APPROVED"
    /\ c.pc \in {"check", "post"} => \A i \in ItemsOf(c.on) : itemLock'[i] = w
    /\ c.pc = "post" => AllEligible(c.on)
    /\ c.pc \in {"read", "insert"} => rowLock'[c.on] = w
    /\ c.pc = "insert" => c.on \in Received /\ Refunded(c.on, Active) <= c.active

LEMMA CallOnlyInv ==
    ASSUME ReturnsInv, NEW w \in Worker, NEW c, CallOnly(w, c)
    PROVE  ReturnsInv'
PROOF
<1>1. /\ call'[w] = c /\ \A v \in Worker : v # w => call'[v] = call[v]
      /\ UNCHANGED <<doc, refund, restored>> /\ TypeOK /\ FinitelyMany
    BY DEF CallOnly, ReturnsInv, TypeOK
<1>2. TypeOK'
    <2>1. call' \in [Worker -> CallRow]
        BY <1>1 DEF CallOnly, TypeOK, CallRow
    <2> QED BY <1>1, <2>1 DEF TypeOK, CallRow, CallOnly
<1>3. Received' = Received /\ HasRefund' = HasRefund
    BY <1>1 DEF Received, HasRefund
<1>4. /\ \A i : Returned(i)' = Returned(i)
      /\ \A y : Refunded(y, Active)' = Refunded(y, Active)
      /\ \A y : ItemsOf(y)' = ItemsOf(y)
    BY <1>1, <1>3 DEF Returned, Refunded, RefundsOf, ItemsOf
<1>5. VersionsBounded' /\ FinitelyMany'
    BY <1>1, <1>3 DEF ReturnsInv, VersionsBounded, FinitelyMany
<1>6. SeenApproved'
    <2> SUFFICES ASSUME NEW v \in Worker, call'[v].pc \in ReceiveSteps
                 PROVE  /\ call'[v].on \in Return /\ doc[call'[v].on].status \notin Open
                        /\ call'[v].version <= doc[call'[v].on].version
                        /\ doc[call'[v].on].version = call'[v].version
                            => doc[call'[v].on].status = "APPROVED"
        BY <1>1 DEF SeenApproved
    <2>1. CASE v = w
        BY <1>1, <2>1 DEF CallOnly
    <2>2. CASE v # w
        BY <1>1, <2>2 DEF ReturnsInv, SeenApproved
    <2> QED BY <2>1, <2>2
<1>7. ItemsLocked'
    <2> SUFFICES ASSUME NEW v \in Worker, call'[v].pc \in {"check", "post"},
                        NEW i \in ItemsOf(call'[v].on)
                 PROVE  itemLock'[i] = v
        BY <1>4 DEF ItemsLocked
    <2>1. CASE v = w
        BY <1>1, <2>1 DEF CallOnly
    <2>2. CASE v # w
        BY <1>1, <2>2 DEF ReturnsInv, ItemsLocked, CallOnly, ItemsOf
    <2> QED BY <2>1, <2>2
<1>8. CheckedHolds'
    <2> SUFFICES ASSUME NEW v \in Worker, call'[v].pc = "post", NEW i \in ItemsOf(call'[v].on)
                 PROVE  Requested(doc[call'[v].on].lines, i) <= Eligible(i)
        BY <1>1, <1>4 DEF CheckedHolds, AllEligible, Eligible
    <2>1. AllEligible(call'[v].on)
        <3>1. CASE v = w
            BY <1>1, <3>1 DEF CallOnly
        <3>2. CASE v # w
            BY <1>1, <3>2 DEF ReturnsInv, CheckedHolds
        <3> QED BY <3>1, <3>2
    <2> QED BY <2>1 DEF AllEligible
<1>9. RowLocked'
    <2> SUFFICES ASSUME NEW v \in Worker
                 PROVE  /\ call'[v].pc \in RefundSteps => call'[v].on \in Return
                        /\ call'[v].pc \in {"read", "insert"} => rowLock'[call'[v].on] = v
        BY DEF RowLocked
    <2>0. /\ c.pc \in RefundSteps => c.on \in Return
          /\ c.pc \in {"read", "insert"} => rowLock'[c.on] = w
          /\ \A x \in Return, u \in Worker : u # w /\ rowLock[x] = u => rowLock'[x] = u
        BY DEF CallOnly
    <2>1. CASE v = w
        BY <1>1, <2>0, <2>1
    <2>2. CASE v # w
        BY ZenonT(40), <1>1, <2>0, <2>2 DEF ReturnsInv, RowLocked, RefundSteps
    <2> QED BY <2>1, <2>2
<1>10. ReadHolds'
    <2> SUFFICES ASSUME NEW v \in Worker, call'[v].pc = "insert"
                 PROVE  call'[v].on \in Received
                        /\ Refunded(call'[v].on, Active) <= call'[v].active
        BY <1>3, <1>4 DEF ReadHolds
    <2>1. CASE v = w
        BY <1>1, <2>1 DEF CallOnly
    <2>2. CASE v # w
        BY <1>1, <2>2 DEF ReturnsInv, ReadHolds
    <2> QED BY <2>1, <2>2
<1>11. RefundsOfReceived'
    <2>1. w \notin HasRefund
        BY DEF CallOnly, HasRefund
    <2> QED BY <1>1, <1>3, <2>1 DEF ReturnsInv, RefundsOfReceived, HasRefund
<1>12. ReturnedWithinSold' /\ RestoredOnce' /\ RefundsWithinReturn'
    BY <1>1, <1>3, <1>4
    DEF ReturnsInv, ReturnedWithinSold, RestoredOnce, RefundsWithinReturn
<1> QED BY <1>2, <1>5, <1>6, <1>7, <1>8, <1>9, <1>10, <1>11, <1>12 DEF ReturnsInv

(* Who holds no lock: what is left of w's is released. *)
LEMMA ReleasedLocks ==
    ASSUME TypeOK, NEW w \in Worker, Released(w)
    PROVE  /\ itemLock' \in [Item -> Worker \cup {None}]
           /\ rowLock' \in [Return -> Worker \cup {None}]
           /\ \A i \in Item, v \in Worker : v # w /\ itemLock[i] = v => itemLock'[i] = v
           /\ \A x \in Return, v \in Worker : v # w /\ rowLock[x] = v => rowLock'[x] = v
BY DEF TypeOK, Released

LEMMA NoRefundBefore ==
    ASSUME ReturnsInv, NEW w \in Worker, call[w].pc # "done"
    PROVE  refund[w].status = "NONE"
BY DEF ReturnsInv, RefundsOfReceived, HasRefund

LEMMA RollBackInv ==
    ASSUME ReturnsInv, NEW w \in Worker, call[w].pc # "done", RollBack(w)
    PROVE  ReturnsInv'
PROOF
<1> DEFINE c == [call[w] EXCEPT !.pc = "failed"]
<1>1. TypeOK /\ call[w] \in CallRow /\ Released(w) /\ call' = [call EXCEPT ![w] = c]
      /\ UNCHANGED <<doc, refund, restored>>
    BY DEF ReturnsInv, TypeOK, CallRow, RollBack, Goto
<1>2. c \in CallRow /\ c.pc = "failed"
    BY <1>1 DEF CallRow, Pc
<1> HIDE DEF c
<1>3. CallOnly(w, c)
    BY <1>1, <1>2, ReleasedLocks, NoRefundBefore DEF CallOnly, ReceiveSteps, RefundSteps
<1> QED BY <1>3, CallOnlyInv

LEMMA StartReceiveInv ==
    ASSUME ReturnsInv, NEW w \in Worker, NEW x \in Return, StartReceive(w, x)
    PROVE  ReturnsInv'
PROOF
<1> USE DEF At
<1>1. /\ TypeOK /\ call[w] \in CallRow /\ call \in [Worker -> CallRow]
      /\ doc[x] \in DocRow
    BY DEF ReturnsInv, TypeOK, CallRow, DocRow
<1> DEFINE c == [call[w] EXCEPT !.pc = "lock items", !.on = x, !.version = doc[x].version]
<1>2. /\ call' = [call EXCEPT ![w] = c] /\ call[w].pc = "idle" /\ doc[x].status = "APPROVED"
      /\ UNCHANGED <<doc, refund, itemLock, rowLock, restored>>
    BY DEF StartReceive
<1>3. doc[x].version \in Nat
    BY <1>1 DEF DocRow
<1>4. /\ c \in CallRow /\ c.pc = "lock items" /\ c.on = x /\ c.version = doc[x].version
    BY <1>1, <1>3 DEF CallRow, Pc, InTransaction
<1> HIDE DEF c
<1>5. /\ c.on \in Return /\ doc[c.on].status \notin Open
      /\ c.version <= doc[c.on].version /\ doc[c.on].status = "APPROVED"
    <2>1. doc[x].status = "APPROVED" /\ doc[x].version <= doc[x].version
        BY <1>2, <1>3
    <2>2. c.on = x /\ c.version = doc[x].version
        BY <1>4
    <2> QED BY <2>1, <2>2 DEF Open
<1>6. refund[w].status = "NONE"
    BY <1>2, NoRefundBefore
<1>7. CallOnly(w, c)
    BY <1>1, <1>2, <1>4, <1>5, <1>6 DEF CallOnly, TypeOK
<1> QED BY <1>7, CallOnlyInv

LEMMA ReceivingInv ==
    ASSUME ReturnsInv, NEW w \in Worker, LockItems(w) \/ Check(w) \/ LoseClaim(w)
    PROVE  ReturnsInv'
PROOF
<1> USE DEF At
<1>1. /\ TypeOK /\ call[w] \in CallRow /\ call \in [Worker -> CallRow]
    BY DEF ReturnsInv, TypeOK, CallRow
<1>2. CASE LockItems(w)
    <2> DEFINE c == [call[w] EXCEPT !.pc = "check"]
    <2>1. /\ call' = [call EXCEPT ![w] = c] /\ call[w].pc = "lock items"
          /\ UNCHANGED <<doc, refund, rowLock, restored>>
          /\ \A i \in ItemsOf(call[w].on) : itemLock[i] = None
          /\ itemLock' = [i \in Item |-> IF i \in ItemsOf(call[w].on) THEN w ELSE itemLock[i]]
        BY <1>2 DEF LockItems, Goto
    <2>2. /\ c \in CallRow /\ c.pc = "check" /\ c.on = call[w].on /\ c.version = call[w].version
        BY <1>1 DEF CallRow, Pc, InTransaction
    <2> HIDE DEF c
    <2>3. /\ itemLock' \in [Item -> Worker \cup {None}]
          /\ \A i \in Item, v \in Worker : v # w /\ itemLock[i] = v => itemLock'[i] = v
          /\ \A i \in ItemsOf(call[w].on) : itemLock'[i] = w
        <3>1. None \notin Worker
            BY SalesReturnAssumption
        <3> QED BY <1>1, <2>1, <3>1 DEF TypeOK, ItemsOf
    <2>4. /\ c.on \in Return
          /\ doc[c.on].status \notin Open
          /\ c.version <= doc[c.on].version
          /\ doc[c.on].version = c.version => doc[c.on].status = "APPROVED"
        BY <2>1, <2>2 DEF ReturnsInv, SeenApproved, ReceiveSteps
    <2>5. CallOnly(w, c)
        BY <1>1, <2>1, <2>2, <2>3, <2>4, NoRefundBefore DEF CallOnly, TypeOK
    <2> QED BY <2>5, CallOnlyInv
<1>3. CASE At(w, "check") /\ AllEligible(call[w].on) /\ Goto(w, "post")
             /\ UNCHANGED <<doc, refund, itemLock, rowLock, restored>>
    <2> DEFINE c == [call[w] EXCEPT !.pc = "post"]
    <2>1. call' = [call EXCEPT ![w] = c] /\ call[w].pc = "check"
        BY <1>3 DEF Goto
    <2>2. /\ c \in CallRow /\ c.pc = "post" /\ c.on = call[w].on /\ c.version = call[w].version
        BY <1>1 DEF CallRow, Pc, InTransaction
    <2> HIDE DEF c
    <2>3. /\ c.on \in Return
          /\ doc[c.on].status \notin Open
          /\ c.version <= doc[c.on].version
          /\ doc[c.on].version = c.version => doc[c.on].status = "APPROVED"
        BY <2>1, <2>2 DEF ReturnsInv, SeenApproved, ReceiveSteps
    <2>4. \A i \in ItemsOf(c.on) : itemLock'[i] = w
        BY <1>3, <2>1, <2>2 DEF ReturnsInv, ItemsLocked
    <2>5. CallOnly(w, c)
        BY <1>1, <1>3, <2>1, <2>2, <2>3, <2>4, NoRefundBefore DEF CallOnly, TypeOK
    <2> QED BY <2>5, CallOnlyInv
<1>4. CASE call[w].pc # "done" /\ RollBack(w)
    BY <1>4, RollBackInv
<1> QED BY <1>2, <1>3, <1>4 DEF Check, LoseClaim

LEMMA StartRefundInv ==
    ASSUME ReturnsInv, NEW w \in Worker, NEW x \in Return, NEW amount \in Amount,
           StartRefund(w, x, amount)
    PROVE  ReturnsInv'
PROOF
<1> USE DEF At
<1>1. TypeOK /\ FinitelyMany /\ call[w] \in CallRow /\ call \in [Worker -> CallRow]
      /\ amount \in Nat
    BY SalesReturnAssumption DEF ReturnsInv, TypeOK, CallRow
<1> DEFINE c == [call[w] EXCEPT !.pc = "lock return", !.on = x, !.amount = amount]
<1>2. /\ call' = [call EXCEPT ![w] = c] /\ call[w].pc = "idle"
      /\ UNCHANGED <<doc, refund, itemLock, rowLock, restored>>
    BY DEF StartRefund
<1>3. c \in CallRow /\ c.pc = "lock return" /\ c.on = x
    BY <1>1 DEF CallRow, Pc, InTransaction
<1> HIDE DEF c
<1>4. CallOnly(w, c)
    BY <1>1, <1>2, <1>3, NoRefundBefore DEF CallOnly, TypeOK, ReceiveSteps
<1> QED BY <1>4, CallOnlyInv

LEMMA RefundingInv ==
    ASSUME ReturnsInv, NEW w \in Worker, LockReturn(w) \/ ReadRefunds(w) \/ ExceedTotal(w)
    PROVE  ReturnsInv'
PROOF
<1> USE DEF At
<1>1. TypeOK /\ FinitelyMany /\ call[w] \in CallRow /\ call \in [Worker -> CallRow]
    BY SalesReturnAssumption DEF ReturnsInv, TypeOK, CallRow
<1>2. CASE LockReturn(w)
    <2> DEFINE c == [call[w] EXCEPT !.pc = "read"]
    <2>1. /\ call' = [call EXCEPT ![w] = c] /\ call[w].pc = "lock return"
          /\ UNCHANGED <<doc, refund, itemLock, restored>>
          /\ rowLock[call[w].on] = None /\ rowLock' = [rowLock EXCEPT ![call[w].on] = w]
        BY <1>2 DEF LockReturn, Goto
    <2>2. c \in CallRow /\ c.pc = "read" /\ c.on = call[w].on
        BY <1>1 DEF CallRow, Pc, InTransaction
    <2> HIDE DEF c
    <2>3. c.on \in Return
        BY <2>1, <2>2 DEF ReturnsInv, RowLocked, RefundSteps
    <2>4. /\ rowLock' \in [Return -> Worker \cup {None}] /\ rowLock'[c.on] = w
          /\ \A y \in Return, v \in Worker : v # w /\ rowLock[y] = v => rowLock'[y] = v
        <3>1. None \notin Worker
            BY SalesReturnAssumption
        <3> QED BY <1>1, <2>1, <2>2, <2>3, <3>1 DEF TypeOK
    <2>5. CallOnly(w, c)
        BY <1>1, <2>1, <2>2, <2>3, <2>4, NoRefundBefore DEF CallOnly, TypeOK, ReceiveSteps
    <2> QED BY <2>5, CallOnlyInv
<1>3. CASE /\ At(w, "read") /\ call[w].on \in Received
           /\ call' = [call EXCEPT ![w] = [@ EXCEPT !.pc = "insert",
                                             !.active = Refunded(call[w].on, Active)]]
           /\ UNCHANGED <<doc, refund, itemLock, rowLock, restored>>
    <2> DEFINE n == Refunded(call[w].on, Active)
               c == [call[w] EXCEPT !.pc = "insert", !.active = n]
    <2>1. call' = [call EXCEPT ![w] = c] /\ call[w].pc = "read"
        BY <1>3
    <2>2. n \in Nat
        BY <1>1, RefundedIsNat
    <2> HIDE DEF n
    <2>3. c \in CallRow /\ c.pc = "insert" /\ c.on = call[w].on /\ c.active = n
        BY <1>1, <2>2 DEF CallRow, Pc, InTransaction
    <2> HIDE DEF c
    <2>4. Refunded(c.on, Active) <= c.active /\ c.on \in Received
        <3>1. Refunded(c.on, Active) = n
            BY <2>3 DEF n
        <3> QED BY <1>3, <2>2, <2>3, <3>1
    <2>5. rowLock[c.on] = w /\ c.on \in Return
        BY <2>1, <2>3 DEF ReturnsInv, RowLocked, RefundSteps
    <2>6. CallOnly(w, c)
        BY <1>1, <1>3, <2>1, <2>2, <2>3, <2>4, <2>5, NoRefundBefore
        DEF CallOnly, TypeOK, ReceiveSteps
    <2> QED BY <2>6, CallOnlyInv
<1>4. CASE call[w].pc # "done" /\ RollBack(w)
    BY <1>4, RollBackInv
<1> QED BY <1>2, <1>3, <1>4 DEF ReadRefunds, ExceedTotal

---------------------------------------------------------------------------
(* Steps that receive a return, insert a refund or move one *)

(* A call lets go of its locks and is done: the others keep theirs.         *)
LEMMA DoneLocks ==
    ASSUME TypeOK, NEW w \in Worker, Goto(w, "done"), Released(w)
    PROVE  /\ call'[w].pc = "done" /\ \A v \in Worker : v # w => call'[v] = call[v]
           /\ call' \in [Worker -> CallRow]
           /\ itemLock' \in [Item -> Worker \cup {None}]
           /\ rowLock' \in [Return -> Worker \cup {None}]
           /\ \A i \in Item, v \in Worker : v # w /\ itemLock[i] = v => itemLock'[i] = v
           /\ \A x \in Return, v \in Worker : v # w /\ rowLock[x] = v => rowLock'[x] = v
PROOF
<1> DEFINE c == [call[w] EXCEPT !.pc = "done"]
<1>1. call[w] \in CallRow /\ call \in [Worker -> CallRow] /\ call' = [call EXCEPT ![w] = c]
    BY DEF TypeOK, CallRow, Goto
<1>2. c \in CallRow /\ c.pc = "done"
    BY <1>1 DEF CallRow, Pc
<1> HIDE DEF c
<1> QED BY <1>1, <1>2, ReleasedLocks

LEMMA PostInv ==
    ASSUME ReturnsInv, NEW w \in Worker, Post(w)
    PROVE  ReturnsInv'
PROOF
<1> DEFINE x == call[w].on
           r == Moved(x, "RECEIVED")
<1>1. /\ TypeOK /\ FinitelyMany
      /\ call[w].pc = "post" /\ doc[x].version = call[w].version
      /\ doc' = [doc EXCEPT ![x] = r] /\ UNCHANGED refund
      /\ restored' = [i \in Item |->
                        IF i \in Stocked THEN restored[i] + Requested(doc[x].lines, i)
                        ELSE restored[i]]
      /\ Goto(w, "done") /\ Released(w)
    BY DEF ReturnsInv, Post, At, Claimed
<1>2. x \in Return /\ doc[x].status = "APPROVED"
    BY <1>1 DEF ReturnsInv, SeenApproved, ReceiveSteps
<1> HIDE DEF x
<1>3. /\ doc[x] \in DocRow /\ doc \in [Return -> DocRow] /\ MaxVersion \in Nat
      /\ doc[x].version <= MaxVersion + 2
    BY <1>1, <1>2, SalesReturnAssumption DEF ReturnsInv, VersionsBounded, TypeOK, DocRow
<1>4. /\ r.status = "RECEIVED" /\ r.version = doc[x].version + 1 /\ r.lines = doc[x].lines
      /\ r.version <= MaxVersion + 3 /\ r \in DocRow
    BY <1>3 DEF Moved, DocRow, ReturnStatus
<1> HIDE DEF r
<1>5. doc'[x] = r /\ \A y \in Return : y # x => doc'[y] = doc[y]
    BY <1>1, <1>2, <1>3
<1>6. \A y \in Return : doc'[y].lines = doc[y].lines
    BY <1>4, <1>5
<1>7. x \notin Received /\ Received' = Received \cup {x} /\ HasRefund' = HasRefund
    BY <1>1, <1>2, <1>4, <1>5 DEF Received, HasRefund
<1>8. \A i : Returned(i)' = Returned(i) + Requested(doc[x].lines, i)
    BY <1>1, <1>2, <1>6, <1>7, ReturnedGrows
<1>9. \A y : Refunded(y, Active)' = Refunded(y, Active)
    BY <1>1 DEF Refunded, RefundsOf
<1>10. /\ call'[w].pc = "done" /\ \A v \in Worker : v # w => call'[v] = call[v]
       /\ call' \in [Worker -> CallRow]
       /\ itemLock' \in [Item -> Worker \cup {None}]
       /\ rowLock' \in [Return -> Worker \cup {None}]
       /\ \A i \in Item, v \in Worker : v # w /\ itemLock[i] = v => itemLock'[i] = v
       /\ \A y \in Return, v \in Worker : v # w /\ rowLock[y] = v => rowLock'[y] = v
    BY <1>1, DoneLocks
<1>11. \A i : Requested(doc[x].lines, i) \in Nat /\ Returned(i) \in Nat
    BY <1>1, <1>3, RequestedIsNat, ReturnedIsNat DEF DocRow
<1>12. \A i \in Item : i \notin ItemsOf(x) => Requested(doc[x].lines, i) = 0
    BY <1>11 DEF ItemsOf
<1>13. \A y \in Return : ItemsOf(y)' = ItemsOf(y)
    BY <1>6 DEF ItemsOf
<1>14. TypeOK'
    <2>1. doc' \in [Return -> DocRow]
        BY <1>1, <1>3, <1>4
    <2>2. restored' \in [Item -> Nat]
        <3>1. \A i \in Item : restored[i] \in Nat
            BY <1>1 DEF TypeOK
        <3> QED BY <1>1, <1>11, <3>1
    <2> QED BY <1>1, <1>10, <2>1, <2>2 DEF TypeOK, DocRow, CallRow
<1>15. VersionsBounded'
    BY <1>4, <1>5 DEF ReturnsInv, VersionsBounded
<1>16. FinitelyMany'
    BY <1>7, FS_AddElement DEF ReturnsInv, FinitelyMany
<1>17. SeenApproved'
    <2> SUFFICES ASSUME NEW v \in Worker, v # w, call[v].pc \in ReceiveSteps
                 PROVE  /\ call[v].on \in Return /\ doc'[call[v].on].status \notin Open
                        /\ call[v].version <= doc'[call[v].on].version
                        /\ doc'[call[v].on].version = call[v].version
                            => doc'[call[v].on].status = "APPROVED"
        BY <1>10 DEF SeenApproved, ReceiveSteps
    <2>1. /\ call[v].on \in Return /\ doc[call[v].on].status \notin Open
          /\ call[v].version <= doc[call[v].on].version
          /\ doc[call[v].on].version = call[v].version => doc[call[v].on].status = "APPROVED"
        BY DEF ReturnsInv, SeenApproved
    <2>2. CASE call[v].on # x
        BY <1>5, <2>1, <2>2
    <2>3. CASE call[v].on = x
        <3>1. call[v].version \in Nat /\ doc[x].version \in Nat
            BY <1>1, <1>3 DEF TypeOK, DocRow
        <3> QED BY <1>4, <1>5, <2>1, <2>3, <3>1 DEF Open
    <2> QED BY <2>2, <2>3
<1>18. ItemsLocked'
    <2> SUFFICES ASSUME NEW v \in Worker, v # w, call[v].pc \in {"check", "post"},
                        NEW i \in ItemsOf(call[v].on)
                 PROVE  itemLock'[i] = v
        <3>1. \A v \in Worker : v # w /\ call[v].pc \in {"check", "post"} =>
                call[v].on \in Return
            BY DEF ReturnsInv, SeenApproved, ReceiveSteps
        <3> QED BY <1>10, <1>13, <3>1 DEF ItemsLocked
    <2> QED BY <1>10 DEF ReturnsInv, ItemsLocked, ItemsOf
<1>19. CheckedHolds'
    <2> SUFFICES ASSUME NEW v \in Worker, v # w, call[v].pc = "post",
                        NEW i \in ItemsOf(call[v].on)
                 PROVE  Requested(doc'[call[v].on].lines, i) <= Sold[i] - Returned(i)'
        <3>1. \A v \in Worker : v # w /\ call[v].pc = "post" => call[v].on \in Return
            BY DEF ReturnsInv, SeenApproved, ReceiveSteps
        <3> QED BY <1>10, <1>13, <3>1 DEF CheckedHolds, AllEligible, Eligible
    <2>1. call[v].on \in Return
        BY DEF ReturnsInv, SeenApproved, ReceiveSteps
    <2>2. itemLock[i] = v /\ i \in Item
        BY DEF ReturnsInv, ItemsLocked, ItemsOf
    <2>3. \A j \in ItemsOf(x) : itemLock[j] = w
        BY <1>1 DEF ReturnsInv, ItemsLocked, x
    <2>4. Returned(i)' = Returned(i)
        BY <1>8, <1>11, <1>12, <2>2, <2>3
    <2>5. Requested(doc[call[v].on].lines, i) <= Sold[i] - Returned(i)
        BY DEF ReturnsInv, CheckedHolds, AllEligible, Eligible
    <2> QED BY <1>6, <2>1, <2>4, <2>5
<1>20. RowLocked'
    <2> SUFFICES ASSUME NEW v \in Worker, v # w
                 PROVE  /\ call[v].pc \in RefundSteps => call[v].on \in Return
                        /\ call[v].pc \in {"read", "insert"} => rowLock'[call[v].on] = v
        BY <1>10 DEF RowLocked, RefundSteps
    <2> QED BY <1>10 DEF ReturnsInv, RowLocked, RefundSteps
<1>21. ReadHolds'
    <2> SUFFICES ASSUME NEW v \in Worker, v # w, call[v].pc = "insert",
                        NEW y, y = call[v].on
                 PROVE  y \in Received' /\ Refunded(y, Active)' <= call[v].active
        BY <1>10 DEF ReadHolds
    <2> QED BY <1>7, <1>9 DEF ReturnsInv, ReadHolds
<1>22. RefundsOfReceived'
    <2>1. \A v \in HasRefund : v \in Worker /\ call[v].pc = "done" /\ refund[v].of \in Received
        BY DEF ReturnsInv, RefundsOfReceived, HasRefund
    <2>2. \A v \in HasRefund : call'[v].pc = "done" /\ refund'[v].of \in Received'
        BY <1>1, <1>7, <1>10, <2>1
    <2> QED BY <1>7, <2>2 DEF RefundsOfReceived
<1>23. ReturnedWithinSold'
    <2> SUFFICES ASSUME NEW i \in Item PROVE Returned(i)' <= Sold[i]
        BY DEF ReturnedWithinSold
    <2>1. Sold[i] \in Nat /\ Returned(i) <= Sold[i]
        BY SalesReturnAssumption DEF ReturnsInv, ReturnedWithinSold
    <2>2. CASE i \in ItemsOf(x)
        <3>1. Requested(doc[x].lines, i) <= Sold[i] - Returned(i)
            BY <1>1, <2>2 DEF ReturnsInv, CheckedHolds, AllEligible, Eligible, x
        <3> QED BY <1>8, <1>11, <2>1, <3>1
    <2>3. CASE i \notin ItemsOf(x)
        BY <1>8, <1>11, <1>12, <2>1, <2>3
    <2> QED BY <2>2, <2>3
<1>24. RestoredOnce'
    <2>1. \A i \in Item : restored[i] = IF i \in Stocked THEN Returned(i) ELSE 0
        BY DEF ReturnsInv, RestoredOnce
    <2>2. \A i \in Item : restored'[i] = IF i \in Stocked THEN Returned(i)' ELSE 0
        BY <1>1, <1>8, <2>1
    <2> QED BY <2>2 DEF RestoredOnce
<1>25. RefundsWithinReturn'
    <2> SUFFICES ASSUME NEW y \in Return
                 PROVE  Refunded(y, Active) <= (IF y \in Received' THEN Total(doc'[y].lines)
                                                ELSE 0)
        BY <1>9 DEF RefundsWithinReturn
    <2>1. Refunded(y, Active) <= (IF y \in Received THEN Total(doc[y].lines) ELSE 0)
        BY DEF ReturnsInv, RefundsWithinReturn
    <2>2. CASE y # x
        BY <1>6, <1>7, <2>1, <2>2
    <2>3. CASE y = x
        <3>1. Refunded(x, Active) \in Nat /\ Total(doc[x].lines) \in Nat
            BY <1>1, <1>3, RefundedIsNat, TotalIsNat DEF DocRow
        <3> QED BY <1>6, <1>7, <2>1, <2>3, <3>1
    <2> QED BY <2>2, <2>3
<1> QED BY <1>14, <1>15, <1>16, <1>17, <1>18, <1>19, <1>20, <1>21, <1>22, <1>23, <1>24, <1>25
    DEF ReturnsInv

LEMMA InsertRefundInv ==
    ASSUME ReturnsInv, NEW w \in Worker, InsertRefund(w)
    PROVE  ReturnsInv'
PROOF
<1> DEFINE x == call[w].on
           n == call[w].amount
<1>1. /\ TypeOK /\ FinitelyMany /\ call[w].pc = "insert"
      /\ refund' = [refund EXCEPT ![w] = [status |-> "PENDING", of |-> x, amount |-> n]]
      /\ UNCHANGED <<doc, restored>> /\ Goto(w, "done") /\ Released(w)
      /\ call[w].active + n <= Total(doc[x].lines)
    BY DEF ReturnsInv, InsertRefund, At, WithinTotal
<1>2. /\ x \in Return /\ x \in Received /\ Refunded(x, Active) <= call[w].active
      /\ rowLock[x] = w /\ w \notin HasRefund
    BY <1>1, NoRefundBefore DEF ReturnsInv, ReadHolds, RowLocked, RefundSteps, HasRefund
<1>3. n \in Nat /\ call[w].active \in Nat
    BY <1>1 DEF TypeOK
<1> HIDE DEF x, n
<1>4. \A y \in Return :
        Refunded(y, Active)' = Refunded(y, Active) + (IF y = x THEN n ELSE 0)
    <2> TAKE y \in Return
    <2> DEFINE row == [status |-> "PENDING", of |-> x, amount |-> n]
    <2>1. row \in RefundRow /\ row.status = "PENDING" /\ row.of = x /\ row.amount = n
        BY <1>2, <1>3 DEF RefundRow, RefundStatus
    <2>2. refund' = [refund EXCEPT ![w] = row]
        BY <1>1
    <2> HIDE DEF row
    <2> QED BY <1>1, <1>2, <2>1, <2>2, RefundedGrows
<1>5. \A y \in Return : Refunded(y, Active) \in Nat
    BY <1>1, RefundedIsNat
<1>6. /\ call'[w].pc = "done" /\ \A v \in Worker : v # w => call'[v] = call[v]
      /\ call' \in [Worker -> CallRow]
      /\ itemLock' \in [Item -> Worker \cup {None}]
      /\ rowLock' \in [Return -> Worker \cup {None}]
      /\ \A i \in Item, v \in Worker : v # w /\ itemLock[i] = v => itemLock'[i] = v
      /\ \A y \in Return, v \in Worker : v # w /\ rowLock[y] = v => rowLock'[y] = v
    BY <1>1, DoneLocks
<1>7. TypeOK'
    <2>1. refund' \in [Worker -> RefundRow]
        BY <1>1, <1>2, <1>3 DEF TypeOK, RefundRow, RefundStatus
    <2> QED BY <1>1, <1>6, <2>1 DEF TypeOK, CallRow, RefundRow
<1>8. /\ refund'[w] = [status |-> "PENDING", of |-> x, amount |-> n]
      /\ \A v \in Worker : v # w => refund'[v] = refund[v]
    BY <1>1 DEF TypeOK
<1>9. Received' = Received /\ HasRefund' = HasRefund \cup {w}
    BY <1>1, <1>8 DEF Received, HasRefund
<1>10. VersionsBounded' /\ FinitelyMany'
    BY <1>1, <1>9, FS_AddElement DEF ReturnsInv, VersionsBounded, FinitelyMany
<1>11. \A i : Returned(i)' = Returned(i)
    BY <1>1, <1>9 DEF Returned
<1>12. SeenApproved'
    BY <1>1, <1>6 DEF ReturnsInv, SeenApproved, ReceiveSteps
<1>13. \A y : ItemsOf(y)' = ItemsOf(y)
    BY <1>1 DEF ItemsOf
<1>14. ItemsLocked'
    BY <1>6, <1>13 DEF ReturnsInv, ItemsLocked, ItemsOf
<1>15. CheckedHolds'
    BY <1>1, <1>6, <1>11, <1>13 DEF ReturnsInv, CheckedHolds, AllEligible, Eligible
<1>16. RowLocked'
    <2> SUFFICES ASSUME NEW v \in Worker, v # w
                 PROVE  /\ call[v].pc \in RefundSteps => call[v].on \in Return
                        /\ call[v].pc \in {"read", "insert"} => rowLock'[call[v].on] = v
        BY <1>6 DEF RowLocked, RefundSteps
    <2> QED BY <1>6 DEF ReturnsInv, RowLocked, RefundSteps
<1>17. ReadHolds'
    <2> SUFFICES ASSUME NEW v \in Worker, v # w, call[v].pc = "insert",
                        NEW y, y = call[v].on
                 PROVE  y \in Received /\ Refunded(y, Active)' <= call[v].active
        BY <1>6, <1>9 DEF ReadHolds
    <2>1. /\ y \in Received /\ Refunded(y, Active) <= call[v].active
          /\ y \in Return /\ rowLock[y] = v
        BY DEF ReturnsInv, ReadHolds, RowLocked, RefundSteps
    <2>2. y # x
        BY <1>2, <2>1
    <2>3. Refunded(y, Active)' = Refunded(y, Active) + 0
        BY <1>4, <2>1, <2>2
    <2> QED BY <1>5, <2>1, <2>3
<1>18. RefundsOfReceived'
    BY <1>2, <1>6, <1>8, <1>9 DEF ReturnsInv, RefundsOfReceived, HasRefund
<1>19. ReturnedWithinSold' /\ RestoredOnce'
    BY <1>1, <1>11 DEF ReturnsInv, ReturnedWithinSold, RestoredOnce
<1>20. RefundsWithinReturn'
    <2> SUFFICES ASSUME NEW y \in Return
                 PROVE  Refunded(y, Active)' <= (IF y \in Received THEN Total(doc[y].lines)
                                                 ELSE 0)
        BY <1>1, <1>9 DEF RefundsWithinReturn
    <2>1. Refunded(y, Active) <= (IF y \in Received THEN Total(doc[y].lines) ELSE 0)
        BY DEF ReturnsInv, RefundsWithinReturn
    <2>2. CASE y # x
        BY <1>4, <1>5, <2>1, <2>2
    <2>3. CASE y = x
        <3>1. Total(doc[x].lines) \in Nat
            BY <1>1, <1>2, TotalIsNat DEF TypeOK
        <3> QED BY <1>1, <1>2, <1>3, <1>4, <1>5, <2>3, <3>1
    <2> QED BY <2>2, <2>3
<1> QED BY <1>7, <1>10, <1>12, <1>14, <1>15, <1>16, <1>17, <1>18, <1>19, <1>20
    DEF ReturnsInv

LEMMA RefundTransitionInv ==
    ASSUME ReturnsInv, NEW w \in Worker,
           \/ ProcessRefund(w) \/ CompleteRefund(w) \/ FailRefund(w) \/ CancelRefund(w)
    PROVE  ReturnsInv'
PROOF
<1>1. PICK status \in RefundStatus \ {"NONE"} :
        /\ refund' = [refund EXCEPT ![w].status = status] /\ refund[w].status \in Active
        /\ UNCHANGED <<doc, call, itemLock, rowLock, restored>>
    BY DEF ProcessRefund, CompleteRefund, FailRefund, CancelRefund, RefundTransition,
           RefundStatus, Active
<1>2. TypeOK /\ FinitelyMany
    BY DEF ReturnsInv
<1>3. \A y : Refunded(y, Active)' \in Nat /\ Refunded(y, Active)' <= Refunded(y, Active)
    BY <1>1, <1>2, RefundedShrinks
<1>4. /\ refund'[w].status = status
      /\ \A v \in Worker : refund'[v].of = refund[v].of
      /\ \A v \in Worker : v # w => refund'[v] = refund[v]
      /\ refund' \in [Worker -> RefundRow]
    BY ZenonT(40), <1>1, <1>2 DEF TypeOK, RefundRow
<1>5. Received' = Received /\ HasRefund' = HasRefund
    BY <1>1, <1>4 DEF Received, HasRefund, Active
<1>6. \A i : Returned(i)' = Returned(i)
    BY <1>1, <1>5 DEF Returned
<1>7. TypeOK'
    BY <1>1, <1>2, <1>4 DEF TypeOK, RefundRow
<1>8. VersionsBounded' /\ FinitelyMany' /\ SeenApproved' /\ RowLocked' /\ ItemsLocked'
    BY <1>1, <1>5
    DEF ReturnsInv, VersionsBounded, FinitelyMany, SeenApproved, RowLocked, ItemsLocked, ItemsOf
<1>9. CheckedHolds'
    BY <1>1, <1>6 DEF ReturnsInv, CheckedHolds, AllEligible, Eligible, ItemsOf
<1>10. ReadHolds'
    <2> SUFFICES ASSUME NEW v \in Worker, call[v].pc = "insert", NEW y, y = call[v].on
                 PROVE  y \in Received /\ Refunded(y, Active)' <= call[v].active
        BY <1>1, <1>5 DEF ReadHolds
    <2>1. y \in Received /\ Refunded(y, Active) <= call[v].active
          /\ call[v].active \in Nat
        BY <1>2 DEF ReturnsInv, ReadHolds, TypeOK
    <2>2. Refunded(y, Active) \in Nat
        BY <1>2, RefundedIsNat
    <2> QED BY <1>3, <2>1, <2>2
<1>11. RefundsOfReceived' /\ ReturnedWithinSold' /\ RestoredOnce'
    BY <1>1, <1>4, <1>5, <1>6
    DEF ReturnsInv, RefundsOfReceived, HasRefund, ReturnedWithinSold, RestoredOnce
<1>12. RefundsWithinReturn'
    <2> SUFFICES ASSUME NEW y \in Return
                 PROVE  Refunded(y, Active)' <= (IF y \in Received THEN Total(doc[y].lines)
                                                 ELSE 0)
        BY <1>1, <1>5 DEF RefundsWithinReturn
    <2>1. Refunded(y, Active) <= (IF y \in Received THEN Total(doc[y].lines) ELSE 0)
        BY DEF ReturnsInv, RefundsWithinReturn
    <2>2. (IF y \in Received THEN Total(doc[y].lines) ELSE 0) \in Nat
        BY <1>2, TotalIsNat DEF TypeOK
    <2>3. Refunded(y, Active) \in Nat
        BY <1>2, RefundedIsNat
    <2> QED BY <1>3, <2>1, <2>2, <2>3
<1> QED BY <1>7, <1>8, <1>9, <1>10, <1>11, <1>12 DEF ReturnsInv

---------------------------------------------------------------------------
(* The returns by themselves *)

LEMMA NextReturnsInv ==
    ASSUME ReturnsInv, [Next]_vars
    PROVE  ReturnsInv'
PROOF
<1>1. ASSUME NEW x \in Return, NEW lines \in Lines, CreateReturn(x, lines) \/ UpdateDraft(x, lines)
      PROVE  ReturnsInv'
    BY <1>1, DraftInv
<1>2. ASSUME NEW x \in Return, Submit(x) \/ Approve(x) \/ Complete(x) \/ Cancel(x)
      PROVE  ReturnsInv'
    BY <1>2, DocumentInv
<1>3. ASSUME NEW w \in Worker, NEW x \in Return, StartReceive(w, x)
      PROVE  ReturnsInv'
    BY <1>3, StartReceiveInv
<1>4. ASSUME NEW w \in Worker, NEW x \in Return, NEW amount \in Amount, StartRefund(w, x, amount)
      PROVE  ReturnsInv'
    BY <1>4, StartRefundInv
<1>5. ASSUME NEW w \in Worker, Receiving(w)
      PROVE  ReturnsInv'
    BY <1>5, ReceivingInv, PostInv DEF Receiving
<1>6. ASSUME NEW w \in Worker, Refunding(w)
      PROVE  ReturnsInv'
    BY <1>6, RefundingInv, InsertRefundInv DEF Refunding
<1>7. ASSUME NEW w \in Worker, StatementFails(w)
      PROVE  ReturnsInv'
    BY <1>7, RollBackInv DEF StatementFails, InTransaction
<1>8. ASSUME NEW w \in Worker,
             ProcessRefund(w) \/ CompleteRefund(w) \/ FailRefund(w) \/ CancelRefund(w)
      PROVE  ReturnsInv'
    BY <1>8, RefundTransitionInv
<1>9. CASE UNCHANGED vars
    <2> USE <1>9 DEF vars
    <2>1. /\ Received' = Received /\ HasRefund' = HasRefund
          /\ \A i : Returned(i)' = Returned(i)
          /\ \A x : Refunded(x, Active)' = Refunded(x, Active) /\ ItemsOf(x)' = ItemsOf(x)
        BY DEF Received, HasRefund, Returned, Refunded, RefundsOf, ItemsOf
    <2>2. TypeOK' /\ VersionsBounded' /\ FinitelyMany' /\ SeenApproved'
        BY <2>1 DEF ReturnsInv, TypeOK, VersionsBounded, FinitelyMany, SeenApproved
    <2>3. ItemsLocked' /\ CheckedHolds' /\ RowLocked' /\ ReadHolds' /\ RefundsOfReceived'
        BY <2>1 DEF ReturnsInv, ItemsLocked, CheckedHolds, AllEligible, Eligible, RowLocked,
            ReadHolds, RefundsOfReceived
    <2>4. ReturnedWithinSold' /\ RestoredOnce' /\ RefundsWithinReturn'
        BY <2>1 DEF ReturnsInv, ReturnedWithinSold, RestoredOnce, RefundsWithinReturn
    <2> QED BY <2>2, <2>3, <2>4 DEF ReturnsInv
<1> QED BY <1>1, <1>2, <1>3, <1>4, <1>5, <1>6, <1>7, <1>8, <1>9 DEF Next

LEMMA SpecReturnsInv == Spec => []ReturnsInv
BY InitReturnsInv, NextReturnsInv, PTL DEF Spec

---------------------------------------------------------------------------
(* The refunds of a return, under their idempotency keys.  For the at-most- *)
(* once command the sums that bound a refund play no part.                  *)

(* What the argument needs to know of the transaction: where each call is   *)
(* and whether it has inserted its refund.                                  *)
Shaped ==
    /\ DOMAIN call = Worker /\ \A w \in Worker : "pc" \in DOMAIN call[w]
    /\ DOMAIN refund = Worker /\ \A w \in Worker : "status" \in DOMAIN refund[w]

Typed ==
    /\ Shaped
    /\ operation \in [Key -> Row \cup {NoRow}]
    /\ request \in [Worker -> Request]
    /\ \A w \in Worker : ~AtStep(w, "idle") =>
            request[w].key \in Key /\ request[w].fingerprint \in Fingerprint

Made == {w \in Worker : refund[w].status # "NONE"}
Holding == {"create refund", "fail"}

(* The transaction of a refund runs within its call. *)
InStep == \A w \in Worker : AtStep(w, "create refund") <=> call[w].pc \in InTransaction

(* Until it has committed or reported a failure a call holds its row: in    *)
(* progress, fresh, and nobody else's.                                      *)
HeldFresh ==
    \A w \in Worker : request[w].pc \in Holding =>
        /\ operation[request[w].key].status = "PROCESSING"
        /\ operation[request[w].key].stuck = FALSE
HeldAlone ==
    \A v, w \in Worker :
        request[v].pc \in Holding /\ request[w].pc \in Holding
            /\ request[v].key = request[w].key => v = w

(* A refund and the COMPLETED row of its key name each other, and who was   *)
(* answered remembers it.                                                   *)
MadeCompletes ==
    \A w \in Made :
        /\ request[w].pc \in {"audit", "answered", "dead"}
        /\ operation[request[w].key].status = "COMPLETED"
        /\ operation[request[w].key].refund = w
CompletedMade ==
    \A k \in Key : operation[k].status = "COMPLETED" =>
        operation[k].refund \in Made /\ request[operation[k].refund].key = k
Informed == {"replay", "replayed", "audit", "answered"}
InformedOfMade ==
    \A w \in Worker : request[w].pc \in Informed =>
        request[w].result \in Made /\ request[request[w].result].key = request[w].key

Inv == Typed /\ InStep /\ HeldFresh /\ HeldAlone /\ MadeCompletes /\ CompletedMade
        /\ InformedOfMade

LEMMA InitInv == CommandInit => Inv
PROOF
<1> SUFFICES ASSUME CommandInit PROVE Inv
    OBVIOUS
<1>1. /\ operation = [k \in Key |-> NoRow] /\ request = [w \in Worker |-> NoRequest]
      /\ refund = [w \in Worker |-> [status |-> "NONE", of |-> None, amount |-> 0]]
      /\ call = [w \in Worker |-> [pc |-> "idle", on |-> None, version |-> 0,
                                   amount |-> 0, active |-> 0]]
    BY DEF CommandInit, CommandIdle
<1>2. Shaped
    BY <1>1 DEF Shaped
<1>3. NoRequest \in Request /\ NoRequest.pc = "idle"
    BY DEF NoRequest, Request
<1>4. Typed
    BY <1>1, <1>2, <1>3 DEF Typed, AtStep
<1>5. Made = {} /\ \A k \in Key : operation[k].status = "NONE"
    BY <1>1 DEF Made, NoRow
<1>6. InStep
    BY <1>1, <1>3 DEF InStep, AtStep, InTransaction
<1>7. HeldFresh /\ HeldAlone
    BY <1>1, <1>3 DEF HeldFresh, HeldAlone, Holding
<1>8. MadeCompletes /\ CompletedMade /\ InformedOfMade
    BY <1>1, <1>3, <1>5 DEF MadeCompletes, CompletedMade, InformedOfMade, Informed
<1> QED BY <1>4, <1>6, <1>7, <1>8 DEF Inv

---------------------------------------------------------------------------
(* What the actions write *)

Steps == {"idle", "find", "create", "reclaim", "replay", "answered", "replayed",
          "refused", "failed", "dead"} \cup Owning

(* Call w goes to step, under the same key; the others stay where they are. *)
Moves(w, step) ==
    /\ request' \in [Worker -> Request]
    /\ request'[w].pc = step
    /\ request'[w].key = request[w].key
    /\ request'[w].fingerprint = request[w].fingerprint
    /\ \A v \in Worker : v # w => request'[v] = request[v]

LEMMA GoToMoves ==
    ASSUME Typed, NEW w \in Worker, NEW step \in Steps, GoTo(w, step)
    PROVE  Moves(w, step) /\ request'[w].result = request[w].result
BY DEF Typed, GoTo, Moves, Request, Steps

LEMMA ResultMoves ==
    ASSUME Typed, NEW w \in Worker, NEW step \in Steps, NEW v \in Worker \cup {None},
           request' = [request EXCEPT ![w] = [@ EXCEPT !.pc = step, !.result = v]]
    PROVE  Moves(w, step) /\ request'[w].result = v
PROOF
<1>1. request[w] \in Request
    BY DEF Typed
<1>2. [request[w] EXCEPT !.pc = step, !.result = v] \in Request
    BY <1>1 DEF Request, Steps
<1> QED BY <1>1, <1>2 DEF Typed, Moves, Request

(* The transaction of w moves, and nobody else's.                           *)
CallMoves(w) ==
    /\ Shaped'
    /\ \A v \in Worker : v # w => call'[v].pc = call[v].pc

LEMMA PcStep ==
    ASSUME Typed, NEW w \in Worker, NEW step, Goto(w, step), UNCHANGED refund
    PROVE  CallMoves(w) /\ call'[w].pc = step
BY DEF Typed, Shaped, Goto, CallMoves

LEMMA RollBackStep ==
    ASSUME Typed, NEW w \in Worker, RollBack(w)
    PROVE  CallMoves(w) /\ call'[w].pc = "failed" /\ refund' = refund
BY PcStep DEF RollBack

LEMMA StartStep ==
    ASSUME Typed, NEW w \in Worker, NEW x, NEW amount, StartRefund(w, x, amount)
    PROVE  /\ CallMoves(w) /\ call'[w].pc = "lock return" /\ refund' = refund
           /\ call[w].pc = "idle"
PROOF
<1>1. call' = [call EXCEPT ![w] = [[[call[w] EXCEPT !.pc = "lock return"]
                                        EXCEPT !.on = x] EXCEPT !.amount = amount]]
    BY DEF StartRefund
<1> DEFINE c == [[[call[w] EXCEPT !.pc = "lock return"] EXCEPT !.on = x]
                                                        EXCEPT !.amount = amount]
<1>2. DOMAIN c = DOMAIN call[w]
    OBVIOUS
<1>3. c.pc = "lock return"
    BY DEF Typed, Shaped
<1> HIDE DEF c
<1> QED BY <1>1, <1>2, <1>3 DEF Typed, Shaped, StartRefund, At, CallMoves

LEMMA InsertStep ==
    ASSUME Typed, NEW w \in Worker, InsertRefund(w)
    PROVE  /\ CallMoves(w) /\ call[w].pc = "insert" /\ call'[w].pc = "done"
           /\ Made' = Made \cup {w}
PROOF
<1>1. /\ refund' = [refund EXCEPT ![w] = [status |-> "PENDING", of |-> call[w].on,
                                          amount |-> call[w].amount]]
      /\ call' = [call EXCEPT ![w].pc = "done"] /\ call[w].pc = "insert"
    BY DEF InsertRefund, Goto, At
<1>2. DOMAIN refund' = Worker /\ \A v \in Worker : "status" \in DOMAIN refund'[v]
    BY <1>1 DEF Typed, Shaped
<1>3. refund'[w].status = "PENDING" /\ \A v \in Worker : v # w => refund'[v] = refund[v]
    BY <1>1 DEF Typed, Shaped
<1>4. Made' = Made \cup {w}
    BY <1>3 DEF Made
<1> QED BY <1>1, <1>2, <1>4 DEF Typed, Shaped, CallMoves

(* A step of the transaction keeps it open or rolls it back.                *)
LEMMA ProceedStep ==
    ASSUME Typed, NEW w \in Worker, Proceed(w)
    PROVE  /\ CallMoves(w) /\ refund' = refund /\ operation' = operation
           /\ call[w].pc \in InTransaction
           /\ \/ call'[w].pc \in {"read", "insert"} /\ request' = request
              \/ call'[w].pc = "failed" /\ GoTo(w, "fail")
PROOF
<1>1. CASE LockReturn(w)
    <2>1. Goto(w, "read") /\ refund' = refund /\ call[w].pc = "lock return"
        BY <1>1 DEF LockReturn, At
    <2> QED BY <2>1, PcStep DEF Proceed, InTransaction
<1>2. CASE ReadRefunds(w) /\ ~RollBack(w)
    <2> DEFINE c == [[call[w] EXCEPT !.pc = "insert"]
                        EXCEPT !.active = Refunded(call[w].on, Active)]
    <2>1. call' = [call EXCEPT ![w] = c] /\ refund' = refund /\ call[w].pc = "read"
        BY <1>2 DEF ReadRefunds, At
    <2>2. DOMAIN c = DOMAIN call[w]
        OBVIOUS
    <2>3. c.pc = "insert"
        BY DEF Typed, Shaped
    <2> HIDE DEF c
    <2>4. CallMoves(w) /\ call'[w].pc = "insert"
        BY <2>1, <2>2, <2>3 DEF Typed, Shaped, CallMoves
    <2> QED BY <2>1, <2>4 DEF Proceed, InTransaction
<1>3. CASE RollBack(w)
    <2>1. call[w].pc \in InTransaction
        BY DEF Proceed, LockReturn, ReadRefunds, ExceedTotal, StatementFails, At, InTransaction
    <2> QED BY <1>3, <2>1, RollBackStep DEF Proceed
<1> QED BY <1>1, <1>2, <1>3 DEF Proceed, ExceedTotal, StatementFails

LEMMA FindStep ==
    ASSUME Typed, NEW w \in Worker, Find(w)
    PROVE  /\ UNCHANGED <<vars, operation>> /\ AtStep(w, "find")
           /\ \E step \in {"create", "refused", "reclaim", "replay"} :
                /\ Moves(w, step)
                /\ step = "reclaim" => operation[request[w].key].status # "NONE"
                /\ step = "replay" =>
                    /\ operation[request[w].key].status = "COMPLETED"
                    /\ request'[w].result = operation[request[w].key].refund
PROOF
<1> DEFINE row == operation[request[w].key]
<1>1. UNCHANGED <<vars, operation>> /\ AtStep(w, "find") /\ request[w].key \in Key
    BY DEF Find, Typed, AtStep
<1>2. ASSUME NEW step \in {"create", "refused", "reclaim"}, GoTo(w, step)
      PROVE  Moves(w, step)
    BY <1>2, GoToMoves DEF Steps
<1>3. ASSUME row.status = "COMPLETED",
             request' = [request EXCEPT ![w] = [@ EXCEPT !.pc = "replay", !.result = row.refund]]
      PROVE  Moves(w, "replay") /\ request'[w].result = row.refund
    <2>1. row.refund \in Worker \cup {None}
        BY <1>1, <1>3 DEF Typed, Row, NoRow
    <2> QED BY <1>3, <2>1, ResultMoves DEF Steps
<1> QED BY <1>1, <1>2, <1>3 DEF Find

(* Create and TryReclaim: refused, or the row is the caller's.              *)
LEMMA ClaimStep ==
    ASSUME Typed, NEW w \in Worker, Create(w) \/ TryReclaim(w)
    PROVE  \/ Moves(w, "refused") /\ UNCHANGED <<vars, operation>>
           \/ /\ Moves(w, "create refund")
              /\ CallMoves(w) /\ call'[w].pc = "lock return" /\ refund' = refund
              /\ operation' \in [Key -> Row \cup {NoRow}]
              /\ \/ operation[request[w].key].status \in {"NONE", "FAILED"}
                 \/ operation[request[w].key].stuck = TRUE
              /\ operation[request[w].key].status # "COMPLETED"
              /\ operation'[request[w].key].status = "PROCESSING"
              /\ operation'[request[w].key].stuck = FALSE
              /\ \A j \in Key : j # request[w].key => operation'[j] = operation[j]
PROOF
<1> DEFINE k == request[w].key
<1>1. /\ Typed /\ (AtStep(w, "create") \/ AtStep(w, "reclaim"))
      /\ k \in Key /\ request[w].fingerprint \in Fingerprint
    BY DEF Create, TryReclaim, Typed, AtStep
<1>2. CASE Refuse(w)
    BY <1>1, <1>2, GoToMoves DEF Refuse, Steps
<1>3. ASSUME NEW row \in Row, Own(w, row), row.status = "PROCESSING", row.stuck = FALSE,
             \/ operation[k].status \in {"NONE", "FAILED"}
             \/ operation[k].status = "PROCESSING" /\ operation[k].stuck = TRUE
      PROVE  /\ Moves(w, "create refund")
             /\ CallMoves(w) /\ call'[w].pc = "lock return" /\ refund' = refund
             /\ operation' \in [Key -> Row \cup {NoRow}]
             /\ operation'[k].status = "PROCESSING" /\ operation'[k].stuck = FALSE
             /\ \A j \in Key : j # k => operation'[j] = operation[j]
    <2>1. Moves(w, "create refund")
        BY <1>1, <1>3, GoToMoves DEF Own, Steps, Owning
    <2>2. CallMoves(w) /\ call'[w].pc = "lock return" /\ refund' = refund
        BY <1>1, <1>3, StartStep DEF Own
    <2>3. /\ operation' \in [Key -> Row \cup {NoRow}] /\ operation'[k] = row
          /\ \A j \in Key : j # k => operation'[j] = operation[j]
        BY <1>1, <1>3 DEF Own, Typed
    <2> QED BY <1>3, <2>1, <2>2, <2>3
<1>4. CASE Create(w) /\ ~Refuse(w)
    <2> DEFINE row == [status |-> "PROCESSING", fingerprint |-> request[w].fingerprint,
                       stuck |-> FALSE, refund |-> None]
    <2>1. row \in Row /\ row.status = "PROCESSING" /\ row.stuck = FALSE
        BY <1>1 DEF Row
    <2>2. Own(w, row) /\ operation[k].status = "NONE"
        BY <1>4 DEF Create
    <2> HIDE DEF row
    <2> QED BY <1>3, <2>1, <2>2
<1>5. CASE TryReclaim(w) /\ ~Refuse(w)
    <2> DEFINE row == [operation[k] EXCEPT !.status = "PROCESSING", !.stuck = FALSE,
                                           !.refund = None]
    <2>1. Own(w, row) /\ Reclaimable(operation[k], request[w].fingerprint)
        BY <1>5 DEF TryReclaim
    <2>2. \/ operation[k].status = "FAILED"
          \/ operation[k].status = "PROCESSING" /\ operation[k].stuck
        BY <2>1 DEF Reclaimable
    <2>3. operation[k] \in Row
        BY <1>1, <2>2 DEF Typed, NoRow
    <2>4. operation[k].stuck \in BOOLEAN
        BY <2>3 DEF Row
    <2>5. row \in Row /\ row.status = "PROCESSING" /\ row.stuck = FALSE
        BY <2>3 DEF Row
    <2> HIDE DEF row
    <2> QED BY <1>3, <2>1, <2>2, <2>4, <2>5
<1> QED BY <1>2, <1>4, <1>5

LEMMA HeldRow ==
    ASSUME Inv, NEW w \in Worker, AtStep(w, "create refund") \/ AtStep(w, "fail")
    PROVE  /\ request[w].pc \in Holding
           /\ operation[request[w].key].status = "PROCESSING"
PROOF
<1>1. request[w].pc \in Holding
    BY DEF AtStep, Holding
<1> QED BY <1>1 DEF Inv, HeldFresh

LEMMA CommitWrites ==
    ASSUME Typed, InStep, NEW w \in Worker, Commit(w),
           AtStep(w, "create refund") => operation[request[w].key].status # "NONE"
    PROVE  /\ Moves(w, "audit") /\ request'[w].result = w
           /\ CallMoves(w) /\ call'[w].pc = "done" /\ AtStep(w, "create refund")
           /\ Made' = Made \cup {w}
           /\ operation' \in [Key -> Row \cup {NoRow}]
           /\ operation'[request[w].key].status = "COMPLETED"
           /\ operation'[request[w].key].refund = w
           /\ \A j \in Key : j # request[w].key => operation'[j] = operation[j]
PROOF
<1> DEFINE k == request[w].key
<1>1. CallMoves(w) /\ call[w].pc = "insert" /\ call'[w].pc = "done" /\ Made' = Made \cup {w}
    BY InsertStep DEF Commit
<1>2. AtStep(w, "create refund") /\ k \in Key
    BY <1>1 DEF InStep, InTransaction, Typed, AtStep
<1>3. operation[k] \in Row
    <2>1. operation[k].status # "NONE"
        BY <1>2
    <2>2. operation[k] \in Row \cup {NoRow}
        BY <1>2 DEF Typed
    <2>3. NoRow.status = "NONE"
        BY DEF NoRow
    <2> QED BY <2>1, <2>2, <2>3
<1>4. Moves(w, "audit") /\ request'[w].result = w
    BY ResultMoves DEF Commit, Steps, Owning
<1> DEFINE row == [[operation[k] EXCEPT !.status = "COMPLETED"] EXCEPT !.refund = w]
<1>5. row \in Row /\ row.status = "COMPLETED" /\ row.refund = w
    BY <1>3 DEF Row
<1>6. operation' = [operation EXCEPT ![k] = row]
    BY DEF Commit
<1> HIDE DEF row
<1>7. /\ operation' \in [Key -> Row \cup {NoRow}] /\ operation'[k] = row
      /\ \A j \in Key : j # k => operation'[j] = operation[j]
    BY <1>2, <1>5, <1>6 DEF Typed
<1> QED BY <1>1, <1>2, <1>4, <1>5, <1>7

---------------------------------------------------------------------------
(* Every step preserves the invariant *)

LEMMA HeldOf ==
    ASSUME Inv, NEW w \in Worker, request[w].pc \in Holding
    PROVE  /\ request[w].key \in Key
           /\ operation[request[w].key].status = "PROCESSING"
           /\ operation[request[w].key].stuck = FALSE
PROOF
<1>1. request[w].key \in Key
    BY DEF Inv, Typed, AtStep, Holding
<1> QED BY <1>1 DEF Inv, HeldFresh

LEMMA MadeOf ==
    ASSUME Inv, NEW w \in Made
    PROVE  /\ w \in Worker /\ request[w].key \in Key
           /\ request[w].pc \in {"audit", "answered", "dead"}
           /\ operation[request[w].key].status = "COMPLETED"
           /\ operation[request[w].key].refund = w
PROOF
<1>1. w \in Worker
    BY DEF Made
<1>2. /\ request[w].pc \in {"audit", "answered", "dead"}
      /\ operation[request[w].key].status = "COMPLETED"
      /\ operation[request[w].key].refund = w
    BY DEF Inv, MadeCompletes
<1> QED BY <1>1, <1>2 DEF Inv, Typed, AtStep

LEMMA InformedOf ==
    ASSUME Inv, NEW w \in Worker, request[w].pc \in Informed
    PROVE  /\ request[w].result \in Made
           /\ request[request[w].result].key = request[w].key
           /\ request[w].key \in Key
PROOF
<1>1. request[w].key \in Key
    BY DEF Inv, Typed, AtStep, Informed
<1> QED BY <1>1 DEF Inv, InformedOfMade

(* A step of w that writes no row and creates no refund. *)
LEMMA QuietStep ==
    ASSUME Inv, NEW w \in Worker, operation' = operation, Made' = Made, CallMoves(w),
           request' \in [Worker -> Request],
           \A v \in Worker : v # w => request'[v] = request[v],
           request'[w].key \in Key, request'[w].fingerprint \in Fingerprint,
           AtStep(w, "create refund")' <=> call'[w].pc \in InTransaction,
           request'[w].pc \in Holding => /\ request[w].pc \in Holding
                                        /\ request'[w].key = request[w].key,
           w \in Made => /\ request'[w].pc \in {"audit", "answered", "dead"}
                         /\ request'[w].key = request[w].key,
           request'[w].pc \in Informed =>
                request'[w].result \in Made /\ request'[request'[w].result].key = request'[w].key
    PROVE  Inv'
PROOF
<1>1. Typed'
    BY DEF Inv, Typed, CallMoves, AtStep
<1>2. InStep'
    BY DEF Inv, InStep, AtStep, CallMoves
<1>3. \A v \in Worker : request'[v].pc \in Holding =>
            request[v].pc \in Holding /\ request'[v].key = request[v].key
    OBVIOUS
<1>4. HeldFresh' /\ HeldAlone'
    <2>1. HeldFresh'
        BY <1>3 DEF Inv, HeldFresh
    <2>2. HeldAlone'
        BY <1>3 DEF Inv, HeldAlone
    <2> QED BY <2>1, <2>2
<1>5. \A v \in Made : v \in Worker /\ request'[v].key = request[v].key
    BY DEF Made
<1>6. MadeCompletes'
    BY ZenonT(40), <1>5 DEF Inv, MadeCompletes
<1>7. CompletedMade'
    BY <1>5 DEF Inv, CompletedMade
<1>8. InformedOfMade'
    <2> SUFFICES ASSUME NEW v \in Worker, v # w, request'[v].pc \in Informed
                 PROVE  /\ request'[v].result \in Made
                        /\ request'[request'[v].result].key = request'[v].key
        BY DEF InformedOfMade
    <2>1. request'[v] = request[v]
        OBVIOUS
    <2>2. request[v].result \in Made /\ request[request[v].result].key = request[v].key
        BY <2>1, InformedOf
    <2>3. request'[request[v].result].key = request[request[v].result].key
        BY <1>5, <2>2
    <2> QED BY <2>1, <2>2, <2>3
<1> QED BY <1>1, <1>2, <1>4, <1>6, <1>7, <1>8 DEF Inv

(* A step of w that takes or gives up the row of its key, which no other    *)
(* call holds and under which nothing was refunded.                         *)
LEMMA RowStep ==
    ASSUME Inv, NEW w \in Worker, NEW step \in {"create refund", "failed"},
           Moves(w, step), CallMoves(w), Made' = Made, ~AtStep(w, "idle"),
           call'[w].pc \in InTransaction <=> step = "create refund",
           operation' \in [Key -> Row \cup {NoRow}],
           \A j \in Key : j # request[w].key => operation'[j] = operation[j],
           operation[request[w].key].status # "COMPLETED",
           operation'[request[w].key].status # "COMPLETED",
           step = "create refund" => /\ operation'[request[w].key].status = "PROCESSING"
                                     /\ operation'[request[w].key].stuck = FALSE,
           \A v \in Worker : v # w /\ request[v].pc \in Holding => request[v].key # request[w].key
    PROVE  Inv'
PROOF
<1> DEFINE k == request[w].key
<1>1. k \in Key /\ Typed
    BY DEF Inv, Typed
<1>2. Typed'
    BY <1>1 DEF Typed, CallMoves, Moves, AtStep
<1>3. InStep'
    BY ZenonT(40) DEF Inv, InStep, AtStep, CallMoves, Moves
<1>4. /\ request'[w].key = k /\ request'[w].pc = step
      /\ \A v \in Worker : v # w => request'[v] = request[v]
      /\ step \in Holding => step = "create refund"
    BY DEF Moves, Holding
<1> HIDE DEF k
<1>5. ASSUME NEW v \in Worker, v # w, request[v].pc \in Holding
      PROVE  /\ request[v].key # k
             /\ operation'[request[v].key].status = "PROCESSING"
             /\ operation'[request[v].key].stuck = FALSE
    <2>1. /\ request[v].key \in Key /\ operation[request[v].key].status = "PROCESSING"
          /\ operation[request[v].key].stuck = FALSE
        BY <1>5, HeldOf
    <2>2. request[v].key # k
        BY <1>5 DEF k
    <2> QED BY <2>1, <2>2 DEF k
<1>6. HeldFresh'
    <2> SUFFICES ASSUME NEW v \in Worker, request'[v].pc \in Holding
                 PROVE  /\ operation'[request'[v].key].status = "PROCESSING"
                        /\ operation'[request'[v].key].stuck = FALSE
        BY DEF HeldFresh
    <2>1. CASE v = w
        BY <1>4, <2>1 DEF k
    <2>2. CASE v # w
        <3>1. request'[v] = request[v]
            BY <1>4, <2>2
        <3> QED BY <1>5, <2>2, <3>1
    <2> QED BY <2>1, <2>2
<1>7. HeldAlone'
    <2> SUFFICES ASSUME NEW u \in Worker, NEW v \in Worker, request'[u].pc \in Holding,
                        request'[v].pc \in Holding, request'[u].key = request'[v].key
                 PROVE  u = v
        BY DEF HeldAlone
    <2>1. CASE u # w /\ v # w
        BY <1>4, <2>1 DEF Inv, HeldAlone
    <2>2. CASE u = w \/ v = w
        BY <1>4, <1>5, <2>2
    <2> QED BY <2>1, <2>2
<1>8. ASSUME NEW v \in Made
      PROVE  /\ v \in Worker /\ request'[v] = request[v] /\ request[v].key # k
             /\ operation'[request[v].key] = operation[request[v].key]
    <2>1. v \in Worker /\ request[v].key \in Key /\ operation[request[v].key].status = "COMPLETED"
        BY MadeOf
    <2>2. request[v].key # k
        BY <2>1 DEF k
    <2>3. v # w
        BY <2>2 DEF k
    <2> QED BY <1>4, <2>1, <2>2, <2>3 DEF k
<1>9. MadeCompletes'
    <2> SUFFICES ASSUME NEW v \in Made
                 PROVE  /\ request'[v].pc \in {"audit", "answered", "dead"}
                        /\ operation'[request'[v].key].status = "COMPLETED"
                        /\ operation'[request'[v].key].refund = v
        BY DEF MadeCompletes
    <2>1. /\ request[v].pc \in {"audit", "answered", "dead"}
          /\ operation[request[v].key].status = "COMPLETED"
          /\ operation[request[v].key].refund = v
        BY MadeOf
    <2>2. request'[v] = request[v] /\ operation'[request[v].key] = operation[request[v].key]
        BY <1>8
    <2> QED BY <2>1, <2>2
<1>10. CompletedMade'
    <2> SUFFICES ASSUME NEW j \in Key, operation'[j].status = "COMPLETED"
                 PROVE  operation'[j].refund \in Made /\ request'[operation'[j].refund].key = j
        BY DEF CompletedMade
    <2>1. operation'[j] = operation[j]
        BY DEF k
    <2>2. operation[j].refund \in Made /\ request[operation[j].refund].key = j
        BY <2>1 DEF Inv, CompletedMade
    <2>3. request'[operation[j].refund] = request[operation[j].refund]
        BY <1>8, <2>2
    <2> QED BY <2>1, <2>2, <2>3
<1>11. InformedOfMade'
    <2> SUFFICES ASSUME NEW v \in Worker, request'[v].pc \in Informed
                 PROVE  /\ request'[v].result \in Made
                        /\ request'[request'[v].result].key = request'[v].key
        BY DEF InformedOfMade
    <2>1. v # w
        BY <1>4 DEF Informed
    <2>2. request'[v] = request[v]
        BY <1>4, <2>1
    <2>3. request[v].result \in Made /\ request[request[v].result].key = request[v].key
        BY <2>2, InformedOf
    <2>4. request'[request[v].result] = request[request[v].result]
        BY <1>8, <2>3
    <2> QED BY <2>2, <2>3, <2>4
<1> QED BY <1>2, <1>3, <1>6, <1>7, <1>9, <1>10, <1>11 DEF Inv

LEMMA CommitInv ==
    ASSUME Inv, NEW w \in Worker, Commit(w)
    PROVE  Inv' /\ w \notin Made /\ \A v \in Made : request[v].key # request[w].key
PROOF
<1> DEFINE k == request[w].key
<1>1. /\ Moves(w, "audit") /\ request'[w].result = w
      /\ CallMoves(w) /\ call'[w].pc = "done" /\ AtStep(w, "create refund")
      /\ Made' = Made \cup {w}
      /\ operation' \in [Key -> Row \cup {NoRow}]
      /\ operation'[k].status = "COMPLETED" /\ operation'[k].refund = w
      /\ \A j \in Key : j # k => operation'[j] = operation[j]
    BY CommitWrites, HeldRow DEF Inv
<1>2. k \in Key /\ Typed /\ operation[k].status = "PROCESSING" /\ request[w].pc \in Holding
    <2>1. request[w].pc \in Holding
        BY <1>1, HeldRow
    <2> QED BY <2>1, HeldOf DEF Inv
<1>3. Typed'
    BY <1>1, <1>2 DEF Typed, CallMoves, Moves, AtStep
<1>4. InStep'
    BY <1>1 DEF Inv, InStep, AtStep, CallMoves, Moves, InTransaction
<1>5. /\ request'[w].key = k /\ request'[w].pc = "audit"
      /\ \A v \in Worker : v # w => request'[v] = request[v]
    BY <1>1 DEF Moves
<1> HIDE DEF k
<1>6. ASSUME NEW v \in Worker, request'[v].pc \in Holding
      PROVE  /\ v # w /\ request'[v] = request[v] /\ request[v].pc \in Holding
    <2>1. v # w
        BY <1>5, <1>6 DEF Holding
    <2> QED BY <1>5, <1>6, <2>1
<1>7. HeldFresh'
    <2> SUFFICES ASSUME NEW v \in Worker, request'[v].pc \in Holding
                 PROVE  /\ operation'[request'[v].key].status = "PROCESSING"
                        /\ operation'[request'[v].key].stuck = FALSE
        BY DEF HeldFresh
    <2>1. v # w /\ request'[v] = request[v] /\ request[v].pc \in Holding
        BY <1>6
    <2>2. request[v].key # k
        BY <1>2, <2>1 DEF Inv, HeldAlone, k
    <2>3. /\ request[v].key \in Key /\ operation[request[v].key].status = "PROCESSING"
          /\ operation[request[v].key].stuck = FALSE
        BY <2>1, HeldOf
    <2>4. operation'[request[v].key] = operation[request[v].key]
        BY <1>1, <2>2, <2>3
    <2> QED BY <2>1, <2>3, <2>4
<1>8. HeldAlone'
    BY <1>6 DEF Inv, HeldAlone
<1>9. ASSUME NEW v \in Made
      PROVE  /\ v \in Worker /\ v # w /\ request'[v] = request[v] /\ request[v].key # k
             /\ operation'[request[v].key] = operation[request[v].key]
    <2>1. v \in Worker /\ request[v].key \in Key /\ operation[request[v].key].status = "COMPLETED"
        BY MadeOf
    <2>2. request[v].key # k
        BY <1>2, <2>1
    <2>3. v # w
        BY <2>2 DEF k
    <2> QED BY <1>1, <1>5, <2>1, <2>2, <2>3
<1>10. MadeCompletes'
    <2> SUFFICES ASSUME NEW v \in Made'
                 PROVE  /\ request'[v].pc \in {"audit", "answered", "dead"}
                        /\ operation'[request'[v].key].status = "COMPLETED"
                        /\ operation'[request'[v].key].refund = v
        BY DEF MadeCompletes
    <2>1. CASE v = w
        BY <1>1, <1>5, <2>1
    <2>2. CASE v \in Made
        <3>1. /\ request[v].pc \in {"audit", "answered", "dead"}
              /\ operation[request[v].key].status = "COMPLETED"
              /\ operation[request[v].key].refund = v
            BY <2>2, MadeOf
        <3>2. request'[v] = request[v] /\ operation'[request[v].key] = operation[request[v].key]
            BY <1>9, <2>2
        <3> QED BY <3>1, <3>2
    <2> QED BY <1>1, <2>1, <2>2
<1>11. CompletedMade'
    <2> SUFFICES ASSUME NEW j \in Key, operation'[j].status = "COMPLETED"
                 PROVE  operation'[j].refund \in Made' /\ request'[operation'[j].refund].key = j
        BY DEF CompletedMade
    <2>1. CASE j = k
        BY <1>1, <1>5, <2>1
    <2>2. CASE j # k
        <3>1. operation'[j] = operation[j]
            BY <1>1, <2>2
        <3>2. operation[j].refund \in Made /\ request[operation[j].refund].key = j
            BY <3>1 DEF Inv, CompletedMade
        <3>3. request'[operation[j].refund] = request[operation[j].refund]
            BY <1>9, <3>2
        <3> QED BY <1>1, <3>1, <3>2, <3>3
    <2> QED BY <2>1, <2>2
<1>12. InformedOfMade'
    <2> SUFFICES ASSUME NEW v \in Worker, request'[v].pc \in Informed
                 PROVE  /\ request'[v].result \in Made'
                        /\ request'[request'[v].result].key = request'[v].key
        BY DEF InformedOfMade
    <2>1. CASE v = w
        BY <1>1, <1>5, <2>1
    <2>2. CASE v # w
        <3>1. request'[v] = request[v]
            BY <1>5, <2>2
        <3>2. request[v].result \in Made /\ request[request[v].result].key = request[v].key
            BY <3>1, InformedOf
        <3>3. request'[request[v].result] = request[request[v].result]
            BY <1>9, <3>2
        <3> QED BY <1>1, <3>1, <3>2, <3>3
    <2> QED BY <2>1, <2>2
<1>13. w \notin Made /\ \A v \in Made : request[v].key # k
    BY <1>9
<1> QED BY <1>3, <1>4, <1>7, <1>8, <1>10, <1>11, <1>12, <1>13 DEF Inv, k

(* No call is slow enough for its row to be reclaimed under it. *)
OnlyCrashes == Faults \subseteq {"crash"}

(* A call that moves on without its row. *)
LEMMA MoveStep ==
    ASSUME Inv, NEW w \in Worker, NEW step \in Steps, Moves(w, step), ~AtStep(w, "idle"),
           operation' = operation, Made' = Made, CallMoves(w),
           step = "create refund" <=> call'[w].pc \in InTransaction,
           step \in Holding => request[w].pc \in Holding,
           w \in Made => step \in {"audit", "answered", "dead"},
           step \in Informed =>
                request'[w].result \in Made /\ request[request'[w].result].key = request[w].key
    PROVE  Inv'
PROOF
<1>1. /\ request' \in [Worker -> Request] /\ request'[w].pc = step
      /\ request'[w].key = request[w].key /\ request'[w].fingerprint = request[w].fingerprint
      /\ \A v \in Worker : v # w => request'[v] = request[v]
    BY DEF Moves
<1>2. request[w].key \in Key /\ request[w].fingerprint \in Fingerprint
    BY DEF Inv, Typed
<1>3. AtStep(w, "create refund")' <=> call'[w].pc \in InTransaction
    BY <1>1 DEF AtStep
<1>4. step \in Informed => request'[request'[w].result].key = request'[w].key
    <2> HAVE step \in Informed
    <2>1. request'[w].result \in Worker
        BY DEF Made
    <2>2. request'[request'[w].result].key = request[request'[w].result].key
        BY <1>1, <2>1
    <2> QED BY <1>1, <2>2
<1> QED BY <1>1, <1>2, <1>3, <1>4, QuietStep

LEMMA IdleTransaction ==
    ASSUME Inv, NEW w \in Worker, UNCHANGED <<call, refund>>
    PROVE  /\ CallMoves(w) /\ Made' = Made
           /\ ~AtStep(w, "create refund") => call'[w].pc \notin InTransaction
BY DEF Inv, Typed, Shaped, CallMoves, Made, InStep

LEMMA ReserveInv ==
    ASSUME Inv, NEW w \in Worker, Find(w) \/ Create(w) \/ TryReclaim(w) \/ Replay(w)
    PROVE  Inv'
PROOF
<1>1. CASE Find(w)
    <2>1. PICK step \in {"create", "refused", "reclaim", "replay"} :
            /\ Moves(w, step)
            /\ step = "replay" =>
                /\ operation[request[w].key].status = "COMPLETED"
                /\ request'[w].result = operation[request[w].key].refund
        BY <1>1, FindStep DEF Inv
    <2>2. UNCHANGED <<vars, operation>> /\ request[w].pc = "find"
        BY <1>1, FindStep DEF AtStep, Inv
    <2>3. CallMoves(w) /\ Made' = Made /\ call'[w].pc \notin InTransaction
        BY <2>2, IdleTransaction DEF vars, AtStep
    <2>4. request[w].key \in Key /\ ~AtStep(w, "idle")
        BY <2>2 DEF Inv, Typed, AtStep
    <2>5. step = "replay" =>
            request'[w].result \in Made /\ request[request'[w].result].key = request[w].key
        BY <2>1, <2>4 DEF Inv, CompletedMade
    <2>6. w \notin Made
        BY <2>2, MadeOf
    <2>7. step \in Steps /\ step \notin Holding /\ (step \in Informed => step = "replay")
        BY DEF Steps, Holding, Informed
    <2> QED BY <2>1, <2>2, <2>3, <2>4, <2>5, <2>6, <2>7, MoveStep
<1>2. CASE Create(w) \/ TryReclaim(w)
    <2> DEFINE k == request[w].key
    <2>1. ~AtStep(w, "idle") /\ request[w].pc \in {"create", "reclaim"} /\ k \in Key
        BY <1>2 DEF Create, TryReclaim, AtStep, Inv, Typed
    <2>2. w \notin Made
        BY <2>1, MadeOf
    <2>3. CASE Moves(w, "refused") /\ UNCHANGED <<vars, operation>>
        <3>1. CallMoves(w) /\ Made' = Made /\ call'[w].pc \notin InTransaction
            BY <2>1, <2>3, IdleTransaction DEF vars, AtStep
        <3>2. "refused" \in Steps /\ "refused" \notin Holding /\ "refused" \notin Informed
            BY DEF Steps, Holding, Informed
        <3> QED BY <2>1, <2>2, <2>3, <3>1, <3>2, MoveStep
    <2>4. CASE /\ Moves(w, "create refund")
               /\ CallMoves(w) /\ call'[w].pc = "lock return" /\ refund' = refund
               /\ operation' \in [Key -> Row \cup {NoRow}]
               /\ \/ operation[k].status \in {"NONE", "FAILED"}
                  \/ operation[k].stuck = TRUE
               /\ operation[k].status # "COMPLETED"
               /\ operation'[k].status = "PROCESSING"
               /\ operation'[k].stuck = FALSE
               /\ \A j \in Key : j # k => operation'[j] = operation[j]
        <3>1. Made' = Made /\ call'[w].pc \in InTransaction
            BY <2>4 DEF Made, InTransaction
        <3>2. ASSUME NEW v \in Worker, request[v].pc \in Holding
              PROVE  request[v].key # k
            <4>1. /\ operation[request[v].key].status = "PROCESSING"
                  /\ operation[request[v].key].stuck = FALSE
                BY <3>2, HeldOf
            <4> QED BY <2>4, <4>1
        <3> QED BY <2>1, <2>4, <3>1, <3>2, RowStep
    <2> QED BY <1>2, <2>3, <2>4, ClaimStep DEF Inv
<1>3. CASE Replay(w)
    <2>1. /\ UNCHANGED <<vars, operation>> /\ request[w].pc = "replay" /\ GoTo(w, "replayed")
          /\ ~AtStep(w, "idle")
        BY <1>3 DEF Replay, AtStep
    <2>2. /\ "replayed" \in Steps \ Holding /\ "replay" \in Informed
        BY DEF Steps, Holding, Informed
    <2>3. Moves(w, "replayed") /\ request'[w].result = request[w].result
        BY <2>1, <2>2, GoToMoves DEF Inv
    <2>4. CallMoves(w) /\ Made' = Made /\ call'[w].pc \notin InTransaction
        BY <2>1, IdleTransaction DEF vars, AtStep
    <2>5. request[w].result \in Made /\ request[request[w].result].key = request[w].key
        BY <2>1, <2>2, InformedOf
    <2>6. w \notin Made
        BY <2>1, MadeOf
    <2> QED BY <2>1, <2>2, <2>3, <2>4, <2>5, <2>6, MoveStep
<1> QED BY <1>1, <1>2, <1>3

LEMMA WorkInv ==
    ASSUME Inv, NEW w \in Worker, Proceed(w) \/ Finish(w) \/ MarkFailed(w) \/ Crash(w)
    PROVE  Inv'
PROOF
<1>1. CASE Proceed(w)
    <2>1. /\ CallMoves(w) /\ refund' = refund /\ operation' = operation
          /\ call[w].pc \in InTransaction
        BY <1>1, ProceedStep DEF Inv
    <2>2. request[w].pc = "create refund" /\ ~AtStep(w, "idle")
        BY <2>1 DEF Inv, InStep, AtStep
    <2>3. Made' = Made /\ w \notin Made /\ request[w].pc \in Holding
        BY <2>1, <2>2, MadeOf DEF Made, Holding
    <2>4. CASE call'[w].pc \in {"read", "insert"} /\ request' = request
        <3>1. Moves(w, "create refund") /\ "create refund" \in Steps \ Informed
            BY <2>2, <2>4 DEF Moves, Inv, Typed, Steps, Owning, Informed
        <3> QED BY <2>1, <2>2, <2>3, <2>4, <3>1, MoveStep DEF InTransaction
    <2>5. CASE call'[w].pc = "failed" /\ GoTo(w, "fail")
        <3>1. "fail" \in Steps \ Informed /\ "failed" \notin InTransaction
            BY DEF Steps, Owning, Informed, InTransaction
        <3>2. Moves(w, "fail")
            BY <2>5, <3>1, GoToMoves DEF Inv
        <3> QED BY <2>1, <2>2, <2>3, <2>5, <3>1, <3>2, MoveStep
    <2> QED BY <1>1, <2>4, <2>5, ProceedStep DEF Inv
<1>2. CASE Finish(w)
    <2>1. /\ UNCHANGED <<vars, operation>> /\ request[w].pc = "audit" /\ GoTo(w, "answered")
          /\ ~AtStep(w, "idle")
        BY <1>2 DEF Finish, AtStep
    <2>2. "answered" \in Steps \ Holding /\ "audit" \in Informed
        BY DEF Steps, Holding, Informed
    <2>3. Moves(w, "answered") /\ request'[w].result = request[w].result
        BY <2>1, <2>2, GoToMoves DEF Inv
    <2>4. CallMoves(w) /\ Made' = Made /\ call'[w].pc \notin InTransaction
        BY <2>1, IdleTransaction DEF vars, AtStep
    <2>5. request[w].result \in Made /\ request[request[w].result].key = request[w].key
        BY <2>1, <2>2, InformedOf
    <2> QED BY <2>1, <2>2, <2>3, <2>4, <2>5, MoveStep
<1>3. CASE MarkFailed(w)
    <2> DEFINE k == request[w].key
    <2>1. /\ UNCHANGED vars /\ request[w].pc = "fail" /\ GoTo(w, "failed") /\ ~AtStep(w, "idle")
          /\ operation' = [operation EXCEPT ![k] = [operation[k] EXCEPT !.status = "FAILED"]]
        BY <1>3 DEF MarkFailed, AtStep
    <2>2. /\ request[w].pc \in Holding /\ k \in Key /\ operation[k].status = "PROCESSING"
        BY <2>1, HeldOf DEF Holding
    <2>3. operation[k] \in Row
        <3>1. operation[k] \in Row \cup {NoRow}
            BY <2>2 DEF Inv, Typed
        <3>2. NoRow.status = "NONE"
            BY DEF NoRow
        <3> QED BY <2>2, <3>1, <3>2
    <2> DEFINE row == [operation[k] EXCEPT !.status = "FAILED"]
    <2>4. row \in Row /\ row.status = "FAILED"
        BY <2>3 DEF Row
    <2> HIDE DEF row
    <2>5. operation' = [operation EXCEPT ![k] = row]
        BY <2>1 DEF row
    <2>6. /\ operation' \in [Key -> Row \cup {NoRow}] /\ operation'[k].status = "FAILED"
          /\ \A j \in Key : j # k => operation'[j] = operation[j]
        BY <2>2, <2>4, <2>5 DEF Inv, Typed
    <2>7. CallMoves(w) /\ Made' = Made /\ call'[w].pc \notin InTransaction
        BY <2>1, IdleTransaction DEF vars, AtStep
    <2>8. Moves(w, "failed")
        BY <2>1, GoToMoves DEF Inv, Steps
    <2>9. \A v \in Worker : v # w /\ request[v].pc \in Holding => request[v].key # k
        BY <2>2 DEF Inv, HeldAlone
    <2> QED BY <2>1, <2>2, <2>6, <2>7, <2>8, <2>9, RowStep
<1>4. CASE Crash(w)
    <2>1. GoTo(w, "dead") /\ operation' = operation /\ ~AtStep(w, "idle")
        BY <1>4 DEF Crash, AtStep, Owning
    <2>2. "dead" \in Steps \ (Holding \cup Informed)
        BY DEF Steps, Holding, Informed
    <2>3. Moves(w, "dead")
        BY <2>1, <2>2, GoToMoves DEF Inv
    <2>4. CallMoves(w) /\ refund' = refund /\ call'[w].pc \notin InTransaction
        <3>1. CASE RollBack(w)
            BY <3>1, RollBackStep DEF Inv, InTransaction
        <3>2. CASE call[w].pc \notin InTransaction /\ UNCHANGED vars
            BY <3>2, IdleTransaction DEF vars
        <3> QED BY <1>4, <3>1, <3>2 DEF Crash
    <2>5. Made' = Made
        BY <2>4 DEF Made
    <2> QED BY <2>1, <2>2, <2>3, <2>4, <2>5, MoveStep
<1> QED BY <1>1, <1>2, <1>3, <1>4

LEMMA MeanwhileStep ==
    ASSUME Inv, Meanwhile
    PROVE  Shaped' /\ call' = call /\ Made' = Made /\ UNCHANGED <<operation, request>>
PROOF
<1>1. call' = call /\ UNCHANGED <<operation, request>>
    BY DEF Meanwhile, Complete, Transition, ProcessRefund, CompleteRefund, FailRefund,
           CancelRefund, RefundTransition
<1>2. CASE refund' = refund
    BY <1>1, <1>2 DEF Inv, Typed, Shaped, Made
<1>3. ASSUME NEW w \in Worker, NEW from \in {"PENDING", "PROCESSING"},
             NEW to \in {"PROCESSING", "COMPLETED", "FAILED", "CANCELLED"},
             RefundTransition(w, from, to)
      PROVE  Shaped' /\ Made' = Made
    <2>1. refund' = [refund EXCEPT ![w] = [refund[w] EXCEPT !.status = to]]
          /\ refund[w].status = from
        BY <1>3 DEF RefundTransition
    <2> DEFINE row == [refund[w] EXCEPT !.status = to]
    <2>2. row.status = to /\ DOMAIN row = DOMAIN refund[w]
        BY DEF Inv, Typed, Shaped
    <2> HIDE DEF row
    <2>3. /\ DOMAIN refund' = Worker /\ refund'[w] = row
          /\ \A v \in Worker : v # w => refund'[v] = refund[v]
        BY <2>1 DEF Inv, Typed, Shaped, row
    <2>4. Made' = Made
        BY <2>1, <2>2, <2>3 DEF Made
    <2>5. Shaped'
        BY <1>1, <2>2, <2>3 DEF Inv, Typed, Shaped
    <2> QED BY <2>4, <2>5
<1> QED BY <1>1, <1>2, <1>3
        DEF Meanwhile, Complete, Transition, ProcessRefund, CompleteRefund, FailRefund,
            CancelRefund

LEMMA ElsewhereInv ==
    ASSUME Inv, Shaped', call' = call, Made' = Made, UNCHANGED <<operation, request>>
    PROVE  Inv'
PROOF
<1>1. Typed' /\ InStep'
    BY DEF Inv, Typed, InStep, AtStep
<1>2. HeldFresh' /\ HeldAlone'
    BY DEF Inv, HeldFresh, HeldAlone
<1>3. MadeCompletes'
    BY DEF Inv, MadeCompletes
<1>4. CompletedMade'
    BY DEF Inv, CompletedMade
<1>5. InformedOfMade'
    BY DEF Inv, InformedOfMade
<1> QED BY <1>1, <1>2, <1>3, <1>4, <1>5 DEF Inv

LEMMA AgeInv ==
    ASSUME OnlyCrashes, Inv, NEW k \in Key, Age(k)
    PROVE  Inv' /\ UNCHANGED <<refund, request>>
PROOF
<1>1. /\ UNCHANGED <<call, refund, request>> /\ Owners(k) = {}
      /\ operation' = [operation EXCEPT ![k] = [operation[k] EXCEPT !.stuck = TRUE]]
      /\ operation[k].status = "PROCESSING"
    BY DEF Age, vars, OnlyCrashes
<1>2. operation[k] \in Row
    <2>1. operation[k] \in Row \cup {NoRow}
        BY DEF Inv, Typed
    <2>2. NoRow.status = "NONE"
        BY DEF NoRow
    <2> QED BY <1>1, <2>1, <2>2
<1> DEFINE row == [operation[k] EXCEPT !.stuck = TRUE]
<1>3. row \in Row /\ row.status = "PROCESSING"
    BY <1>1, <1>2 DEF Row
<1> HIDE DEF row
<1>4. /\ operation' \in [Key -> Row \cup {NoRow}] /\ operation'[k] = row
      /\ \A j \in Key : j # k => operation'[j] = operation[j]
    BY <1>1, <1>3 DEF Inv, Typed, row
<1>5. Typed' /\ InStep' /\ Made' = Made
    BY <1>1, <1>4 DEF Inv, Typed, Shaped, InStep, AtStep, Made
<1>6. ASSUME NEW v \in Worker, request[v].pc \in Holding
      PROVE  operation'[request[v].key] = operation[request[v].key]
    <2>1. request[v].key # k
        BY <1>1, <1>6 DEF Owners, Holding, Owning
    <2> QED BY <1>4, <1>6, <2>1, HeldOf
<1>7. HeldFresh' /\ HeldAlone'
    BY <1>1, <1>6 DEF Inv, HeldFresh, HeldAlone
<1>8. ASSUME NEW v \in Made
      PROVE  operation'[request[v].key] = operation[request[v].key]
    <2>1. request[v].key # k /\ request[v].key \in Key
        BY <1>1, MadeOf
    <2> QED BY <1>4, <2>1
<1>9. MadeCompletes'
    BY <1>1, <1>5, <1>8 DEF Inv, MadeCompletes
<1>10. CompletedMade'
    <2> SUFFICES ASSUME NEW j \in Key, operation'[j].status = "COMPLETED"
                 PROVE  operation'[j].refund \in Made /\ request[operation'[j].refund].key = j
        BY <1>1, <1>5 DEF CompletedMade
    <2>1. operation'[j] = operation[j]
        BY <1>3, <1>4
    <2> QED BY <2>1 DEF Inv, CompletedMade
<1>11. InformedOfMade'
    BY <1>1, <1>5 DEF Inv, InformedOfMade
<1> QED BY <1>1, <1>5, <1>7, <1>9, <1>10, <1>11 DEF Inv

LEMMA ReceiveInv ==
    ASSUME Inv, NEW w \in Worker, NEW k \in Key, NEW x \in Return, NEW amount \in Amount,
           Receive(w, k, x, amount)
    PROVE  /\ Inv' /\ refund' = refund /\ request[w].pc = "idle" /\ request'[w].pc = "find"
           /\ \A v \in Worker : v # w => request'[v] = request[v]
PROOF
<1> DEFINE print == [on |-> x, amount |-> amount]
           r == [request[w] EXCEPT !.pc = "find", !.key = k, !.fingerprint = print]
<1>1. /\ UNCHANGED <<vars, operation>>
      /\ request[w].pc = "idle"
      /\ request' = [request EXCEPT ![w] = r]
    BY DEF Receive, AtStep
<1>2. print \in Fingerprint /\ request[w] \in Request
    BY DEF Fingerprint, Inv, Typed
<1> HIDE DEF print
<1>3. r \in Request /\ r.pc = "find" /\ r.key = k /\ r.fingerprint = print
    BY <1>2 DEF Request
<1> HIDE DEF r
<1>4. /\ request' \in [Worker -> Request] /\ request'[w] = r
      /\ \A v \in Worker : v # w => request'[v] = request[v]
    BY <1>1, <1>3 DEF Inv, Typed
<1>5. CallMoves(w) /\ Made' = Made /\ call'[w].pc \notin InTransaction
    BY <1>1, IdleTransaction DEF vars, AtStep
<1>6. w \notin Made
    BY <1>1, MadeOf
<1>7. ~AtStep(w, "create refund")' /\ r.pc \notin Holding \cup Informed
    BY <1>3, <1>4 DEF AtStep, Holding, Informed
<1>8. Inv'
    BY <1>1, <1>2, <1>3, <1>4, <1>5, <1>6, <1>7, QuietStep
<1> QED BY <1>1, <1>3, <1>4, <1>8 DEF vars

LEMMA NextInv == ASSUME OnlyCrashes PROVE Inv /\ [CommandNext]_commandVars => Inv'
PROOF
<1> SUFFICES ASSUME Inv, [CommandNext]_commandVars PROVE Inv'
    OBVIOUS
<1>1. ASSUME NEW w \in Worker, CallStep(w) PROVE Inv'
    BY <1>1, ReserveInv, CommitInv, WorkInv DEF CallStep
<1>2. CASE Meanwhile
    BY <1>2, MeanwhileStep, ElsewhereInv
<1>3. CASE UNCHANGED commandVars
    BY <1>3, ElsewhereInv DEF commandVars, vars, Inv, Typed, Shaped, Made
<1> QED BY <1>1, <1>2, <1>3, AgeInv, ReceiveInv DEF CommandNext

LEMMA AlwaysInv == ASSUME OnlyCrashes PROVE CommandSpec => []Inv
PROOF
<1>1. Inv /\ [CommandNext]_commandVars => Inv'
    BY NextInv
<1> QED BY <1>1, InitInv, PTL DEF CommandSpec

---------------------------------------------------------------------------
(* The refinement of IdempotentCommand *)

Effects == [k \in Key |-> RefundsUnder(k)]
Answers == {<<request[w].key, request[w].result>> : w \in Answered}

LEMMA NothingSeen ==
    ASSUME Effects' = Effects, Answers' = Answers
    PROVE  UNCHANGED Command!vars
BY DEF Command!vars, Effects, Answers

(* A call moves, nobody is answered by it, and no refund is created.        *)
LEMMA SilentStep ==
    ASSUME Inv, NEW w \in Worker, Made' = Made,
           w \notin Answered, request'[w].pc \notin {"answered", "replayed"},
           \A v \in Worker : v # w => request'[v] = request[v],
           request'[w].key = request[w].key \/ w \notin Made
    PROVE  UNCHANGED Command!vars
PROOF
<1>1. Answered' = Answered /\ \A v \in Answered : request'[v] = request[v]
    BY DEF Answered
<1>2. Answers' = {<<request'[v].key, request'[v].result>> : v \in Answered}
    BY <1>1 DEF Answers
<1>3. Answers' = Answers
    BY <1>1, <1>2 DEF Answers
<1>4. \A v \in Made : request'[v].key = request[v].key
    BY DEF Made
<1>5. \A k \in Key : RefundsUnder(k)' = RefundsUnder(k)
    BY <1>4 DEF RefundsUnder, Made
<1>6. Effects' = Effects
    BY <1>5 DEF Effects
<1> QED BY <1>3, <1>6, NothingSeen

(* The commit is the execution of the command, the only one of its key.     *)
LEMMA CommitExecutes ==
    ASSUME Inv, NEW w \in Worker, Commit(w)
    PROVE  Command!Next
PROOF
<1> DEFINE k == request[w].key
<1>1. /\ Moves(w, "audit") /\ Made' = Made \cup {w} /\ request[w].pc = "create refund"
    BY CommitWrites, HeldRow DEF Inv, AtStep
<1>2. w \notin Made /\ (\A v \in Made : request[v].key # k) /\ k \in Key
    BY <1>1, CommitInv DEF Inv, Typed, AtStep
<1>3. /\ request'[w].key = k /\ request'[w].pc = "audit"
      /\ \A v \in Worker : v # w => request'[v] = request[v]
    BY <1>1 DEF Moves
<1>4. \A j \in Key : RefundsUnder(j) = {v \in Made : request[v].key = j}
    BY DEF RefundsUnder, Made
<1>5. \A j \in Key : RefundsUnder(j)' = {v \in Made' : request'[v].key = j}
    BY DEF RefundsUnder, Made
<1>6. \A v \in Made : request'[v].key = request[v].key
    BY <1>2, <1>3 DEF Made
<1>7. \A j \in Key : RefundsUnder(j)' = IF j = k THEN {w} ELSE RefundsUnder(j)
    <2> TAKE j \in Key
    <2>1. RefundsUnder(j)' = {v \in Made \cup {w} : request'[v].key = j}
        BY <1>1, <1>5
    <2>2. RefundsUnder(j) = {v \in Made : request[v].key = j}
        BY <1>4
    <2>3. CASE j = k
        BY <1>2, <1>3, <1>6, <2>1, <2>3
    <2>4. CASE j # k
        BY <1>3, <1>6, <2>1, <2>2, <2>4
    <2> QED BY <2>3, <2>4
<1>8. Effects' = [Effects EXCEPT ![k] = {w}]
    BY <1>2, <1>7 DEF Effects
<1>9. Effects[k] = {} /\ \A j \in Key : w \notin Effects[j]
    BY <1>2, <1>4 DEF Effects
<1>10. Answered' = Answered /\ \A v \in Answered : request'[v] = request[v]
    BY <1>1, <1>3 DEF Answered
<1>11. Answers' = {<<request'[v].key, request'[v].result>> : v \in Answered}
    BY <1>10 DEF Answers
<1>12. Answers' = Answers
    BY <1>10, <1>11 DEF Answers
<1>13. Command!Execute(k, w)
    BY <1>8, <1>9, <1>12 DEF Command!Execute, Effects, Answers
<1> QED BY <1>2, <1>13 DEF Command!Next

(* Finishing and replaying answer the caller with the refund of its key.    *)
LEMMA AnswerStep ==
    ASSUME Inv, NEW w \in Worker, NEW step \in {"answered", "replayed"},
           request[w].pc \in {"audit", "replay"}, GoTo(w, step), refund' = refund
    PROVE  Command!Next
PROOF
<1> DEFINE k == request[w].key
           e == request[w].result
<1>1. request[w].pc \in Informed
    BY DEF Informed
<1>2. k \in Key /\ e \in Made /\ request[e].key = k
    BY <1>1, InformedOf
<1>3. step \in Steps
    BY DEF Steps
<1>4. Moves(w, step) /\ request'[w].result = e
    BY <1>3, GoToMoves DEF Inv
<1>5. \A v \in Worker :
        /\ request'[v].key = request[v].key /\ request'[v].result = request[v].result
        /\ request'[v].pc = IF v = w THEN step ELSE request[v].pc
    BY <1>4 DEF Moves
<1>6. Answered' = Answered \cup {w}
    BY <1>5 DEF Answered
<1>7. Answers' = {<<request'[v].key, request'[v].result>> : v \in Answered \cup {w}}
    BY <1>6 DEF Answers
<1>8. \A v \in Answered \cup {w} : <<request'[v].key, request'[v].result>>
                                 = <<request[v].key, request[v].result>>
    BY <1>5 DEF Answered
<1>9. Answers' = {<<request[v].key, request[v].result>> : v \in Answered \cup {w}}
    BY <1>7, <1>8
<1>10. Answers' = Answers \cup {<<k, e>>}
    BY <1>9 DEF Answers
<1>11. \A j \in Key : RefundsUnder(j)' = RefundsUnder(j)
    BY <1>5 DEF RefundsUnder
<1>12. Effects' = Effects /\ e \in Effects[k]
    BY <1>2, <1>11 DEF Effects, RefundsUnder, Made
<1> HIDE DEF k, e
<1>13. PICK j \in Key : j = k
    BY <1>2
<1>14. Command!Answer(j)
    <2>1. e \in [i \in Key |-> RefundsUnder(i)][j]
        BY <1>12, <1>13 DEF Effects
    <2>2. /\ Answers' = Answers \cup {<<j, e>>}
          /\ UNCHANGED [i \in Key |-> RefundsUnder(i)]
        BY <1>10, <1>12, <1>13 DEF Effects
    <2> QED BY <2>1, <2>2 DEF Command!Answer, Answers
<1> QED BY <1>13, <1>14 DEF Command!Next

LEMMA StepRefines ==
    ASSUME OnlyCrashes, Inv, [CommandNext]_commandVars
    PROVE  [Command!Next]_(Command!vars)
PROOF
<1>1. ASSUME UNCHANGED request, Made' = Made PROVE UNCHANGED Command!vars
    <2>1. Answers' = Answers
        BY <1>1 DEF Answers, Answered
    <2>2. \A k \in Key : RefundsUnder(k) = {w \in Made : request[w].key = k}
        BY DEF RefundsUnder, Made
    <2>3. \A k \in Key : RefundsUnder(k)' = {w \in Made' : request'[w].key = k}
        BY DEF RefundsUnder, Made
    <2>4. \A k \in Key : RefundsUnder(k)' = RefundsUnder(k)
        BY <1>1, <2>2, <2>3
    <2>5. Effects' = Effects
        BY <2>4 DEF Effects
    <2> QED BY <2>1, <2>5, NothingSeen
<1>2. ASSUME NEW w \in Worker, NEW step \in Steps \ {"answered", "replayed"},
             Moves(w, step), refund' = refund,
             request[w].pc \notin {"answered", "replayed"}
      PROVE  UNCHANGED Command!vars
    <2>1. /\ request'[w].pc = step /\ request'[w].key = request[w].key
          /\ \A v \in Worker : v # w => request'[v] = request[v]
        BY <1>2 DEF Moves
    <2>2. Made' = Made /\ w \notin Answered
        BY <1>2 DEF Made, Answered
    <2> QED BY <1>2, <2>1, <2>2, SilentStep
<1>3. ASSUME NEW w \in Worker, Find(w) PROVE UNCHANGED Command!vars
    <2>1. PICK step \in {"create", "refused", "reclaim", "replay"} : Moves(w, step)
        BY <1>3, FindStep DEF Inv
    <2>2. refund' = refund /\ request[w].pc = "find"
        BY <1>3, FindStep DEF Inv, vars, AtStep
    <2>3. step \in Steps \ {"answered", "replayed"}
        BY DEF Steps
    <2> QED BY <1>2, <2>1, <2>2, <2>3
<1>4. ASSUME NEW w \in Worker, Create(w) \/ TryReclaim(w) PROVE UNCHANGED Command!vars
    <2>1. request[w].pc \in {"create", "reclaim"}
        BY <1>4 DEF Create, TryReclaim, AtStep
    <2>2. /\ Moves(w, "refused") \/ Moves(w, "create refund")
          /\ refund' = refund
        BY <1>4, ClaimStep DEF Inv, vars
    <2>3. {"refused", "create refund"} \subseteq Steps \ {"answered", "replayed"}
        BY DEF Steps, Owning
    <2> QED BY <1>2, <2>1, <2>2, <2>3
<1>5. ASSUME NEW w \in Worker, Replay(w) \/ Finish(w) PROVE Command!Next
    <2>1. /\ request[w].pc \in {"audit", "replay"} /\ refund' = refund
          /\ GoTo(w, "replayed") \/ GoTo(w, "answered")
        BY <1>5 DEF Replay, Finish, AtStep, vars
    <2> QED BY <2>1, AnswerStep
<1>6. ASSUME NEW w \in Worker, Proceed(w) PROVE UNCHANGED Command!vars
    <2>1. /\ refund' = refund /\ call[w].pc \in InTransaction
          /\ request' = request \/ GoTo(w, "fail")
        BY <1>6, ProceedStep DEF Inv
    <2>2. request[w].pc = "create refund"
        BY <2>1 DEF Inv, InStep, AtStep
    <2>3. CASE request' = request
        BY <1>1, <2>1, <2>3 DEF Made
    <2>4. CASE GoTo(w, "fail")
        <3>1. "fail" \in Steps \ {"answered", "replayed"}
            BY DEF Steps, Owning
        <3>2. Moves(w, "fail")
            BY <2>4, <3>1, GoToMoves DEF Inv
        <3> QED BY <1>2, <2>1, <2>2, <3>1, <3>2
    <2> QED BY <2>1, <2>3, <2>4
<1>7. ASSUME NEW w \in Worker, MarkFailed(w) \/ Crash(w) PROVE UNCHANGED Command!vars
    <2>1. /\ GoTo(w, "failed") \/ GoTo(w, "dead")
          /\ refund' = refund /\ request[w].pc \notin {"answered", "replayed"}
        BY <1>7 DEF MarkFailed, Crash, RollBack, vars, AtStep, Owning
    <2>2. {"failed", "dead"} \subseteq Steps \ {"answered", "replayed"}
        BY DEF Steps
    <2>3. Moves(w, "failed") \/ Moves(w, "dead")
        BY <2>1, <2>2, GoToMoves DEF Inv
    <2> QED BY <1>2, <2>1, <2>2, <2>3
<1>8. ASSUME NEW w \in Worker, NEW k \in Key, NEW x \in Return, NEW amount \in Amount,
             Receive(w, k, x, amount)
      PROVE  UNCHANGED Command!vars
    <2>1. /\ refund' = refund /\ request[w].pc = "idle" /\ request'[w].pc = "find"
          /\ \A v \in Worker : v # w => request'[v] = request[v]
        BY <1>8, ReceiveInv
    <2>2. Made' = Made /\ w \notin Answered /\ w \notin Made
        BY <2>1, MadeOf DEF Made, Answered
    <2> QED BY <2>1, <2>2, SilentStep
<1>9. ASSUME NEW k \in Key, Age(k) PROVE UNCHANGED Command!vars
    BY <1>1, <1>9, AgeInv DEF Made
<1>10. CASE Meanwhile
    BY <1>1, <1>10, MeanwhileStep
<1>11. CASE UNCHANGED commandVars
    BY <1>1, <1>11 DEF commandVars, vars, Made
<1>12. ASSUME NEW w \in Worker, CallStep(w) PROVE [Command!Next]_(Command!vars)
    BY <1>3, <1>4, <1>5, <1>6, <1>7, <1>12, CommitExecutes DEF CallStep
<1> QED BY <1>8, <1>9, <1>10, <1>11, <1>12 DEF CommandNext

(* Where calls may die but are never slow, the rows, the transaction of the *)
(* refund and the retries together implement the at-most-once command.      *)
THEOREM ImplementsAtMostOnce ==
    ASSUME OnlyCrashes
    PROVE  CommandSpec => RefundImplementsCommand
PROOF
<1>1. CommandInit => Command!Init
    <2> SUFFICES ASSUME CommandInit PROVE Command!Init
        OBVIOUS
    <2>1. \A w \in Worker : refund[w].status = "NONE" /\ request[w].pc = "idle"
        BY DEF CommandInit, CommandIdle, NoRequest
    <2> QED BY <2>1 DEF Command!Init, RefundsUnder, Answered
<1>2. Inv /\ [CommandNext]_commandVars => [Command!Next]_(Command!vars)
    BY StepRefines
<1> QED BY <1>1, <1>2, AlwaysInv, PTL DEF CommandSpec, RefundImplementsCommand, Command!Spec

---------------------------------------------------------------------------
(* What holds of the returns holds under the command as well, whichever     *)
(* faults there are: it takes no step of them that Next does not take.      *)

(* A call that has claimed the row of its key finds it there ever after.    *)
Claiming == {"reclaim", "create refund", "audit", "fail"}
RowsStay ==
    \A w \in Worker : request[w].pc \in Claiming => operation[request[w].key].status # "NONE"

CommandInv == ReturnsInv /\ Typed /\ InStep /\ RowsStay

LEMMA TypedGivesShape == (TypeOK => Shaped) /\ (TypeOK' => Shaped')
BY DEF TypeOK, Shaped

LEMMA InitCommandInv == CommandInit => CommandInv
PROOF
<1> SUFFICES ASSUME CommandInit PROVE CommandInv
    OBVIOUS
<1>1. PICK x \in Return, lines \in Lines :
        /\ Plausible(lines)
        /\ doc = [y \in Return |->
                    IF y = x THEN [status |-> "RECEIVED", version |-> 4, lines |-> lines]
                    ELSE [status |-> "NONE", version |-> 1, lines |-> <<>>]]
        /\ restored = [i \in Item |-> IF i \in Stocked THEN Requested(lines, i) ELSE 0]
    BY DEF CommandInit
<1>2. /\ refund = [w \in Worker |-> [status |-> "NONE", of |-> None, amount |-> 0]]
      /\ call = [w \in Worker |-> [pc |-> "idle", on |-> None, version |-> 0,
                                   amount |-> 0, active |-> 0]]
      /\ itemLock = [i \in Item |-> None] /\ rowLock = [y \in Return |-> None]
    BY DEF CommandInit
<1>3. \A i : Requested(lines, i) \in Nat
    BY RequestedIsNat
<1>4. MaxVersion \in Nat /\ MaxVersion >= 1
    BY SalesReturnAssumption
<1>5. TypeOK
    <2>1. doc \in [Return -> DocRow]
        BY <1>1, <1>4 DEF DocRow, ReturnStatus
    <2>2. restored \in [Item -> Nat]
        BY <1>1, <1>3
    <2>3. refund \in [Worker -> RefundRow] /\ call \in [Worker -> CallRow]
        BY <1>2 DEF RefundRow, CallRow, RefundStatus, Pc
    <2> QED BY <1>2, <2>1, <2>2, <2>3 DEF TypeOK, DocRow, RefundRow, CallRow
<1>6. Received = {x} /\ HasRefund = {} /\ doc[x].lines = lines
    BY <1>1, <1>2 DEF Received, HasRefund
<1>7. FinitelyMany
    BY <1>6, FS_EmptySet, FS_Singleton DEF FinitelyMany
<1>8. VersionsBounded
    BY <1>1, <1>4 DEF VersionsBounded
<1>9. SeenApproved /\ ItemsLocked /\ CheckedHolds /\ RowLocked /\ ReadHolds
    BY <1>2 DEF SeenApproved, ItemsLocked, CheckedHolds, RowLocked, ReadHolds,
                ReceiveSteps, RefundSteps
<1>10. \A i : Returned(i) = Requested(lines, i)
    <2> TAKE i
    <2> DEFINE f == [y \in Return |-> Requested(doc[y].lines, i)]
    <2>1. f[x] = Requested(lines, i) /\ f[x] \in Int
        BY <1>3, <1>6
    <2>2. Returned(i) = SumFunctionOnSet(f, {x})
        BY <1>6 DEF Returned
    <2> HIDE DEF f
    <2>3. SumFunctionOnSet(f, {x}) = f[x]
        <3>1. {x} = {} \cup {x} /\ \A y \in {} : f[y] \in Int
            OBVIOUS
        <3>2. SumFunctionOnSet(f, {} \cup {x}) = SumFunctionOnSet(f, {}) + f[x]
            BY <2>1, <3>1, FS_EmptySet, SumAdd
        <3>3. SumFunctionOnSet(f, {}) = 0
            BY SumEmpty
        <3> QED BY <2>1, <3>1, <3>2, <3>3
    <2> QED BY <2>1, <2>2, <2>3
<1>11. \A y \in Return : Refunded(y, Active) = 0
    <2> TAKE y \in Return
    <2>1. RefundsOf(y, Active) = {}
        BY <1>6 DEF RefundsOf, HasRefund, Active
    <2> QED BY <2>1, SumEmpty DEF Refunded
<1>12. ReturnedWithinSold
    BY <1>1, <1>10 DEF ReturnedWithinSold, Plausible
<1>13. RestoredOnce
    BY <1>1, <1>10 DEF RestoredOnce
<1>14. RefundsWithinReturn
    <2>1. Total(lines) \in Nat
        BY TotalIsNat
    <2> QED BY <1>6, <1>11, <2>1 DEF RefundsWithinReturn
<1>15. RefundsOfReceived
    BY <1>6 DEF RefundsOfReceived
<1>16. Typed /\ InStep
    BY InitInv DEF Inv
<1>17. RowsStay
    BY DEF CommandInit, CommandIdle, NoRequest, RowsStay, Claiming
<1> QED BY <1>5, <1>7, <1>8, <1>9, <1>12, <1>13, <1>14, <1>15, <1>16, <1>17
    DEF CommandInv, ReturnsInv

LEMMA CommandStepsOfNext ==
    ASSUME Typed, InStep, [CommandNext]_commandVars
    PROVE  [Next]_vars
PROOF
<1>1. ASSUME NEW w \in Worker, Create(w) \/ TryReclaim(w)
      PROVE  [Next]_vars
    <2>1. request[w].fingerprint \in Fingerprint
        BY <1>1 DEF Create, TryReclaim, AtStep, Typed
    <2>2. request[w].fingerprint.on \in Return /\ request[w].fingerprint.amount \in Amount
        BY <2>1 DEF Fingerprint
    <2>3. \/ UNCHANGED vars
          \/ StartRefund(w, request[w].fingerprint.on, request[w].fingerprint.amount)
        BY <1>1 DEF Create, TryReclaim, Own, Refuse
    <2> QED BY <2>2, <2>3 DEF Next
<1>2. ASSUME NEW w \in Worker, Commit(w)
      PROVE  [Next]_vars
    BY <1>2 DEF Commit, Next, Refunding
<1>3. ASSUME NEW w \in Worker, Proceed(w)
      PROVE  [Next]_vars
    BY <1>3 DEF Proceed, Next, Refunding
<1>4. ASSUME NEW w \in Worker, Crash(w)
      PROVE  [Next]_vars
    BY <1>4 DEF Crash, Next, StatementFails
<1>5. ASSUME NEW w \in Worker, Find(w) \/ Replay(w) \/ Finish(w) \/ MarkFailed(w)
      PROVE  [Next]_vars
    BY <1>5 DEF Find, Replay, Finish, MarkFailed
<1>6. CASE Meanwhile
    BY <1>6 DEF Meanwhile, Next
<1>7. ASSUME NEW w \in Worker, NEW k \in Key, NEW x \in Return, NEW amount \in Amount,
             Receive(w, k, x, amount)
      PROVE  [Next]_vars
    BY <1>7 DEF Receive
<1>8. ASSUME NEW k \in Key, Age(k)
      PROVE  [Next]_vars
    BY <1>8 DEF Age
<1>9. CASE UNCHANGED commandVars
    BY <1>9 DEF commandVars
<1> QED BY <1>1, <1>2, <1>3, <1>4, <1>5, <1>6, <1>7, <1>8, <1>9 DEF CommandNext, CallStep

(* A step of w: its request goes on, under the same key, and no row goes.   *)
LEMMA RequestStep ==
    ASSUME CommandInv, NEW w \in Worker, TypeOK', CallMoves(w), NEW step \in Steps,
           Moves(w, step), ~AtStep(w, "idle"), operation' \in [Key -> Row \cup {NoRow}],
           \A k \in Key : operation[k].status # "NONE" => operation'[k].status # "NONE",
           call'[w].pc \in InTransaction <=> step = "create refund",
           step \in Claiming => operation'[request[w].key].status # "NONE"
    PROVE  Typed' /\ InStep' /\ RowsStay'
PROOF
<1>1. /\ request'[w].pc = step /\ request'[w].key = request[w].key
      /\ request'[w].fingerprint = request[w].fingerprint
      /\ \A v \in Worker : v # w => request'[v] = request[v]
      /\ request' \in [Worker -> Request]
    BY DEF Moves
<1>2. Typed'
    BY <1>1, TypedGivesShape DEF CommandInv, Typed, AtStep, CallMoves
<1>3. InStep'
    BY <1>1 DEF CommandInv, InStep, AtStep, CallMoves
<1>4. RowsStay'
    <2> SUFFICES ASSUME NEW v \in Worker, request'[v].pc \in Claiming
                 PROVE  operation'[request'[v].key].status # "NONE"
        BY DEF RowsStay
    <2>1. CASE v = w
        BY <1>1, <2>1
    <2>2. CASE v # w
        <3>1. request'[v] = request[v] /\ operation[request[v].key].status # "NONE"
            BY <1>1, <2>2 DEF CommandInv, RowsStay
        <3>2. request[v].key \in Key
            BY <1>1, <2>2 DEF CommandInv, Typed, AtStep, Claiming
        <3> QED BY <3>1, <3>2
    <2> QED BY <2>1, <2>2
<1> QED BY <1>2, <1>3, <1>4

(* The transaction does not move: it is open only while a refund is made. *)
LEMMA QuietCall ==
    ASSUME CommandInv, NEW w \in Worker, UNCHANGED vars
    PROVE  /\ TypeOK' /\ CallMoves(w)
           /\ ~AtStep(w, "create refund") => call'[w].pc \notin InTransaction
PROOF
<1>1. TypeOK /\ TypeOK' /\ call' = call
    BY DEF CommandInv, ReturnsInv, TypeOK, vars
<1>2. Shaped'
    BY <1>1, TypedGivesShape DEF TypeOK, Shaped, vars
<1> QED BY <1>1, <1>2 DEF CallMoves, CommandInv, InStep

LEMMA ReceiveTyped ==
    ASSUME CommandInv, NEW w \in Worker, NEW k \in Key, NEW x \in Return, NEW amount \in Amount,
           Receive(w, k, x, amount)
    PROVE  Typed' /\ InStep' /\ RowsStay'
PROOF
<1> DEFINE f == [on |-> x, amount |-> amount]
           q == [request[w] EXCEPT !.pc = "find", !.key = k, !.fingerprint = f]
<1>1. /\ request[w].pc = "idle" /\ request' = [request EXCEPT ![w] = q]
      /\ UNCHANGED <<vars, operation>>
    BY DEF Receive, AtStep
<1>2. f \in Fingerprint
    BY DEF Fingerprint
<1> HIDE DEF f
<1>3. request[w] \in Request
    BY DEF CommandInv, Typed
<1>4. q \in Request /\ q.pc = "find" /\ q.key = k /\ q.fingerprint = f
    BY <1>2, <1>3 DEF Request
<1> HIDE DEF q
<1>5. /\ request'[w] = q /\ \A v \in Worker : v # w => request'[v] = request[v]
      /\ request' \in [Worker -> Request]
    BY <1>1, <1>4 DEF CommandInv, Typed
<1>6. Shaped' /\ CallMoves(w)
    BY <1>1, QuietCall, TypedGivesShape
<1>7. Typed'
    BY <1>1, <1>2, <1>4, <1>5, <1>6 DEF CommandInv, Typed, AtStep
<1>8. InStep'
    BY <1>1, <1>4, <1>5 DEF CommandInv, InStep, AtStep, vars
<1>9. RowsStay'
    BY <1>1, <1>4, <1>5 DEF CommandInv, RowsStay, Claiming
<1> QED BY <1>7, <1>8, <1>9

LEMMA CallStepTyped ==
    ASSUME CommandInv, TypeOK', NEW w \in Worker, CallStep(w)
    PROVE  Typed' /\ InStep' /\ RowsStay'
PROOF
<1>1. /\ Typed /\ InStep /\ operation \in [Key -> Row \cup {NoRow}]
      /\ ~AtStep(w, "idle") => request[w].key \in Key
    BY DEF CommandInv, Typed
<1>2. CASE Find(w)
    <2>1. UNCHANGED <<vars, operation>> /\ AtStep(w, "find")
        BY <1>1, <1>2, FindStep
    <2>2. PICK step \in {"create", "refused", "reclaim", "replay"} :
            /\ Moves(w, step)
            /\ step = "reclaim" => operation[request[w].key].status # "NONE"
        BY <1>1, <1>2, FindStep
    <2>3. CallMoves(w) /\ call'[w].pc \notin InTransaction /\ ~AtStep(w, "idle")
        BY <2>1, QuietCall DEF AtStep
    <2>4. step \in Steps
        BY DEF Steps
    <2> QED BY <1>1, <2>1, <2>2, <2>3, <2>4, RequestStep DEF Claiming
<1>3. CASE Create(w) \/ TryReclaim(w)
    <2>1. ~AtStep(w, "idle") /\ ~AtStep(w, "create refund") /\ {"refused", "create refund"} \subseteq Steps
        BY <1>3 DEF Create, TryReclaim, AtStep, Steps, Owning
    <2>2. CASE Moves(w, "refused") /\ UNCHANGED <<vars, operation>>
        <3>1. CallMoves(w) /\ call'[w].pc \notin InTransaction
            BY <2>1, <2>2, QuietCall
        <3> QED BY <1>1, <2>1, <2>2, <3>1, RequestStep DEF Claiming
    <2>3. CASE /\ Moves(w, "create refund")
               /\ CallMoves(w) /\ call'[w].pc = "lock return"
               /\ operation' \in [Key -> Row \cup {NoRow}]
               /\ operation'[request[w].key].status = "PROCESSING"
               /\ \A j \in Key : j # request[w].key => operation'[j] = operation[j]
        BY <1>1, <2>1, <2>3, RequestStep DEF InTransaction
    <2> QED BY <1>1, <1>3, <2>2, <2>3, ClaimStep
<1>4. CASE Commit(w)
    <2>1. AtStep(w, "create refund") => operation[request[w].key].status # "NONE"
        BY DEF CommandInv, RowsStay, Claiming, AtStep
    <2>2. /\ Moves(w, "audit") /\ CallMoves(w) /\ call'[w].pc = "done"
          /\ AtStep(w, "create refund")
          /\ operation' \in [Key -> Row \cup {NoRow}]
          /\ operation'[request[w].key].status = "COMPLETED"
          /\ \A j \in Key : j # request[w].key => operation'[j] = operation[j]
        BY <1>1, <1>4, <2>1, CommitWrites
    <2>3. "audit" \in Steps /\ ~AtStep(w, "idle")
        BY <2>2 DEF Steps, Owning, AtStep
    <2> QED BY <1>1, <2>2, <2>3, RequestStep DEF InTransaction
<1>5. CASE Proceed(w)
    <2>1. /\ CallMoves(w) /\ operation' = operation /\ call[w].pc \in InTransaction
          /\ \/ call'[w].pc \in {"read", "insert"} /\ request' = request
             \/ call'[w].pc = "failed" /\ GoTo(w, "fail")
        BY <1>1, <1>5, ProceedStep
    <2>2. AtStep(w, "create refund") /\ {"create refund", "fail"} \subseteq Steps
        BY <1>1, <2>1 DEF InStep, Steps, Owning
    <2>3. operation[request[w].key].status # "NONE" /\ ~AtStep(w, "idle")
        BY <2>2 DEF CommandInv, RowsStay, Claiming, AtStep
    <2>4. CASE call'[w].pc \in {"read", "insert"} /\ request' = request
        <3>1. Moves(w, "create refund")
            BY <1>1, <2>2, <2>4 DEF Moves, AtStep, Typed
        <3> QED BY <1>1, <2>1, <2>2, <2>3, <2>4, <3>1, RequestStep DEF InTransaction
    <2>5. CASE call'[w].pc = "failed" /\ GoTo(w, "fail")
        <3>1. Moves(w, "fail")
            BY <1>1, <2>2, <2>5, GoToMoves
        <3> QED BY <1>1, <2>1, <2>2, <2>3, <2>5, <3>1, RequestStep DEF InTransaction
    <2> QED BY <2>1, <2>4, <2>5
<1>6. CASE Replay(w) \/ Finish(w)
    <2>1. PICK step \in {"replayed", "answered"} : GoTo(w, step)
        BY <1>6 DEF Replay, Finish
    <2>2. /\ UNCHANGED <<vars, operation>> /\ ~AtStep(w, "idle") /\ ~AtStep(w, "create refund")
          /\ step \in Steps
        BY <1>6 DEF Replay, Finish, AtStep, Steps
    <2>3. CallMoves(w) /\ call'[w].pc \notin InTransaction /\ Moves(w, step)
        BY <1>1, <2>1, <2>2, QuietCall, GoToMoves
    <2> QED BY <1>1, <2>2, <2>3, RequestStep DEF Claiming
<1>7. CASE MarkFailed(w)
    <2>1. /\ AtStep(w, "fail") /\ GoTo(w, "failed") /\ UNCHANGED vars
          /\ operation' = [operation EXCEPT ![request[w].key] = [@ EXCEPT !.status = "FAILED"]]
        BY <1>7 DEF MarkFailed
    <2>2. /\ ~AtStep(w, "idle") /\ ~AtStep(w, "create refund") /\ request[w].key \in Key
          /\ operation[request[w].key].status # "NONE" /\ "failed" \in Steps
        BY <1>1, <2>1 DEF AtStep, CommandInv, RowsStay, Claiming, Steps
    <2>3. operation[request[w].key] \in Row
        <3>1. operation[request[w].key] \in Row \cup {NoRow}
            BY <1>1, <2>2
        <3>2. NoRow.status = "NONE"
            BY DEF NoRow
        <3> QED BY <2>2, <3>1, <3>2
    <2>4. /\ operation' \in [Key -> Row \cup {NoRow}]
          /\ \A k \in Key : operation[k].status # "NONE" => operation'[k].status # "NONE"
        <3> DEFINE row == [operation[request[w].key] EXCEPT !.status = "FAILED"]
        <3>1. row \in Row /\ row.status = "FAILED"
            BY <2>3 DEF Row
        <3>2. operation' = [operation EXCEPT ![request[w].key] = row]
            BY <2>1
        <3> HIDE DEF row
        <3> QED BY <1>1, <2>2, <3>1, <3>2
    <2>5. CallMoves(w) /\ call'[w].pc \notin InTransaction /\ Moves(w, "failed")
        BY <1>1, <2>1, <2>2, QuietCall, GoToMoves
    <2> QED BY <2>2, <2>4, <2>5, RequestStep DEF Claiming
<1>8. CASE Crash(w)
    <2>1. /\ GoTo(w, "dead") /\ operation' = operation /\ "dead" \in Steps
          /\ ~AtStep(w, "idle")
          /\ IF call[w].pc \in InTransaction THEN RollBack(w) ELSE UNCHANGED vars
        BY <1>8 DEF Crash, Steps, AtStep, Owning
    <2>2. CallMoves(w) /\ call'[w].pc \notin InTransaction
        <3>1. CASE call[w].pc \in InTransaction
            BY <1>1, <2>1, <3>1, RollBackStep DEF InTransaction
        <3>2. CASE call[w].pc \notin InTransaction
            BY <1>1, <2>1, <3>2, QuietCall DEF InStep
        <3> QED BY <3>1, <3>2
    <2>3. Moves(w, "dead")
        BY <1>1, <2>1, GoToMoves
    <2> QED BY <1>1, <2>1, <2>2, <2>3, RequestStep DEF Claiming
<1> QED BY <1>2, <1>3, <1>4, <1>5, <1>6, <1>7, <1>8 DEF CallStep

LEMMA NextCommandInv ==
    ASSUME CommandInv, [CommandNext]_commandVars
    PROVE  CommandInv'
PROOF
<1>1. ReturnsInv'
    BY CommandStepsOfNext, NextReturnsInv DEF CommandInv
<1>2. TypeOK' /\ Shaped'
    BY <1>1, TypedGivesShape DEF ReturnsInv
<1>3. ASSUME NEW w \in Worker, NEW k \in Key, NEW x \in Return, NEW amount \in Amount,
             Receive(w, k, x, amount)
      PROVE  Typed' /\ InStep' /\ RowsStay'
    BY <1>3, ReceiveTyped
<1>4. ASSUME NEW w \in Worker, CallStep(w)
      PROVE  Typed' /\ InStep' /\ RowsStay'
    BY <1>2, <1>4, CallStepTyped
<1>5. ASSUME NEW k \in Key, Age(k)
      PROVE  Typed' /\ InStep' /\ RowsStay'
    <2>1. /\ operation[k].status = "PROCESSING" /\ UNCHANGED <<vars, request>>
          /\ operation' = [operation EXCEPT ![k].stuck = TRUE]
        BY <1>5 DEF Age
    <2>2. operation \in [Key -> Row \cup {NoRow}] /\ operation[k] \in Row
        BY <2>1 DEF CommandInv, Typed, NoRow
    <2>3. /\ operation' \in [Key -> Row \cup {NoRow}]
          /\ \A j \in Key : operation'[j].status = operation[j].status
        BY <2>1, <2>2 DEF Row
    <2>4. Typed' /\ InStep'
        BY <1>2, <2>1, <2>3 DEF CommandInv, Typed, InStep, AtStep, vars
    <2>5. RowsStay'
        <3>1. \A w \in Worker : request[w].pc \in Claiming => request[w].key \in Key
            BY DEF CommandInv, Typed, AtStep, Claiming
        <3> QED BY <2>1, <2>3, <3>1 DEF CommandInv, RowsStay
    <2> QED BY <2>4, <2>5
<1>6. ASSUME UNCHANGED <<call, operation, request>>
      PROVE  Typed' /\ InStep' /\ RowsStay'
    <2>1. Typed'
        BY <1>2, <1>6 DEF CommandInv, Typed, AtStep
    <2>2. InStep' /\ RowsStay'
        BY <1>6 DEF CommandInv, InStep, RowsStay, AtStep
    <2> QED BY <2>1, <2>2
<1>7. CASE Meanwhile
    <2>1. UNCHANGED <<call, operation, request>>
        BY <1>7 DEF Meanwhile, Complete, Transition, ProcessRefund, CompleteRefund, FailRefund,
                    CancelRefund, RefundTransition
    <2> QED BY <1>1, <1>6, <2>1 DEF CommandInv
<1>8. CASE UNCHANGED commandVars
    BY <1>1, <1>6, <1>8 DEF CommandInv, commandVars, vars
<1> QED BY <1>1, <1>3, <1>4, <1>5, <1>7, <1>8 DEF CommandNext, CommandInv

LEMMA SpecCommandInv == CommandSpec => []CommandInv
BY InitCommandInv, NextCommandInv, PTL DEF CommandSpec

---------------------------------------------------------------------------
(* Types, of the returns and of the commands.                               *)
THEOREM TypeCorrect == (Spec => []TypeOK) /\ (CommandSpec => []CommandTypeOK)
PROOF
<1>1. ReturnsInv => TypeOK
    BY DEF ReturnsInv
<1>2. CommandInv => CommandTypeOK
    BY DEF CommandInv, ReturnsInv, Typed, CommandTypeOK
<1> QED BY <1>1, <1>2, SpecReturnsInv, SpecCommandInv, PTL

(* However many returns of an invoice are received at the same time, of no  *)
(* item more comes back than was sold.                                      *)
THEOREM NoMoreBackThanSold ==
    (Spec => []ReturnedWithinSold) /\ (CommandSpec => []ReturnedWithinSold)
PROOF
<1>1. ReturnsInv => ReturnedWithinSold
    BY DEF ReturnsInv
<1>2. CommandInv => ReturnsInv
    BY DEF CommandInv
<1> QED BY <1>1, <1>2, SpecReturnsInv, SpecCommandInv, PTL

(* The stock put back is what the received returns list, once.              *)
THEOREM GoodsBackOnce == (Spec => []RestoredOnce) /\ (CommandSpec => []RestoredOnce)
PROOF
<1>1. ReturnsInv => RestoredOnce
    BY DEF ReturnsInv
<1>2. CommandInv => ReturnsInv
    BY DEF CommandInv
<1> QED BY <1>1, <1>2, SpecReturnsInv, SpecCommandInv, PTL

(* However the refunds of a return overlap, fail, are retried or cancelled, *)
(* those that count stay within the total of a return that came back.       *)
THEOREM RefundsCovered ==
    (Spec => []RefundsWithinReturn) /\ (CommandSpec => []RefundsWithinReturn)
PROOF
<1>1. ReturnsInv => RefundsWithinReturn
    BY DEF ReturnsInv
<1>2. CommandInv => ReturnsInv
    BY DEF CommandInv
<1> QED BY <1>1, <1>2, SpecReturnsInv, SpecCommandInv, PTL
=============================================================================
