--------------------------- MODULE InventoryProofs ---------------------------
(***************************************************************************)
(* Proofs about Inventory, for any number of transactions, cells and        *)
(* documents.                                                               *)
(***************************************************************************)
EXTENDS Inventory, SequenceTheorems, SumTheorems

(* The stored average is an integer whatever is divided by whatever but 0.  *)
LEMMA RoundedQuotientType ==
    ASSUME NEW n \in Int, NEW d \in Int, d # 0
    PROVE  RoundedQuotient(n, d) \in Int
PROOF
<1> DEFINE num == IF d < 0 THEN -n ELSE n
           den == IF d < 0 THEN -d ELSE d
<1>1. num \in Int /\ den \in Int /\ den > 0
    OBVIOUS
<1>2. (2 * num + den) \div (2 * den) \in Int
    <2>1. 2 * num + den \in Int /\ 2 * den \in Int /\ 2 * den > 0
        BY <1>1
    <2> QED BY <2>1, SMT
<1>3. (den - 2 * num) \div (2 * den) \in Int
    <2>1. den - 2 * num \in Int /\ 2 * den \in Int /\ 2 * den > 0
        BY <1>1
    <2> QED BY <2>1, SMT
<1> QED BY <1>1, <1>2, <1>3 DEF RoundedQuotient

(* One line applied to a row gives a row and a movement. *)
LEMMA AppliedType ==
    ASSUME NEW row \in Row, NEW l \in DocumentLine
    PROVE  /\ AppliedTo(row, l) \in Row
           /\ MovementOf(row, l) \in Movement
PROOF
<1>1. /\ row.quantity \in Int /\ row.avgCost \in Int
      /\ l.delta \in Int /\ l.unitCost \in Nat \cup {NoCost}
    BY DEF Row, DocumentLine
<1>2. AfterQuantity(row.quantity, l.delta) \in Int
    BY <1>1 DEF AfterQuantity
<1>3. AverageAfter(row.quantity, row.avgCost, l.delta, l.unitCost) \in Int
    <2>1. CASE /\ l.delta > 0 /\ l.unitCost # NoCost
               /\ AfterQuantity(row.quantity, l.delta) # 0
        <3>1. row.quantity * row.avgCost + l.delta * l.unitCost \in Int
            BY <1>1, <2>1
        <3> QED BY <3>1, <1>2, <2>1, RoundedQuotientType DEF AverageAfter
    <2>2. CASE ~(/\ l.delta > 0 /\ l.unitCost # NoCost
                 /\ AfterQuantity(row.quantity, l.delta) # 0)
        BY <2>2, <1>1 DEF AverageAfter
    <2> QED BY <2>1, <2>2
<1> QED BY <1>1, <1>2, <1>3 DEF AppliedTo, MovementOf, Row, Movement

(* A movement that starts where a chain ends prolongs it. *)
LEMMA ChainAppend ==
    ASSUME NEW start \in Int, NEW moves \in Seq(Movement), NEW m \in Movement,
           Chained(start, moves),
           m.before = LastAfter(start, moves),
           m.after = m.before + m.delta
    PROVE  /\ Append(moves, m) \in Seq(Movement)
           /\ Chained(start, Append(moves, m))
           /\ LastAfter(start, Append(moves, m)) = m.after
PROOF
<1> DEFINE longer == Append(moves, m)
<1>1. /\ longer \in Seq(Movement)
      /\ Len(longer) = Len(moves) + 1
      /\ Len(moves) \in Nat
      /\ \A i \in 1 .. Len(moves) : longer[i] = moves[i]
      /\ longer[Len(moves) + 1] = m
    OBVIOUS
<1>2. longer # <<>>
    BY <1>1
<1>3. LastAfter(start, longer) = m.after
    BY <1>1, <1>2 DEF LastAfter
<1>4. ASSUME NEW i \in 1 .. Len(longer)
      PROVE  /\ longer[i].after = longer[i].before + longer[i].delta
             /\ longer[i].before = IF i = 1 THEN start ELSE longer[i - 1].after
    <2>1. CASE i \in 1 .. Len(moves)
        <3>1. i # 1 => i - 1 \in 1 .. Len(moves)
            BY <2>1, <1>1
        <3> QED BY <2>1, <3>1, <1>1 DEF Chained
    <2>2. CASE i = Len(moves) + 1 /\ moves = <<>>
        BY <2>2, <1>1 DEF LastAfter
    <2>3. CASE i = Len(moves) + 1 /\ moves # <<>>
        <3>1. i # 1 /\ i - 1 = Len(moves) /\ Len(moves) \in 1 .. Len(moves)
            BY <2>3, <1>1, EmptySeq
        <3> QED BY <2>3, <3>1, <1>1 DEF LastAfter
    <2> QED BY <1>1, <2>1, <2>2, <2>3
<1> QED BY <1>1, <1>3, <1>4 DEF Chained

(* Two chains, the second from where the first ends, make one. *)
LEMMA ChainConcat ==
    ASSUME NEW start \in Int, NEW s1 \in Seq(Movement), NEW s2 \in Seq(Movement),
           Chained(start, s1), Chained(LastAfter(start, s1), s2)
    PROVE  /\ s1 \o s2 \in Seq(Movement)
           /\ Chained(start, s1 \o s2)
           /\ LastAfter(start, s1 \o s2) = LastAfter(LastAfter(start, s1), s2)
PROOF
<1> DEFINE both == s1 \o s2
<1>1. /\ both \in Seq(Movement)
      /\ Len(both) = Len(s1) + Len(s2)
      /\ \A i \in 1 .. Len(s1) + Len(s2) :
            both[i] = IF i <= Len(s1) THEN s1[i] ELSE s2[i - Len(s1)]
      /\ Len(s1) \in Nat /\ Len(s2) \in Nat
    BY ConcatProperties, LenProperties
<1>2. CASE s2 = <<>>
    <2>1. both = s1
        BY <1>2, ConcatEmptySeq
    <2> QED BY <2>1, <1>2 DEF LastAfter
<1>3. CASE s2 # <<>>
    <2>1. Len(s2) \in Nat \ {0}
        BY <1>3, EmptySeq
    <2>2. both # <<>> /\ both[Len(both)] = s2[Len(s2)]
        BY <2>1, <1>1
    <2>3. LastAfter(start, both) = LastAfter(LastAfter(start, s1), s2)
        BY <2>2, <1>3 DEF LastAfter
    <2>4. ASSUME NEW i \in 1 .. Len(both)
          PROVE  /\ both[i].after = both[i].before + both[i].delta
                 /\ both[i].before = IF i = 1 THEN start ELSE both[i - 1].after
        <3>1. CASE i <= Len(s1)
            <4>1. i \in 1 .. Len(s1) /\ (i # 1 => i - 1 \in 1 .. Len(s1))
                BY <3>1, <1>1
            <4>2. both[i] = s1[i] /\ (i # 1 => both[i - 1] = s1[i - 1])
                BY <4>1, <1>1
            <4> QED BY <4>1, <4>2 DEF Chained
        <3>2. CASE i = Len(s1) + 1
            <4>1. both[i] = s2[1] /\ 1 \in 1 .. Len(s2)
                BY <3>2, <2>1, <1>1
            <4>2. s2[1].before = LastAfter(start, s1)
                BY <4>1 DEF Chained
            <4>3. IF i = 1 THEN s1 = <<>> ELSE s1 # <<>> /\ both[i - 1] = s1[Len(s1)]
                BY <3>2, <1>1, EmptySeq
            <4> QED BY <4>1, <4>2, <4>3 DEF Chained, LastAfter
        <3>3. CASE i > Len(s1) + 1
            <4>1. /\ i - Len(s1) \in 1 .. Len(s2)
                  /\ i - Len(s1) # 1 /\ i # 1
                  /\ (i - Len(s1)) - 1 \in 1 .. Len(s2)
                BY <3>3, <1>1
            <4>2. both[i] = s2[i - Len(s1)] /\ both[i - 1] = s2[(i - Len(s1)) - 1]
                BY <4>1, <3>3, <1>1
            <4> QED BY <4>1, <4>2 DEF Chained
        <3> QED BY <1>1, <3>1, <3>2, <3>3
    <2> QED BY <1>1, <2>3, <2>4 DEF Chained
<1> QED BY <1>2, <1>3
---------------------------------------------------------------------------
LEMMA InitIInv == Init => IInv
PROOF
<1> SUFFICES ASSUME Init PROVE IInv
    OBVIOUS
<1>1. <<>> \in Seq(Movement) /\ <<>> \in Seq(DocumentLine) /\ NoRow \in Row
    BY EmptySeq DEF NoRow, Row
<1>2. TypeOK
    BY <1>1 DEF Init, TypeOK, Progress
<1>3. StockIsLedger
    BY DEF Init, StockIsLedger, Chained, LastAfter, NoRow
<1>4. DraftsContinue /\ ProgressSound
    BY DEF Init, DraftsContinue, ProgressSound, NoRow
<1> QED BY <1>2, <1>3, <1>4 DEF IInv

(* A transaction that is rolled back takes its drafts with it. *)
LEMMA RollBackStep ==
    ASSUME IInv, NEW t \in Tx, RollBack(t)
    PROVE  IInv'
PROOF
<1> USE DEF IInv
<1>1. <<>> \in Seq(Movement) /\ NoRow \in Row
    BY EmptySeq DEF NoRow, Row
<1>2. TypeOK'
    <2>1. owner' \in [Cell -> Tx \cup {NoTx}] /\ draft' \in [Cell -> Row]
          /\ entries' \in [Cell -> Seq(Movement)]
        BY <1>1 DEF TypeOK, RollBack, Release
    <2>2. tx' \in [Tx -> Progress]
        BY DEF TypeOK, RollBack, Progress
    <2> QED BY <2>1, <2>2 DEF TypeOK, RollBack
<1>3. StockIsLedger'
    BY DEF StockIsLedger, RollBack
<1>4. DraftsContinue'
    BY InventoryAssumption DEF DraftsContinue, RollBack, Release, TypeOK
<1>5. ProgressSound'
    BY DEF ProgressSound, RollBack, TypeOK, Progress
<1> QED BY <1>2, <1>3, <1>4, <1>5

(* A line written on the quantity that really stands there. *)
LEMMA WriteStep ==
    ASSUME IInv, NEW t \in Tx, NEW row \in Row,
           tx[t].pc \in {"update", "insert"},
           owner[line(t).cell] \in {t, NoTx},
           row.quantity = Visible(t, line(t).cell).quantity,
           Write(t, row)
    PROVE  IInv'
PROOF
<1> USE DEF IInv
<1> DEFINE l == line(t)
           c == l.cell
           m == MovementOf(row, l)
<1>1. /\ tx[t] \in Progress /\ tx[t].lines \in Seq(DocumentLine)
      /\ tx[t].lines # <<>>
    BY DEF TypeOK, Progress, ProgressSound
<1>2. l \in DocumentLine /\ Tail(tx[t].lines) \in Seq(DocumentLine)
    BY <1>1, HeadTailProperties DEF line
<1>3. c \in Cell
    BY <1>2 DEF DocumentLine
<1>4. AppliedTo(row, l) \in Row /\ m \in Movement
    BY <1>2, AppliedType
<1>5. /\ entries[c] \in Seq(Movement) /\ stock[c].quantity \in Int
      /\ Chained(stock[c].quantity, entries[c])
      /\ row.quantity = LastAfter(stock[c].quantity, entries[c])
    <2>1. entries[c] \in Seq(Movement) /\ stock[c] \in Row
        BY <1>3 DEF TypeOK
    <2>2. CASE owner[c] = t
        <3>1. t # NoTx
            BY InventoryAssumption
        <3> QED BY <2>1, <2>2, <3>1, <1>3 DEF DraftsContinue, Visible, Row
    <2>3. CASE owner[c] = NoTx
        <3>1. t # NoTx /\ entries[c] = <<>>
            BY <2>3, <1>3, InventoryAssumption DEF DraftsContinue
        <3> QED BY <2>1, <2>3, <3>1, <1>3 DEF Visible, Row, Chained, LastAfter
    <2> QED BY <2>2, <2>3
<1>6. /\ m.before = row.quantity
      /\ m.after = m.before + m.delta
      /\ AppliedTo(row, l).quantity = m.after
      /\ AppliedTo(row, l).exists
    BY DEF MovementOf, AppliedTo, AfterQuantity
<1>7. /\ Append(entries[c], m) \in Seq(Movement)
      /\ Chained(stock[c].quantity, Append(entries[c], m))
      /\ LastAfter(stock[c].quantity, Append(entries[c], m)) = m.after
    BY <1>4, <1>5, <1>6, ChainAppend
<1>8. /\ stock' = stock /\ ledger' = ledger
      /\ owner' = [owner EXCEPT ![c] = t]
      /\ draft' = [draft EXCEPT ![c] = AppliedTo(row, l)]
      /\ entries' = [entries EXCEPT ![c] = Append(@, m)]
      /\ tx' = [tx EXCEPT ![t] =
                [pc |-> IF Tail(tx[t].lines) = <<>> THEN "commit" ELSE "read",
                 lines |-> Tail(tx[t].lines), seen |-> NoRow]]
    BY DEF Write
<1>9. TypeOK'
    <2>1. tx' \in [Tx -> Progress]
        BY <1>2, <1>8 DEF TypeOK, Progress, NoRow, Row
    <2>2. entries' \in [Cell -> Seq(Movement)]
        BY <1>7, <1>8 DEF TypeOK
    <2>3. draft' \in [Cell -> Row] /\ owner' \in [Cell -> Tx \cup {NoTx}]
        BY <1>4, <1>8 DEF TypeOK
    <2> QED BY <2>1, <2>2, <2>3, <1>8 DEF TypeOK
<1>10. StockIsLedger'
    BY <1>8 DEF StockIsLedger
<1>11. DraftsContinue'
    <2>1. t # NoTx
        BY InventoryAssumption
    <2>2. /\ owner'[c] = t /\ draft'[c] = AppliedTo(row, l)
          /\ entries'[c] = Append(entries[c], m)
        BY <1>3, <1>8 DEF TypeOK
    <2>3. ASSUME NEW d \in Cell, d # c
          PROVE  owner'[d] = owner[d] /\ draft'[d] = draft[d] /\ entries'[d] = entries[d]
        BY <2>3, <1>8 DEF TypeOK
    <2> QED BY <2>1, <2>2, <2>3, <1>6, <1>7, <1>8 DEF DraftsContinue
<1>12. ProgressSound'
    BY <1>8 DEF ProgressSound, TypeOK, NoRow
<1> QED BY <1>9, <1>10, <1>11, <1>12

(* What a transaction drafted continues the chain it is committed to. *)
LEMMA CommitStep ==
    ASSUME IInv, NEW t \in Tx, Commit(t)
    PROVE  IInv'
PROOF
<1> USE DEF IInv
<1>1. t # NoTx
    BY InventoryAssumption
<1>2. <<>> \in Seq(Movement) /\ NoRow \in Row
    BY EmptySeq DEF NoRow, Row
<1>3. ASSUME NEW c \in Cell, owner[c] = t
      PROVE  /\ ledger[c] \o entries[c] \in Seq(Movement)
             /\ Chained(0, ledger[c] \o entries[c])
             /\ draft[c].quantity = LastAfter(0, ledger[c] \o entries[c])
             /\ draft[c].exists
    <2>1. ledger[c] \in Seq(Movement) /\ entries[c] \in Seq(Movement)
        BY DEF TypeOK
    <2>2. Chained(0, ledger[c]) /\ stock[c].quantity = LastAfter(0, ledger[c])
        BY DEF StockIsLedger
    <2>3. /\ Chained(stock[c].quantity, entries[c]) /\ draft[c].exists
          /\ draft[c].quantity = LastAfter(stock[c].quantity, entries[c])
        BY <1>1, <1>3 DEF DraftsContinue
    <2> QED BY <2>1, <2>2, <2>3, ChainConcat
<1>4. ASSUME NEW c \in Cell
      PROVE  /\ stock'[c] = IF owner[c] = t THEN draft[c] ELSE stock[c]
             /\ ledger'[c] = IF owner[c] = t THEN ledger[c] \o entries[c] ELSE ledger[c]
             /\ owner'[c] = IF owner[c] = t THEN NoTx ELSE owner[c]
             /\ draft'[c] = IF owner[c] = t THEN NoRow ELSE draft[c]
             /\ entries'[c] = IF owner[c] = t THEN <<>> ELSE entries[c]
    BY DEF Commit, Release
<1>5. TypeOK'
    <2>1. stock' \in [Cell -> Row]
        BY DEF TypeOK, Commit
    <2>2. ledger' \in [Cell -> Seq(Movement)]
        BY <1>3 DEF TypeOK, Commit
    <2>3. owner' \in [Cell -> Tx \cup {NoTx}] /\ draft' \in [Cell -> Row]
          /\ entries' \in [Cell -> Seq(Movement)]
        BY <1>2 DEF TypeOK, Commit, Release
    <2>4. tx' \in [Tx -> Progress]
        BY DEF TypeOK, Commit, Progress
    <2> QED BY <2>1, <2>2, <2>3, <2>4 DEF TypeOK
<1>6. StockIsLedger'
    BY <1>3, <1>4 DEF StockIsLedger
<1>7. DraftsContinue'
    BY <1>1, <1>3, <1>4 DEF DraftsContinue
<1>8. ProgressSound'
    BY DEF ProgressSound, Commit, TypeOK
<1> QED BY <1>5, <1>6, <1>7, <1>8

LEMMA BeginStep ==
    ASSUME IInv, NEW t \in Tx, NEW document \in Documents, Begin(t, document)
    PROVE  IInv'
PROOF
<1> USE DEF IInv
<1>1. document \in Seq(DocumentLine)
    BY InventoryAssumption
<1>2. TypeOK'
    BY <1>1 DEF TypeOK, Begin, Progress
<1>3. StockIsLedger' /\ DraftsContinue'
    BY DEF StockIsLedger, DraftsContinue, Begin
<1>4. ProgressSound'
    BY DEF ProgressSound, Begin, TypeOK
<1> QED BY <1>2, <1>3, <1>4

LEMMA VisibleRow ==
    ASSUME IInv, NEW t \in Tx, NEW c \in Cell
    PROVE  /\ Visible(t, c) \in Row
           /\ ~Visible(t, c).exists => owner[c] # t /\ Visible(t, c).quantity = 0
BY InventoryAssumption DEF IInv, TypeOK, Visible, DraftsContinue

LEMMA LineType ==
    ASSUME IInv, NEW t \in Tx, tx[t].pc \in {"read", "update", "insert"}
    PROVE  line(t) \in DocumentLine /\ line(t).cell \in Cell
PROOF
<1>1. tx[t].lines \in Seq(DocumentLine) /\ tx[t].lines # <<>>
    BY DEF IInv, TypeOK, Progress, ProgressSound
<1>2. line(t) \in DocumentLine
    BY <1>1, HeadTailProperties DEF line
<1> QED BY <1>2 DEF DocumentLine

LEMMA ReadStep ==
    ASSUME IInv, NEW t \in Tx, Read(t)
    PROVE  IInv'
PROOF
<1> DEFINE row == Visible(t, line(t).cell)
<1>1. CASE RollBack(t)
    BY <1>1, RollBackStep
<1>2. CASE /\ tx' = [tx EXCEPT ![t].pc = "update", ![t].seen = row]
           /\ UNCHANGED <<stock, ledger, owner, draft, entries>>
    <2> USE DEF IInv
    <2>1. row \in Row /\ (~row.exists => row.quantity = 0)
        BY VisibleRow, LineType DEF Read, At
    <2>2. TypeOK'
        BY <1>2, <2>1 DEF TypeOK, Progress
    <2>3. StockIsLedger' /\ DraftsContinue'
        BY <1>2 DEF StockIsLedger, DraftsContinue
    <2>4. ProgressSound'
        BY <1>2, <2>1 DEF ProgressSound, TypeOK, Read, At
    <2> QED BY <2>2, <2>3, <2>4
<1> QED BY <1>1, <1>2 DEF Read

LEMMA UpdateStep ==
    ASSUME IInv, NEW t \in Tx, Update(t)
    PROVE  IInv'
PROOF
<1> USE DEF At
<1>1. tx[t].seen \in Row
    BY DEF IInv, TypeOK, Progress
<1>2. CASE Matches(t) /\ owner[line(t).cell] \in {t, NoTx} /\ Write(t, tx[t].seen)
    BY <1>1, <1>2, WriteStep DEF Matches, Update
<1>3. CASE RollBack(t)
    BY <1>3, RollBackStep
<1>4. CASE /\ ~tx[t].seen.exists
           /\ tx' = [tx EXCEPT ![t].pc = "insert"]
           /\ UNCHANGED <<stock, ledger, owner, draft, entries>>
    <2> USE DEF IInv
    <2>1. TypeOK'
        BY <1>4 DEF TypeOK, Progress
    <2>2. StockIsLedger' /\ DraftsContinue'
        BY <1>4 DEF StockIsLedger, DraftsContinue
    <2>3. ProgressSound'
        BY <1>4 DEF ProgressSound, TypeOK, Update
    <2> QED BY <2>1, <2>2, <2>3
<1> QED BY <1>2, <1>3, <1>4 DEF Update

LEMMA InsertStep ==
    ASSUME IInv, NEW t \in Tx, Insert(t)
    PROVE  IInv'
PROOF
<1> DEFINE c == line(t).cell
<1>1. tx[t].pc = "insert" /\ owner[c] \in {t, NoTx}
    BY DEF Insert, At
<1>2. CASE RollBack(t)
    BY <1>2, RollBackStep
<1>3. CASE ~Visible(t, c).exists /\ Write(t, tx[t].seen)
    <2>1. tx[t].seen \in Row /\ tx[t].seen.quantity = 0
        BY <1>1 DEF IInv, TypeOK, Progress, ProgressSound
    <2>2. Visible(t, c).quantity = 0
        BY <1>1, <1>3, VisibleRow, LineType
    <2> QED BY <1>1, <1>3, <2>1, <2>2, WriteStep
<1> QED BY <1>2, <1>3 DEF Insert

LEMMA NextIInv == IInv /\ [Next]_vars => IInv'
PROOF
<1> SUFFICES ASSUME IInv, [Next]_vars PROVE IInv'
    OBVIOUS
<1>1. ASSUME NEW t \in Tx, NEW document \in Documents, Begin(t, document)
      PROVE  IInv'
    BY <1>1, BeginStep
<1>2. ASSUME NEW t \in Tx, Step(t) PROVE IInv'
    BY <1>2, ReadStep, UpdateStep, InsertStep, CommitStep DEF Step
<1>3. ASSUME NEW t \in Tx, Lost(t) \/ DeadlockVictim(t) PROVE IInv'
    BY <1>3, RollBackStep DEF Lost, DeadlockVictim
<1>4. CASE UNCHANGED vars
    BY <1>4 DEF vars, IInv, TypeOK, StockIsLedger, DraftsContinue, ProgressSound
<1> QED BY <1>1, <1>2, <1>3, <1>4 DEF Next

(* Every variable always has its type. *)
THEOREM TypeCorrect == Spec => []TypeOK
PROOF
<1>1. IInv => TypeOK
    BY DEF IInv
<1> QED BY InitIInv, NextIInv, <1>1, PTL DEF Spec

(* The committed stock is what the committed movements say, however the      *)
(* transactions interleave and whichever of them are lost.                   *)
THEOREM LedgerFaithful == Spec => []StockIsLedger
PROOF
<1>1. IInv => StockIsLedger
    BY DEF IInv
<1> QED BY InitIInv, NextIInv, <1>1, PTL DEF Spec
---------------------------------------------------------------------------
(* Negative stock. *)

LEMMA RollBackNotNegative ==
    ASSUME TypeOK, DraftsNotNegative, NEW t \in Tx, RollBack(t)
    PROVE  DraftsNotNegative'
PROOF
<1>1. NoRow.quantity = 0
    BY DEF NoRow
<1>2. \A c \in Cell : stock'[c].quantity >= 0 /\ draft'[c].quantity >= 0
    BY <1>1 DEF DraftsNotNegative, RollBack, Release
<1>3. tx' = [tx EXCEPT ![t].pc = "aborted"]
    BY DEF RollBack
<1>4. ASSUME NEW u \in Tx
      PROVE  tx'[u].lines = tx[u].lines /\ tx'[u].seen = tx[u].seen
             /\ (u # t => tx'[u].pc = tx[u].pc) /\ (u = t => tx'[u].pc = "aborted")
    BY <1>3 DEF TypeOK, Progress
<1> QED BY <1>2, <1>4 DEF DraftsNotNegative, line

LEMMA WriteNotNegative ==
    ASSUME IInv, DraftsNotNegative, NEW t \in Tx,
           tx[t].pc \in {"update", "insert"}, Write(t, tx[t].seen)
    PROVE  DraftsNotNegative'
PROOF
<1> DEFINE l == line(t)
           lines == tx[t].lines
<1>1. l.cell \in Cell
    BY LineType
<1>2. lines \in Seq(DocumentLine) /\ lines # <<>>
    BY DEF IInv, TypeOK, Progress, ProgressSound
<1>3. \A i \in 1 .. Len(Tail(lines)) :
            Tail(lines)[i].delta < 0 => Tail(lines)[i].check
    <2>1. ASSUME NEW i \in 1 .. Len(Tail(lines))
          PROVE  i + 1 \in 1 .. Len(lines) /\ Tail(lines)[i] = lines[i + 1]
        BY <1>2, HeadTailProperties, LenProperties
    <2> QED BY <2>1 DEF DraftsNotNegative
<1>4. /\ stock' = stock
      /\ draft' = [draft EXCEPT ![l.cell] = AppliedTo(tx[t].seen, l)]
      /\ tx' = [tx EXCEPT ![t] =
                [pc |-> IF Tail(lines) = <<>> THEN "commit" ELSE "read",
                 lines |-> Tail(lines), seen |-> NoRow]]
    BY DEF Write
<1>5. \A c \in Cell : stock'[c].quantity >= 0 /\ draft'[c].quantity >= 0
    BY <1>1, <1>4 DEF DraftsNotNegative, IInv, TypeOK, AppliedTo
<1>6. ASSUME NEW u \in Tx
      PROVE  IF u = t THEN tx'[u].lines = Tail(lines) /\ tx'[u].pc \in {"commit", "read"}
                      ELSE tx'[u] = tx[u]
    BY <1>4 DEF IInv, TypeOK
<1> QED BY <1>3, <1>5, <1>6 DEF DraftsNotNegative, line

LEMMA ReadNotNegative ==
    ASSUME IInv, DraftsNotNegative, ~AllowNegative, NEW t \in Tx, Read(t)
    PROVE  DraftsNotNegative'
PROOF
<1> DEFINE row == Visible(t, line(t).cell)
           l == line(t)
<1>1. CASE RollBack(t)
    BY <1>1, RollBackNotNegative DEF IInv
<1>2. CASE /\ ~Insufficient(row, l)
           /\ tx' = [tx EXCEPT ![t].pc = "update", ![t].seen = row]
           /\ UNCHANGED <<stock, ledger, owner, draft, entries>>
    <2>1. l \in DocumentLine /\ l.cell \in Cell /\ row \in Row
        BY LineType, VisibleRow DEF Read, At
    <2>2. row.quantity >= 0
        BY <2>1 DEF DraftsNotNegative, Visible
    <2>3. l.delta < 0 => l.check
        <3>1. tx[t].lines \in Seq(DocumentLine) /\ tx[t].lines # <<>>
            BY DEF IInv, TypeOK, Progress, ProgressSound, Read, At
        <3>2. l = tx[t].lines[1] /\ 1 \in 1 .. Len(tx[t].lines)
            BY <3>1, EmptySeq DEF line
        <3> QED BY <3>2 DEF DraftsNotNegative
    <2>4. AfterQuantity(row.quantity, l.delta) >= 0
        BY <1>2, <2>1, <2>2, <2>3 DEF Insufficient, AfterQuantity, Row, DocumentLine
    <2>5. ASSUME NEW u \in Tx
          PROVE  /\ tx'[u].lines = tx[u].lines
                 /\ IF u = t THEN tx'[u].seen = row ELSE tx'[u] = tx[u]
        BY <1>2 DEF IInv, TypeOK, Progress
    <2> QED BY <1>2, <2>4, <2>5 DEF DraftsNotNegative, line
<1> QED BY <1>1, <1>2 DEF Read

LEMMA OtherStepsNotNegative ==
    ASSUME IInv, DraftsNotNegative, NEW t \in Tx,
           Update(t) \/ Insert(t) \/ Commit(t)
    PROVE  DraftsNotNegative'
PROOF
<1>1. CASE Update(t)
    <2>1. CASE Write(t, tx[t].seen)
        BY <1>1, <2>1, WriteNotNegative DEF Update, At
    <2>2. CASE RollBack(t)
        BY <2>2, RollBackNotNegative DEF IInv
    <2>3. CASE /\ tx' = [tx EXCEPT ![t].pc = "insert"]
               /\ UNCHANGED <<stock, ledger, owner, draft, entries>>
        <3>1. ASSUME NEW u \in Tx
              PROVE  /\ tx'[u].lines = tx[u].lines /\ tx'[u].seen = tx[u].seen
                     /\ u # t => tx'[u].pc = tx[u].pc
            BY <2>3 DEF IInv, TypeOK, Progress
        <3> QED BY <1>1, <2>3, <3>1 DEF DraftsNotNegative, line, Update, At
    <2> QED BY <1>1, <2>1, <2>2, <2>3 DEF Update
<1>2. CASE Insert(t)
    <2>1. CASE Write(t, tx[t].seen)
        BY <1>2, <2>1, WriteNotNegative DEF Insert, At
    <2>2. CASE RollBack(t)
        BY <2>2, RollBackNotNegative DEF IInv
    <2> QED BY <1>2, <2>1, <2>2 DEF Insert
<1>3. CASE Commit(t)
    <2>1. NoRow.quantity = 0
        BY DEF NoRow
    <2>2. \A c \in Cell : stock'[c].quantity >= 0 /\ draft'[c].quantity >= 0
        BY <1>3, <2>1 DEF Commit, Release, DraftsNotNegative
    <2>3. ASSUME NEW u \in Tx
          PROVE  /\ tx'[u].lines = tx[u].lines /\ tx'[u].seen = tx[u].seen
                 /\ IF u = t THEN tx'[u].pc = "committed" ELSE tx'[u].pc = tx[u].pc
        BY <1>3 DEF Commit, IInv, TypeOK, Progress
    <2> QED BY <2>2, <2>3 DEF DraftsNotNegative, line
<1> QED BY <1>1, <1>2, <1>3

(* While negative stock is not allowed and every line that takes stock out   *)
(* is checked, no interleaving of transactions commits a negative quantity.  *)
THEOREM NeverNegative == Spec => []NoNegativeStock
PROOF
<1>1. CASE OutgoingChecked /\ ~AllowNegative
    <2>1. Init => DraftsNotNegative
        <3>1. Len(<<>>) = 0
            BY EmptySeq
        <3> QED BY <3>1 DEF Init, DraftsNotNegative, NoRow
    <2>2. IInv /\ DraftsNotNegative /\ [Next]_vars => DraftsNotNegative'
        <3> SUFFICES ASSUME IInv, DraftsNotNegative, [Next]_vars
                     PROVE  DraftsNotNegative'
            OBVIOUS
        <3>1. ASSUME NEW t \in Tx, NEW document \in Documents, Begin(t, document)
              PROVE  DraftsNotNegative'
            <4>1. \A i \in 1 .. Len(document) : document[i].delta < 0 => document[i].check
                BY <1>1 DEF OutgoingChecked
            <4>2. ASSUME NEW u \in Tx
                  PROVE  IF u = t THEN tx'[u].lines = document /\ tx'[u].pc = "read"
                                  ELSE tx'[u] = tx[u]
                BY <3>1 DEF Begin, IInv, TypeOK, Progress
            <4> QED BY <3>1, <4>1, <4>2 DEF DraftsNotNegative, Begin, line
        <3>2. ASSUME NEW t \in Tx, Step(t) PROVE DraftsNotNegative'
            BY <1>1, <3>2, ReadNotNegative, OtherStepsNotNegative DEF Step
        <3>3. ASSUME NEW t \in Tx, Lost(t) \/ DeadlockVictim(t)
              PROVE  DraftsNotNegative'
            BY <3>3, RollBackNotNegative DEF Lost, DeadlockVictim, IInv
        <3>4. CASE UNCHANGED vars
            BY <3>4 DEF vars, DraftsNotNegative, line
        <3> QED BY <3>1, <3>2, <3>3, <3>4 DEF Next
    <2>3. DraftsNotNegative => NoNegativeStock
        BY DEF DraftsNotNegative, NoNegativeStock
    <2> QED BY InitIInv, NextIInv, <2>1, <2>2, <2>3, PTL DEF Spec
<1>2. CASE ~(OutgoingChecked /\ ~AllowNegative)
    <2>1. NoNegativeStock
        BY <1>2 DEF NoNegativeStock
    <2>2. []NoNegativeStock
        BY <2>1, PTL
    <2> QED BY <2>2
<1> QED BY <1>1, <1>2
---------------------------------------------------------------------------
(* Whole documents.  A transaction that has written n lines of its document *)
(* holds the cells of these lines with the movements they leave; on a cell  *)
(* it does not hold it has posted nothing.                                  *)

Posted(t, document, n) ==
    /\ Len(tx[t].lines) = Len(document) - n
    /\ \A i \in 1 .. Len(tx[t].lines) : tx[t].lines[i] = document[n + i]
    /\ tx[t].pc = "commit" => n = Len(document)
    /\ \A c \in Cell :
        IF owner[c] = t
        THEN /\ draft[c].quantity = stock[c].quantity + Audit!Total(document, n, c)
             /\ entries[c] = Audit!MovesAlong(document, stock[c].quantity, c)[n]
        ELSE \A i \in 1 .. n : document[i].cell # c

Working == {"read", "update", "insert", "commit"}

PostedSoFar ==
    \A t \in Tx : tx[t].pc \in Working =>
        \E document \in Documents : \E n \in 0 .. Len(document) : Posted(t, document, n)

HoldersWork == \A c \in Cell : \A t \in Tx : owner[c] = t => tx[t].pc \in Working

LEMMA SameSums == \A f, S : Audit!SumFunctionOnSet(f, S) = SumFunctionOnSet(f, S)
BY DEF Audit!SumFunctionOnSet, SumFunctionOnSet, Audit!FoldFunctionOnSet, FoldFunctionOnSet,
       Audit!MapThenFoldSet, MapThenFoldSet

(* The movements as a recursive function. *)
MovesTo(document, q, c, N, moves) ==
    moves = [n \in 0 .. N |->
                IF n = 0 THEN <<>>
                ELSE IF document[n].cell = c
                     THEN Append(moves[n - 1], Audit!Movement(document, n, q))
                     ELSE moves[n - 1]]

LEMMA MovesExist ==
    ASSUME NEW document, NEW q, NEW c, NEW N \in Nat
    PROVE  \E moves : MovesTo(document, q, c, N, moves)
PROOF
<1> DEFINE Bad == {n \in Nat : ~\E moves : MovesTo(document, q, c, n, moves)}
<1> SUFFICES ASSUME Bad # {} PROVE FALSE
    OBVIOUS
<1>1. PICK n \in Bad : \A k \in Bad : n <= k
    <2> HIDE DEF Bad
    <2>1. Bad \in SUBSET Nat
        BY DEF Bad
    <2> QED BY <2>1, LeastNumber
<1>2. n # 0
    <2>1. MovesTo(document, q, c, 0, [k \in 0 .. 0 |-> <<>>])
        BY DEF MovesTo
    <2> QED BY <1>1, <2>1
<1>3. PICK before : MovesTo(document, q, c, n - 1, before)
    <2>1. n - 1 \in Nat /\ n - 1 \notin Bad
        BY <1>1, <1>2
    <2> QED BY <2>1
<1> DEFINE last == IF document[n].cell = c
                   THEN Append(before[n - 1], Audit!Movement(document, n, q))
                   ELSE before[n - 1]
           moves == [k \in 0 .. n |-> IF k = n THEN last ELSE before[k]]
<1>4. \A k \in 0 .. (n - 1) : before[k] =
            IF k = 0 THEN <<>>
            ELSE IF document[k].cell = c
                 THEN Append(before[k - 1], Audit!Movement(document, k, q))
                 ELSE before[k - 1]
    BY <1>3 DEF MovesTo
<1>5. \A k \in 0 .. n : moves[k] =
            IF k = 0 THEN <<>>
            ELSE IF document[k].cell = c
                 THEN Append(moves[k - 1], Audit!Movement(document, k, q))
                 ELSE moves[k - 1]
    <2> SUFFICES ASSUME NEW k \in 0 .. n
                 PROVE  moves[k] = IF k = 0 THEN <<>>
                                   ELSE IF document[k].cell = c
                                        THEN Append(moves[k - 1], Audit!Movement(document, k, q))
                                        ELSE moves[k - 1]
        OBVIOUS
    <2>1. CASE k = n
        <3>1. moves[k] = last /\ moves[k - 1] = before[n - 1] /\ k # 0
            BY <1>1, <1>2, <2>1
        <3> QED BY <2>1, <3>1
    <2>2. CASE k # n
        <3>1. k \in 0 .. (n - 1) /\ moves[k] = before[k]
            BY <1>1, <2>2
        <3>2. k # 0 => moves[k - 1] = before[k - 1]
            BY <1>1, <3>1
        <3> QED BY <1>4, <3>1, <3>2
    <2> QED BY <2>1, <2>2
<1>6. moves = [k \in 0 .. n |-> moves[k]]
    OBVIOUS
<1>7. MovesTo(document, q, c, n, moves)
    <2> HIDE DEF moves
    <2> QED BY <1>5, <1>6 DEF MovesTo
<1> QED BY <1>1, <1>7

LEMMA MovesUnfold ==
    ASSUME NEW document, NEW q, NEW c, Len(document) \in Nat, NEW n \in 0 .. Len(document)
    PROVE  Audit!MovesAlong(document, q, c)[n] =
                IF n = 0 THEN <<>>
                ELSE IF document[n].cell = c
                     THEN Append(Audit!MovesAlong(document, q, c)[n - 1],
                                 Audit!Movement(document, n, q))
                     ELSE Audit!MovesAlong(document, q, c)[n - 1]
PROOF
<1>1. Audit!MovesAlong(document, q, c)
            = CHOOSE moves : MovesTo(document, q, c, Len(document), moves)
    BY DEF Audit!MovesAlong, MovesTo
<1>2. MovesTo(document, q, c, Len(document), Audit!MovesAlong(document, q, c))
    BY <1>1, MovesExist
<1> DEFINE moves == Audit!MovesAlong(document, q, c)
<1> HIDE DEF moves
<1>3. moves = [k \in 0 .. Len(document) |->
                IF k = 0 THEN <<>>
                ELSE IF document[k].cell = c
                     THEN Append(moves[k - 1], Audit!Movement(document, k, q))
                     ELSE moves[k - 1]]
    BY <1>2 DEF MovesTo, moves
<1>4. moves[n] = IF n = 0 THEN <<>>
                 ELSE IF document[n].cell = c
                      THEN Append(moves[n - 1], Audit!Movement(document, n, q))
                      ELSE moves[n - 1]
    BY <1>3
<1> QED BY <1>4 DEF moves

(* A cell that no line has named is as it was. *)
LEMMA NothingPosted ==
    ASSUME NEW document \in Seq(DocumentLine), NEW n \in 0 .. Len(document), NEW c,
           \A i \in 1 .. n : document[i].cell # c, NEW q
    PROVE  /\ Audit!Total(document, n, c) = 0
           /\ Audit!MovesAlong(document, q, c)[n] = <<>>
PROOF
<1>1. Audit!Total(document, n, c) = 0
    <2>1. {i \in 1 .. n : document[i].cell = c} = {}
        OBVIOUS
    <2> QED BY <2>1, SumEmpty, SameSums DEF Audit!Total
<1>2. Audit!MovesAlong(document, q, c)[n] = <<>>
    <2> DEFINE moves == Audit!MovesAlong(document, q, c)
               Bad == {k \in 0 .. n : moves[k] # <<>>}
    <2> SUFFICES ASSUME Bad # {} PROVE FALSE
        OBVIOUS
    <2>1. PICK k \in Bad : \A j \in Bad : k <= j
        <3> HIDE DEF moves
        <3>1. Bad \in SUBSET Nat
            OBVIOUS
        <3> HIDE DEF Bad
        <3> QED BY <3>1, LeastNumber
    <2>2. k \in 0 .. Len(document) /\ Len(document) \in Nat
        OBVIOUS
    <2>3. k # 0 /\ moves[k] = moves[k - 1]
        BY <2>1, <2>2, MovesUnfold
    <2>4. k - 1 \in Bad
        BY <2>1, <2>3
    <2> QED BY <2>1, <2>4
<1> QED BY <1>1, <1>2

(* One more line. *)
LEMMA OneMoreLine ==
    ASSUME NEW document \in Seq(DocumentLine), NEW n \in 0 .. Len(document), n # Len(document),
           NEW c, NEW q
    PROVE  LET l == document[n + 1]
               moves == Audit!MovesAlong(document, q, c) IN
           IF l.cell = c
           THEN /\ Audit!Total(document, n + 1, c) = Audit!Total(document, n, c) + l.delta
                /\ moves[n + 1] = Append(moves[n], Audit!Movement(document, n + 1, q))
           ELSE /\ Audit!Total(document, n + 1, c) = Audit!Total(document, n, c)
                /\ moves[n + 1] = moves[n]
PROOF
<1> DEFINE l == document[n + 1]
           f == [i \in 1 .. (n + 1) |-> document[i].delta]
           g == [i \in 1 .. n |-> document[i].delta]
           S == {i \in 1 .. n : document[i].cell = c}
           T == {i \in 1 .. (n + 1) : document[i].cell = c}
<1>1. n + 1 \in 1 .. Len(document) /\ Len(document) \in Nat /\ n \in Nat
    OBVIOUS
<1>2. \A i \in 1 .. Len(document) : document[i].delta \in Int
    <2>1. \A i \in 1 .. Len(document) : document[i] \in DocumentLine
        OBVIOUS
    <2>2. \A m \in DocumentLine : m.delta \in Int
        BY DEF DocumentLine
    <2> QED BY <2>1, <2>2
<1>3. /\ Audit!Total(document, n + 1, c) = SumFunctionOnSet(f, T)
      /\ Audit!Total(document, n, c) = SumFunctionOnSet(g, S)
    BY SameSums DEF Audit!Total
<1>4. IsFiniteSet(S)
    <2>1. IsFiniteSet(1 .. n) /\ S \subseteq 1 .. n
        BY <1>1, 1 \in Int, n \in Int, FS_Interval
    <2> HIDE DEF S
    <2> QED BY <2>1, FS_Subset
<1>5. /\ \A i \in S : f[i] = g[i] /\ f[i] \in Int
      /\ n + 1 \notin S /\ f[n + 1] = l.delta /\ l.delta \in Int
      /\ T = IF l.cell = c THEN S \cup {n + 1} ELSE S
    BY <1>1, <1>2
<1>6. \A k : k \in 0 .. Len(document) =>
        Audit!MovesAlong(document, q, c)[k] =
                IF k = 0 THEN <<>>
                ELSE IF document[k].cell = c
                     THEN Append(Audit!MovesAlong(document, q, c)[k - 1],
                                 Audit!Movement(document, k, q))
                     ELSE Audit!MovesAlong(document, q, c)[k - 1]
    BY <1>1, MovesUnfold
<1>7. (n + 1) - 1 = n /\ n + 1 # 0 /\ n + 1 \in 0 .. Len(document)
    BY <1>1
<1>8. Audit!MovesAlong(document, q, c)[n + 1] =
            IF l.cell = c THEN Append(Audit!MovesAlong(document, q, c)[n],
                                      Audit!Movement(document, n + 1, q))
                          ELSE Audit!MovesAlong(document, q, c)[n]
    BY <1>6, <1>7
<1> HIDE DEF f, g, S, T
<1>9. SumFunctionOnSet(f, S) = SumFunctionOnSet(g, S)
    BY <1>4, <1>5, SumSame
<1>10. SumFunctionOnSet(f, S \cup {n + 1}) = SumFunctionOnSet(f, S) + l.delta
    BY <1>4, <1>5, SumAdd
<1> QED BY <1>3, <1>5, <1>8, <1>9, <1>10

LEMMA TotalType ==
    ASSUME NEW document \in Seq(DocumentLine), NEW n \in 0 .. Len(document), NEW c
    PROVE  Audit!Total(document, n, c) \in Int
PROOF
<1> DEFINE f == [i \in 1 .. n |-> document[i].delta]
           S == {i \in 1 .. n : document[i].cell = c}
<1>1. \A i \in 1 .. n : document[i] \in DocumentLine
    OBVIOUS
<1>2. \A i \in S : f[i] \in Int
    BY <1>1 DEF DocumentLine
<1>3. IsFiniteSet(S)
    <2>1. IsFiniteSet(1 .. n) /\ S \subseteq 1 .. n
        BY 1 \in Int, n \in Int, FS_Interval
    <2> HIDE DEF S
    <2> QED BY <2>1, FS_Subset
<1>4. Audit!Total(document, n, c) = SumFunctionOnSet(f, S)
    BY SameSums DEF Audit!Total
<1> HIDE DEF f, S
<1>5. SumFunctionOnSet(f, S) \in Int
    BY <1>2, <1>3, SumType
<1> QED BY <1>4, <1>5

---------------------------------------------------------------------------
(* What a transaction has posted stays so while others move: a step that    *)
(* leaves its lines and its cells alone leaves that alone.                  *)
SameFor(u) ==
    /\ tx'[u].lines = tx[u].lines
    /\ tx'[u].pc = "commit" => tx[u].pc = "commit"
    /\ tx'[u].pc \in Working => tx[u].pc \in Working
    /\ \A c \in Cell :
        /\ owner'[c] = u <=> owner[c] = u
        /\ owner[c] = u => /\ stock'[c].quantity = stock[c].quantity
                           /\ draft'[c].quantity = draft[c].quantity
                           /\ entries'[c] = entries[c]

LEMMA PostedStays ==
    ASSUME NEW u \in Tx, NEW document, NEW n, Posted(u, document, n), SameFor(u)
    PROVE  Posted(u, document, n)'
PROOF
<1>1. /\ Len(tx'[u].lines) = Len(document) - n
      /\ \A i \in 1 .. Len(tx'[u].lines) : tx'[u].lines[i] = document[n + i]
      /\ tx'[u].pc = "commit" => n = Len(document)
    BY DEF Posted, SameFor
<1>2. ASSUME NEW c \in Cell
      PROVE  IF owner'[c] = u
             THEN /\ draft'[c].quantity = stock'[c].quantity + Audit!Total(document, n, c)
                  /\ entries'[c] = Audit!MovesAlong(document, stock'[c].quantity, c)[n]
             ELSE \A i \in 1 .. n : document[i].cell # c
    BY DEF Posted, SameFor
<1> QED BY <1>1, <1>2 DEF Posted

LEMMA PostedSoFarStays ==
    ASSUME PostedSoFar, \A u \in Tx : tx'[u].pc \in Working => SameFor(u)
    PROVE  PostedSoFar'
PROOF
<1> SUFFICES ASSUME NEW u \in Tx, tx'[u].pc \in Working
             PROVE  \E document \in Documents : \E n \in 0 .. Len(document) :
                        Posted(u, document, n)'
    BY DEF PostedSoFar
<1>1. SameFor(u) /\ tx[u].pc \in Working
    BY DEF SameFor
<1>2. PICK document \in Documents : \E n \in 0 .. Len(document) : Posted(u, document, n)
    BY <1>1 DEF PostedSoFar
<1>3. PICK n \in 0 .. Len(document) : Posted(u, document, n)
    BY <1>2
<1>4. Posted(u, document, n)'
    BY <1>1, <1>3, PostedStays
<1> QED BY <1>4

LEMMA RollBackPosted ==
    ASSUME IInv, PostedSoFar, NEW t \in Tx, RollBack(t)
    PROVE  PostedSoFar'
PROOF
<1>1. ASSUME NEW u \in Tx, tx'[u].pc \in Working PROVE SameFor(u)
    <2>1. tx' = [tx EXCEPT ![t].pc = "aborted"] /\ tx \in [Tx -> Progress]
        BY DEF RollBack, IInv, TypeOK
    <2>2. u # t
        BY <1>1, <2>1 DEF Working, Progress
    <2>3. tx'[u] = tx[u]
        BY <2>1, <2>2
    <2>4. u # NoTx /\ t # NoTx
        BY InventoryAssumption
    <2>5. ASSUME NEW c \in Cell
          PROVE  /\ owner'[c] = u <=> owner[c] = u
                 /\ stock' = stock
                 /\ owner[c] = u => draft'[c] = draft[c] /\ entries'[c] = entries[c]
        BY <2>2, <2>4 DEF RollBack, Release
    <2> QED BY <1>1, <2>3, <2>5 DEF SameFor
<1> QED BY <1>1, PostedSoFarStays

LEMMA BeginPosted ==
    ASSUME IInv, PostedSoFar, HoldersWork, NEW t \in Tx, NEW document \in Documents,
           Begin(t, document)
    PROVE  PostedSoFar'
PROOF
<1>1. document \in Seq(DocumentLine) /\ Len(document) \in Nat
    BY InventoryAssumption
<1>2. /\ tx' = [tx EXCEPT ![t].pc = "read", ![t].lines = document] /\ tx \in [Tx -> Progress]
      /\ UNCHANGED <<stock, ledger, owner, draft, entries>>
    BY DEF Begin, IInv, TypeOK
<1>3. tx'[t].pc = "read" /\ tx'[t].lines = document
    BY <1>2 DEF Progress
<1>4. Posted(t, document, 0)'
    <2>1. \A c \in Cell : owner'[c] # t
        BY <1>2 DEF HoldersWork, Working, Begin, At
    <2> QED BY <1>1, <1>3, <2>1 DEF Posted
<1>5. ASSUME NEW u \in Tx, u # t, tx'[u].pc \in Working
      PROVE  \E d \in Documents : \E n \in 0 .. Len(d) : Posted(u, d, n)'
    <2>1. tx'[u] = tx[u]
        BY <1>2, <1>5
    <2>2. SameFor(u)
        BY <1>2, <2>1 DEF SameFor
    <2>3. PICK d \in Documents : \E n \in 0 .. Len(d) : Posted(u, d, n)
        BY <1>5, <2>1 DEF PostedSoFar
    <2>4. PICK n \in 0 .. Len(d) : Posted(u, d, n)
        BY <2>3
    <2>5. Posted(u, d, n)'
        BY <2>2, <2>4, PostedStays
    <2> QED BY <2>5
<1>6. 0 \in 0 .. Len(document)
    BY <1>1
<1> QED BY <1>4, <1>5, <1>6 DEF PostedSoFar

(* A line written is one more line of the document. *)
LEMMA WritePosted ==
    ASSUME IInv, PostedSoFar, NEW t \in Tx, NEW row \in Row,
           tx[t].pc \in {"update", "insert"},
           owner[line(t).cell] \in {t, NoTx},
           row.quantity = Visible(t, line(t).cell).quantity,
           Write(t, row)
    PROVE  PostedSoFar'
PROOF
<1> DEFINE l == line(t)
           c == l.cell
           lines == tx[t].lines
           m == MovementOf(row, l)
<1>1. /\ tx \in [Tx -> Progress] /\ lines \in Seq(DocumentLine) /\ lines # <<>>
      /\ owner \in [Cell -> Tx \cup {NoTx}] /\ draft \in [Cell -> Row]
      /\ entries \in [Cell -> Seq(Movement)]
    BY DEF IInv, TypeOK, Progress, ProgressSound
<1>2. l \in DocumentLine /\ c \in Cell
    BY LineType
<1>3. /\ stock' = stock
      /\ owner' = [owner EXCEPT ![c] = t]
      /\ draft' = [draft EXCEPT ![c] = AppliedTo(row, l)]
      /\ entries' = [entries EXCEPT ![c] = Append(entries[c], m)]
      /\ tx' = [tx EXCEPT ![t] = [pc |-> IF Tail(lines) = <<>> THEN "commit" ELSE "read",
                                  lines |-> Tail(lines), seen |-> NoRow]]
    BY DEF Write
<1>4. t # NoTx
    BY InventoryAssumption
<1>5. PICK document \in Documents : \E n \in 0 .. Len(document) : Posted(t, document, n)
    BY DEF PostedSoFar, Working
<1>6. PICK n \in 0 .. Len(document) : Posted(t, document, n)
    BY <1>5
<1>7. document \in Seq(DocumentLine) /\ Len(document) \in Nat
    BY InventoryAssumption
<1>8. /\ Len(lines) = Len(document) - n /\ Len(lines) \in Nat \ {0}
      /\ \A i \in 1 .. Len(lines) : lines[i] = document[n + i]
    <2>1. /\ Len(lines) = Len(document) - n
          /\ \A i \in 1 .. Len(lines) : lines[i] = document[n + i]
        BY <1>6 DEF Posted
    <2> HIDE DEF lines
    <2>2. Len(lines) \in Nat /\ Len(lines) # 0
        BY <1>1, EmptySeq
    <2> QED BY <2>1, <2>2
<1>9. n # Len(document) /\ n + 1 \in 0 .. Len(document) /\ l = document[n + 1]
    <2>1. l = lines[1] /\ 1 \in 1 .. Len(lines)
        BY <1>1, <1>8 DEF line
    <2> QED BY <1>7, <1>8, <2>1
<1>10. /\ Tail(lines) \in Seq(DocumentLine) /\ Len(Tail(lines)) = Len(lines) - 1
       /\ \A i \in 1 .. Len(Tail(lines)) : Tail(lines)[i] = lines[i + 1]
    BY <1>1, <1>8, HeadTailProperties
<1>11. /\ Len(Tail(lines)) = Len(document) - (n + 1)
       /\ \A i \in 1 .. Len(Tail(lines)) : Tail(lines)[i] = document[(n + 1) + i]
       /\ Tail(lines) = <<>> => n + 1 = Len(document)
    <2>1. \A i \in 1 .. Len(Tail(lines)) : i + 1 \in 1 .. Len(lines) /\ n + (i + 1) = (n + 1) + i
        BY <1>7, <1>8, <1>10
    <2>2. Tail(lines) = <<>> => Len(Tail(lines)) = 0
        BY EmptySeq
    <2> HIDE DEF lines
    <2> DEFINE rest == Tail(lines)
    <2>3. Len(rest) = Len(document) - (n + 1)
        BY <1>6, <1>7, <1>8, <1>10
    <2>4. ASSUME NEW i \in 1 .. Len(rest)
          PROVE  rest[i] = document[(n + 1) + i]
        <3>1. rest[i] = lines[i + 1] /\ i + 1 \in 1 .. Len(lines)
            BY <1>10, <2>1
        <3>2. lines[i + 1] = document[n + (i + 1)]
            BY <1>8, <3>1
        <3> QED BY <2>1, <3>1, <3>2
    <2>5. rest = <<>> => n + 1 = Len(document)
        <3>1. n \in Int /\ Len(document) \in Int
            BY <1>6, <1>7
        <3>2. ASSUME Len(document) - (n + 1) = 0 PROVE n + 1 = Len(document)
            BY <3>1, <3>2
        <3> QED BY <2>2, <2>3, <3>2
    <2> QED BY <2>3, <2>4, <2>5
<1>12. /\ row.quantity = stock[c].quantity + Audit!Total(document, n, c)
       /\ entries[c] = Audit!MovesAlong(document, stock[c].quantity, c)[n]
    <2>1. CASE owner[c] = t
        BY <1>2, <1>6, <2>1 DEF Posted, Visible
    <2>2. CASE owner[c] = NoTx
        <3>1. \A i \in 1 .. n : document[i].cell # c
            BY <1>2, <1>4, <1>6, <2>2 DEF Posted
        <3>2. /\ Audit!Total(document, n, c) = 0
              /\ Audit!MovesAlong(document, stock[c].quantity, c)[n] = <<>>
            BY <1>6, <1>7, <3>1, NothingPosted
        <3>3. entries[c] = <<>> /\ row.quantity = stock[c].quantity /\ stock[c].quantity \in Int
            BY <1>2, <1>4, <2>2 DEF IInv, DraftsContinue, Visible, TypeOK, Row
        <3> QED BY <3>2, <3>3
    <2> QED BY <2>1, <2>2
<1>13. m = Audit!Movement(document, n + 1, stock[c].quantity)
    <2>1. (n + 1) - 1 = n
        BY <1>6, <1>7
    <2> QED BY <1>9, <1>12, <2>1 DEF MovementOf, Audit!Movement, AfterQuantity
<1>14. ASSUME NEW d \in Cell, owner'[d] = t
       PROVE  /\ draft'[d].quantity = stock'[d].quantity + Audit!Total(document, n + 1, d)
              /\ entries'[d] = Audit!MovesAlong(document, stock'[d].quantity, d)[n + 1]
    <2>1. CASE d = c
        <3>1. draft'[d] = AppliedTo(row, l) /\ entries'[d] = Append(entries[c], m)
            BY <1>1, <1>2, <1>3, <2>1
        <3>2. draft'[d].quantity = row.quantity + l.delta
            BY <3>1 DEF AppliedTo, AfterQuantity
        <3>3. /\ Audit!Total(document, n + 1, c) = Audit!Total(document, n, c) + l.delta
              /\ Audit!MovesAlong(document, stock[c].quantity, c)[n + 1] =
                    Append(Audit!MovesAlong(document, stock[c].quantity, c)[n],
                           Audit!Movement(document, n + 1, stock[c].quantity))
            <4>1. l = document[n + 1] /\ document[n + 1].cell = c
                BY <1>9
            <4> HIDE DEF c, l
            <4> QED BY <1>6, <1>7, <1>9, <4>1, OneMoreLine, SMTT(30)
        <3>4. /\ Audit!Total(document, n, c) \in Int /\ stock[c].quantity \in Int
              /\ l.delta \in Int
            BY <1>2, <1>6, <1>7, TotalType DEF IInv, TypeOK, Row, DocumentLine
        <3>5. row.quantity = stock[c].quantity + Audit!Total(document, n, c)
            BY <1>12
        <3>6. draft'[d].quantity = stock[c].quantity + Audit!Total(document, n + 1, c)
            <4> HIDE DEF c, l
            <4> QED BY <3>2, <3>3, <3>4, <3>5
        <3>7. entries'[d] = Audit!MovesAlong(document, stock[c].quantity, c)[n + 1]
            <4> HIDE DEF c, l, m
            <4> QED BY <1>12, <1>13, <3>1, <3>3
        <3> QED BY <1>3, <2>1, <3>6, <3>7
    <2>2. CASE d # c
        <3>1. owner[d] = t /\ draft'[d] = draft[d] /\ entries'[d] = entries[d]
            BY <1>1, <1>3, <1>14, <2>2
        <3>2. /\ Audit!Total(document, n + 1, d) = Audit!Total(document, n, d)
              /\ Audit!MovesAlong(document, stock[d].quantity, d)[n + 1] =
                    Audit!MovesAlong(document, stock[d].quantity, d)[n]
            BY <1>6, <1>7, <1>9, <2>2, OneMoreLine, SMTT(30)
        <3> QED BY <1>3, <1>6, <3>1, <3>2 DEF Posted
    <2> QED BY <2>1, <2>2
<1>15. ASSUME NEW d \in Cell, owner'[d] # t, NEW i \in 1 .. (n + 1)
       PROVE  document[i].cell # d
    <2>1. d # c /\ owner[d] # t
        BY <1>1, <1>2, <1>3, <1>15
    <2>2. i # n + 1 => i \in 1 .. n
        BY <1>6, <1>7
    <2> QED BY <1>6, <1>9, <2>1, <2>2 DEF Posted
<1>16. Posted(t, document, n + 1)'
    <2>1. tx'[t].lines = Tail(lines) /\ (tx'[t].pc = "commit" => Tail(lines) = <<>>)
        BY <1>1, <1>3
    <2> HIDE DEF lines, c, l, m
    <2> QED BY <1>11, <1>14, <1>15, <2>1 DEF Posted
<1>17. ASSUME NEW u \in Tx, u # t, tx'[u].pc \in Working
       PROVE  \E d \in Documents : \E k \in 0 .. Len(d) : Posted(u, d, k)'
    <2>1. tx'[u] = tx[u]
        BY <1>1, <1>3, <1>17
    <2>2. u # NoTx
        BY InventoryAssumption
    <2>3. SameFor(u)
        <3>1. ASSUME NEW d \in Cell
              PROVE  /\ owner'[d] = u <=> owner[d] = u
                     /\ owner[d] = u => draft'[d] = draft[d] /\ entries'[d] = entries[d]
            BY <1>1, <1>2, <1>3, <1>17, <2>2
        <3> QED BY <1>3, <2>1, <3>1 DEF SameFor
    <2>4. PICK d \in Documents : \E k \in 0 .. Len(d) : Posted(u, d, k)
        BY <1>17, <2>1 DEF PostedSoFar
    <2>5. PICK k \in 0 .. Len(d) : Posted(u, d, k)
        BY <2>4
    <2>6. Posted(u, d, k)'
        BY <2>3, <2>5, PostedStays
    <2> QED BY <2>6
<1> QED BY <1>9, <1>16, <1>17 DEF PostedSoFar

(* A step within a line: t remembers something, nothing is written. *)
LEMMA WithinLinePosted ==
    ASSUME PostedSoFar, NEW t \in Tx, tx[t].pc \in Working,
           tx'[t].lines = tx[t].lines, tx'[t].pc # "commit",
           \A u \in Tx : u # t => tx'[u] = tx[u],
           UNCHANGED <<stock, ledger, owner, draft, entries>>
    PROVE  PostedSoFar'
PROOF
<1>1. ASSUME NEW u \in Tx, tx'[u].pc \in Working PROVE SameFor(u)
    <2>1. CASE u = t
        BY <2>1 DEF SameFor
    <2>2. CASE u # t
        BY <2>2 DEF SameFor
    <2> QED BY <2>1, <2>2
<1> QED BY <1>1, PostedSoFarStays

LEMMA CommitPosted ==
    ASSUME IInv, PostedSoFar, NEW t \in Tx, Commit(t)
    PROVE  PostedSoFar'
PROOF
<1>1. ASSUME NEW u \in Tx, tx'[u].pc \in Working PROVE SameFor(u)
    <2>1. tx' = [tx EXCEPT ![t].pc = "committed"] /\ tx \in [Tx -> Progress]
        BY DEF Commit, IInv, TypeOK
    <2>2. u # t
        BY <1>1, <2>1 DEF Working, Progress
    <2>3. tx'[u] = tx[u]
        BY <2>1, <2>2
    <2>4. u # NoTx /\ t # NoTx
        BY InventoryAssumption
    <2>5. ASSUME NEW c \in Cell
          PROVE  /\ owner'[c] = u <=> owner[c] = u
                 /\ owner[c] = u => /\ stock'[c] = stock[c] /\ draft'[c] = draft[c]
                                    /\ entries'[c] = entries[c]
        BY <2>2, <2>4 DEF Commit, Release
    <2> QED BY <1>1, <2>3, <2>5 DEF SameFor
<1> QED BY <1>1, PostedSoFarStays

(* Only a transaction in progress holds cells. *)
LEMMA ReleaseHolders ==
    ASSUME IInv, HoldersWork, NEW t \in Tx, Release(t), \A u \in Tx : u # t => tx'[u] = tx[u]
    PROVE  HoldersWork'
PROOF
<1> SUFFICES ASSUME NEW c \in Cell, NEW u \in Tx, owner'[c] = u
             PROVE  tx'[u].pc \in Working
    BY DEF HoldersWork
<1>1. u # NoTx /\ t # NoTx
    BY InventoryAssumption
<1>2. owner[c] = u /\ u # t
    BY <1>1 DEF Release
<1> QED BY <1>2 DEF HoldersWork

LEMMA WriteHolders ==
    ASSUME IInv, HoldersWork, NEW t \in Tx, NEW row, Write(t, row)
    PROVE  HoldersWork'
PROOF
<1> SUFFICES ASSUME NEW c \in Cell, NEW u \in Tx, owner'[c] = u
             PROVE  tx'[u].pc \in Working
    BY DEF HoldersWork
<1>1. tx \in [Tx -> Progress] /\ owner \in [Cell -> Tx \cup {NoTx}]
    BY DEF IInv, TypeOK
<1>2. tx'[t].pc \in {"commit", "read"} /\ (u # t => tx'[u] = tx[u])
    BY <1>1 DEF Write
<1>3. u # t => owner[c] = u
    BY <1>1 DEF Write
<1> QED BY <1>2, <1>3 DEF HoldersWork, Working

LEMMA WithinLineHolders ==
    ASSUME HoldersWork, NEW t \in Tx, tx'[t].pc \in Working, owner' = owner,
           \A u \in Tx : u # t => tx'[u] = tx[u]
    PROVE  HoldersWork'
BY DEF HoldersWork

LEMMA StepPosted ==
    ASSUME IInv, PostedSoFar, HoldersWork, NEW t \in Tx, Step(t)
    PROVE  PostedSoFar' /\ HoldersWork'
PROOF
<1> USE DEF At
<1> DEFINE c == line(t).cell
<1>1. tx \in [Tx -> Progress] /\ tx[t].seen \in Row
    BY DEF IInv, TypeOK, Progress
<1>2. CASE RollBack(t)
    <2>1. Release(t) /\ \A u \in Tx : u # t => tx'[u] = tx[u]
        BY <1>1, <1>2 DEF RollBack
    <2> QED BY <1>2, <2>1, RollBackPosted, ReleaseHolders
<1>3. CASE Commit(t)
    <2>1. Release(t) /\ \A u \in Tx : u # t => tx'[u] = tx[u]
        BY <1>1, <1>3 DEF Commit
    <2> QED BY <1>3, <2>1, CommitPosted, ReleaseHolders
<1>4. CASE /\ tx[t].pc \in {"update", "insert"} /\ owner[c] \in {t, NoTx}
           /\ tx[t].seen.quantity = Visible(t, c).quantity
           /\ Write(t, tx[t].seen)
    BY <1>1, <1>4, WritePosted, WriteHolders
<1>5. CASE /\ tx[t].pc \in Working
           /\ \/ tx' = [tx EXCEPT ![t].pc = "update", ![t].seen = Visible(t, c)]
              \/ tx' = [tx EXCEPT ![t].pc = "insert"]
           /\ UNCHANGED <<stock, ledger, owner, draft, entries>>
    <2>1. /\ tx'[t].lines = tx[t].lines /\ tx'[t].pc \in {"update", "insert"}
          /\ \A u \in Tx : u # t => tx'[u] = tx[u]
        BY <1>1, <1>5 DEF Progress
    <2>2. tx'[t].pc # "commit" /\ tx'[t].pc \in Working
        BY <2>1 DEF Working
    <2> QED BY <1>5, <2>1, <2>2, WithinLinePosted, WithinLineHolders
<1>6. CASE Read(t)
    BY <1>2, <1>5, <1>6 DEF Read, Working
<1>7. CASE Update(t)
    <2>1. CASE Matches(t) /\ owner[c] \in {t, NoTx} /\ Write(t, tx[t].seen)
        BY <1>4, <1>7, <2>1 DEF Update, Matches
    <2>2. CASE /\ tx' = [tx EXCEPT ![t].pc = "insert"]
               /\ UNCHANGED <<stock, ledger, owner, draft, entries>>
        BY <1>5, <1>7, <2>2 DEF Update, Working
    <2> QED BY <1>2, <1>7, <2>1, <2>2 DEF Update
<1>8. CASE Insert(t)
    <2>1. tx[t].pc = "insert" /\ owner[c] \in {t, NoTx}
        BY <1>8 DEF Insert
    <2>2. CASE ~Visible(t, c).exists /\ Write(t, tx[t].seen)
        <3>1. tx[t].seen.quantity = 0
            BY <2>1 DEF IInv, ProgressSound
        <3>2. Visible(t, c).quantity = 0
            BY <2>1, <2>2, VisibleRow, LineType
        <3> QED BY <1>4, <2>1, <2>2, <3>1, <3>2
    <2> QED BY <1>2, <1>8, <2>2 DEF Insert
<1> QED BY <1>3, <1>6, <1>7, <1>8 DEF Step

LEMMA InitPosted == Init => PostedSoFar /\ HoldersWork
BY InventoryAssumption DEF Init, PostedSoFar, HoldersWork, Working

LEMMA NextPosted ==
    ASSUME IInv, PostedSoFar, HoldersWork, [Next]_vars
    PROVE  PostedSoFar' /\ HoldersWork'
PROOF
<1>1. ASSUME NEW t \in Tx, NEW document \in Documents, Begin(t, document)
      PROVE  PostedSoFar' /\ HoldersWork'
    <2>1. /\ owner' = owner /\ tx'[t].pc \in Working
          /\ \A u \in Tx : u # t => tx'[u] = tx[u]
        BY <1>1 DEF Begin, IInv, TypeOK, Progress, Working
    <2> QED BY <1>1, <2>1, BeginPosted, WithinLineHolders
<1>2. ASSUME NEW t \in Tx, Step(t) PROVE PostedSoFar' /\ HoldersWork'
    BY <1>2, StepPosted
<1>3. ASSUME NEW t \in Tx, Lost(t) \/ DeadlockVictim(t)
      PROVE  PostedSoFar' /\ HoldersWork'
    <2>1. RollBack(t)
        BY <1>3 DEF Lost, DeadlockVictim
    <2>2. Release(t) /\ \A u \in Tx : u # t => tx'[u] = tx[u]
        BY <2>1 DEF RollBack, IInv, TypeOK
    <2> QED BY <2>1, <2>2, RollBackPosted, ReleaseHolders
<1>4. CASE UNCHANGED vars
    <2>1. \A u \in Tx : SameFor(u)
        BY <1>4 DEF vars, SameFor
    <2>2. HoldersWork'
        BY <1>4 DEF vars, HoldersWork
    <2> QED BY <2>1, <2>2, PostedSoFarStays
<1> QED BY <1>1, <1>2, <1>3, <1>4 DEF Next

(* A commit posts the document. *)
LEMMA CommitPosts ==
    ASSUME IInv, PostedSoFar, NEW t \in Tx, Commit(t)
    PROVE  \E document \in Documents : Audit!Post(document)
PROOF
<1>1. PICK document \in Documents : \E n \in 0 .. Len(document) : Posted(t, document, n)
    BY DEF PostedSoFar, Working, Commit, At
<1>2. PICK n \in 0 .. Len(document) : Posted(t, document, n)
    BY <1>1
<1> DEFINE all == Len(document)
<1>3. n = all
    BY <1>2 DEF Posted, Commit, At
<1>4. document \in Seq(DocumentLine) /\ n \in 0 .. Len(document)
    BY InventoryAssumption
<1>5. ASSUME NEW c \in Cell
      PROVE  /\ stock'[c].quantity = stock[c].quantity + Audit!Total(document, all, c)
             /\ ledger'[c] = ledger[c] \o Audit!Movements(document, stock[c].quantity, c)
    <2>1. /\ stock'[c] = IF owner[c] = t THEN draft[c] ELSE stock[c]
          /\ ledger'[c] = IF owner[c] = t THEN ledger[c] \o entries[c] ELSE ledger[c]
        BY DEF Commit
    <2>2. CASE owner[c] = t
        <3>1. /\ draft[c].quantity = stock[c].quantity + Audit!Total(document, all, c)
              /\ entries[c] = Audit!MovesAlong(document, stock[c].quantity, c)[all]
            BY <1>2, <1>3, <2>2 DEF Posted
        <3> QED BY <2>1, <2>2, <3>1 DEF Audit!Movements
    <2>3. CASE owner[c] # t
        <3>1. \A i \in 1 .. n : document[i].cell # c
            BY <1>2, <2>3 DEF Posted
        <3>2. /\ Audit!Total(document, n, c) = 0
              /\ Audit!MovesAlong(document, stock[c].quantity, c)[n] = <<>>
            BY <1>4, <3>1, NothingPosted
        <3>3. stock[c].quantity \in Int /\ ledger[c] \in Seq(Movement)
            BY DEF IInv, TypeOK, Row
        <3>4. ledger[c] \o <<>> = ledger[c]
            BY <3>3, ConcatEmptySeq
        <3> HIDE DEF all
        <3> QED BY <1>3, <2>1, <2>3, <3>2, <3>3, <3>4 DEF Audit!Movements, all
    <2> QED BY <2>2, <2>3
<1>6. [c \in Cell |-> stock'[c].quantity]
            = [c \in Cell |-> [d \in Cell |-> stock[d].quantity][c]
                                + Audit!Total(document, all, c)]
    BY <1>5
<1>7. ledger' = [c \in Cell |-> ledger[c]
                    \o Audit!Movements(document, [d \in Cell |-> stock[d].quantity][c], c)]
    <2>1. ledger' = [c \in Cell |-> ledger'[c]]
        BY DEF Commit
    <2>2. ASSUME NEW c \in Cell
          PROVE  ledger'[c] = ledger[c]
                    \o Audit!Movements(document, [d \in Cell |-> stock[d].quantity][c], c)
        BY <1>5
    <2> QED BY <2>1, <2>2
<1>8. Audit!Post(document)
    BY <1>6, <1>7 DEF Audit!Post
<1> QED BY <1>8

LEMMA NextPosts ==
    ASSUME IInv, PostedSoFar, [Next]_vars
    PROVE  [Audit!Next]_(Audit!vars)
PROOF
<1>1. ASSUME UNCHANGED <<stock, ledger>> PROVE UNCHANGED Audit!vars
    BY <1>1 DEF Audit!vars
<1>2. ASSUME NEW t \in Tx, NEW document \in Documents, Begin(t, document)
      PROVE  UNCHANGED Audit!vars
    BY <1>1, <1>2 DEF Begin
<1>3. ASSUME NEW t \in Tx, Read(t) \/ Update(t) \/ Insert(t)
      PROVE  UNCHANGED Audit!vars
    <2>1. UNCHANGED <<stock, ledger>>
        BY <1>3 DEF Read, Update, Insert, Write, RollBack
    <2> QED BY <1>1, <2>1
<1>4. ASSUME NEW t \in Tx, Commit(t)
      PROVE  Audit!Next
    BY <1>4, CommitPosts DEF Audit!Next
<1>5. ASSUME NEW t \in Tx, Lost(t) \/ DeadlockVictim(t)
      PROVE  UNCHANGED Audit!vars
    BY <1>1, <1>5 DEF Lost, DeadlockVictim, RollBack
<1>6. CASE UNCHANGED vars
    BY <1>1, <1>6 DEF vars
<1> QED BY <1>2, <1>3, <1>4, <1>5, <1>6 DEF Next, Step

(* Whatever the interleaving, what the committed rows and movements show is *)
(* documents posted whole, one after the other: a commit is the posting of  *)
(* its document on the quantities that stand at that moment, and no other   *)
(* step shows.                                                              *)
THEOREM WholeDocuments == Spec => PostsWholeDocuments
PROOF
<1>1. Init => Audit!Init
    BY DEF Init, Audit!Init, NoRow
<1>2. IInv /\ PostedSoFar /\ HoldersWork /\ [Next]_vars
            => (PostedSoFar /\ HoldersWork)' /\ [Audit!Next]_(Audit!vars)
    BY NextPosted, NextPosts
<1> QED BY InitIInv, NextIInv, InitPosted, <1>1, <1>2, PTL
        DEF Spec, PostsWholeDocuments, Audit!Spec
===============================================================================
