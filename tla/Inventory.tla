------------------------------ MODULE Inventory ------------------------------
(***************************************************************************)
(* The single writer of the stock: InventoryDomainService.recordMovement    *)
(* and PrismaInventoryRepository.recordMovement                             *)
(* (backend/src/modules/inventory), as concurrent transactions at READ      *)
(* COMMITTED execute it.                                                    *)
(*                                                                          *)
(* A transaction posts a document line by line.  For each line it reads the *)
(* inventory row, then updates it where quantity still has the value read,  *)
(* or inserts it when it was not there, then inserts one movement.  A row   *)
(* written stays locked until the transaction ends; a read never waits and  *)
(* sees the last committed version, or the transaction's own.               *)
(***************************************************************************)
EXTENDS Integers, SequencesExt, AverageCost

CONSTANTS
    Tx,             \* transactions, each posting one document
    Cell,           \* (warehouse, product) pairs, the unique key of inventories
    Documents,      \* the documents a transaction may post: sequences of lines
    AllowNegative,  \* setting inventory.allowNegativeStock
    NoTx            \* nobody holds the row

(* What a caller of InventoryDomainService passes for one line: increase     *)
(* gives a cost and no check; decrease, transfer OUT and adjust ADJUSTMENT   *)
(* check; adjust COUNT neither.                                              *)
DocumentLine == [cell : Cell, delta : Int, unitCost : Nat \cup {NoCost},
                 check : BOOLEAN]

ASSUME InventoryAssumption ==
    /\ Documents \subseteq Seq(DocumentLine)
    /\ AllowNegative \in BOOLEAN
    /\ NoTx \notin Tx

VARIABLES
    stock,      \* stock[c]: the committed row of inventories
    ledger,     \* ledger[c]: the committed rows of inventory_movements
    owner,      \* owner[c]: the transaction that wrote c and has not ended
    draft,      \* draft[c]: the row as its owner wrote it
    entries,    \* entries[c]: the movements its owner inserted
    tx          \* tx[t]: progress of t's callback

vars == <<stock, ledger, owner, draft, entries, tx>>

Row == [exists : BOOLEAN, quantity : Int, avgCost : Int]
NoRow == [exists |-> FALSE, quantity |-> 0, avgCost |-> 0]
Movement == [before : Int, delta : Int, after : Int, unitCost : Nat \cup {NoCost}]
Progress == [pc : {"idle", "read", "update", "insert", "commit", "committed", "aborted"},
             lines : Seq(DocumentLine), seen : Row]

TypeOK ==
    /\ stock \in [Cell -> Row]
    /\ ledger \in [Cell -> Seq(Movement)]
    /\ owner \in [Cell -> Tx \cup {NoTx}]
    /\ draft \in [Cell -> Row]
    /\ entries \in [Cell -> Seq(Movement)]
    /\ tx \in [Tx -> Progress]

Init ==
    /\ stock = [c \in Cell |-> NoRow]
    /\ ledger = [c \in Cell |-> <<>>]
    /\ owner = [c \in Cell |-> NoTx]
    /\ draft = [c \in Cell |-> NoRow]
    /\ entries = [c \in Cell |-> <<>>]
    /\ tx = [t \in Tx |-> [pc |-> "idle", lines |-> <<>>, seen |-> NoRow]]

---------------------------------------------------------------------------
At(t, step) == tx[t].pc = step
line(t) == Head(tx[t].lines)

(* The version of c that a statement of t sees.                             *)
Visible(t, c) == IF owner[c] = t THEN draft[c] ELSE stock[c]

(* applyInventoryDelta on the row read. *)
AppliedTo(row, l) ==
    [exists |-> TRUE,
     quantity |-> AfterQuantity(row.quantity, l.delta),
     avgCost |-> AverageAfter(row.quantity, row.avgCost, l.delta, l.unitCost)]

MovementOf(row, l) ==
    [before |-> row.quantity, delta |-> l.delta,
     after |-> AfterQuantity(row.quantity, l.delta), unitCost |-> l.unitCost]

(* Mutant of Insufficient: the quantity before the movement is checked.     *)
InsufficientBefore(row, l) == l.check /\ ~AllowNegative /\ row.quantity < 0

Insufficient(row, l) ==
    l.check /\ ~AllowNegative /\ AfterQuantity(row.quantity, l.delta) < 0

(* What a transaction that ends leaves behind: no lock and no version.      *)
Release(t) ==
    /\ owner' = [c \in Cell |-> IF owner[c] = t THEN NoTx ELSE owner[c]]
    /\ draft' = [c \in Cell |-> IF owner[c] = t THEN NoRow ELSE draft[c]]
    /\ entries' = [c \in Cell |-> IF owner[c] = t THEN <<>> ELSE entries[c]]

(* Mutant of RollBack: the lines written so far stay. *)
RollBackTheRest(t) ==
    /\ stock' = [c \in Cell |-> IF owner[c] = t THEN draft[c] ELSE stock[c]]
    /\ ledger' = [c \in Cell |-> IF owner[c] = t THEN ledger[c] \o entries[c]
                                                 ELSE ledger[c]]
    /\ Release(t)
    /\ tx' = [tx EXCEPT ![t].pc = "aborted"]

(* An error thrown in the callback, or by the database, rolls back.         *)
RollBack(t) ==
    /\ Release(t)
    /\ tx' = [tx EXCEPT ![t].pc = "aborted"]
    /\ UNCHANGED <<stock, ledger>>

(* The row is written and locked, and the movement inserted.                *)
Write(t, row) ==
    LET c == line(t).cell
        rest == Tail(tx[t].lines)
    IN  /\ draft' = [draft EXCEPT ![c] = AppliedTo(row, line(t))]
        /\ entries' = [entries EXCEPT ![c] = Append(@, MovementOf(row, line(t)))]
        /\ owner' = [owner EXCEPT ![c] = t]
        /\ tx' = [tx EXCEPT ![t] = [pc |-> IF rest = <<>> THEN "commit" ELSE "read",
                                    lines |-> rest, seen |-> NoRow]]
        /\ UNCHANGED <<stock, ledger>>

---------------------------------------------------------------------------
(* A module opens its transaction with the lines of a document.             *)
Begin(t, document) ==
    /\ At(t, "idle")
    /\ document # <<>>
    /\ tx' = [tx EXCEPT ![t].pc = "read", ![t].lines = document]
    /\ UNCHANGED <<stock, ledger, owner, draft, entries>>

(* findUnique, applyInventoryDelta and the check for negative stock.        *)
Read(t) ==
    LET row == Visible(t, line(t).cell) IN
    /\ At(t, "read")
    /\ \/ Insufficient(row, line(t)) /\ RollBack(t)
       \/ /\ ~Insufficient(row, line(t))
          /\ tx' = [tx EXCEPT ![t].pc = "update", ![t].seen = row]
          /\ UNCHANGED <<stock, ledger, owner, draft, entries>>

(* Mutant of Matches: a blind update. *)
MatchesAnyQuantity(t) == Visible(t, line(t).cell).exists

(* The WHERE clause of the update: nothing but the quantity is compared.    *)
Matches(t) ==
    LET row == Visible(t, line(t).cell) IN
    row.exists /\ row.quantity = tx[t].seen.quantity

(* Mutant of Update: a conflict repeats the statement with the value read   *)
(* before instead of failing.                                               *)
UpdateAgain(t) ==
    /\ At(t, "update")
    /\ \/ /\ Matches(t)
          /\ owner[line(t).cell] \in {t, NoTx}
          /\ Write(t, tx[t].seen)
       \/ ~Matches(t) /\ tx[t].seen.exists /\ UNCHANGED vars
       \/ /\ ~Matches(t)
          /\ ~tx[t].seen.exists
          /\ tx' = [tx EXCEPT ![t].pc = "insert"]
          /\ UNCHANGED <<stock, ledger, owner, draft, entries>>

(* updateMany WHERE quantity = beforeQuantity.  A matching row that another  *)
(* transaction has updated makes the statement wait and then match again; a  *)
(* row that another has inserted and not committed is not seen at all.       *)
Update(t) ==
    /\ At(t, "update")
    /\ \/ /\ Matches(t)
          /\ owner[line(t).cell] \in {t, NoTx}
          /\ Write(t, tx[t].seen)
       \/ ~Matches(t) /\ tx[t].seen.exists /\ RollBack(t)
       \/ /\ ~Matches(t)
          /\ ~tx[t].seen.exists
          /\ tx' = [tx EXCEPT ![t].pc = "insert"]
          /\ UNCHANGED <<stock, ledger, owner, draft, entries>>

(* create: the unique key makes a second insert wait for the first to end,  *)
(* and refuses it if the first committed.                                   *)
Insert(t) ==
    LET c == line(t).cell IN
    /\ At(t, "insert")
    /\ owner[c] \in {t, NoTx}
    /\ \/ ~Visible(t, c).exists /\ Write(t, tx[t].seen)
       \/ Visible(t, c).exists /\ RollBack(t)

Commit(t) ==
    /\ At(t, "commit")
    /\ stock' = [c \in Cell |-> IF owner[c] = t THEN draft[c] ELSE stock[c]]
    /\ ledger' = [c \in Cell |-> IF owner[c] = t THEN ledger[c] \o entries[c]
                                                 ELSE ledger[c]]
    /\ Release(t)
    /\ tx' = [tx EXCEPT ![t].pc = "committed"]

(* The process or its connection is lost: PostgreSQL rolls back.            *)
Lost(t) ==
    /\ tx[t].pc \in {"read", "update", "insert", "commit"}
    /\ RollBack(t)

---------------------------------------------------------------------------
(* PostgreSQL's deadlock detector: of the transactions that wait for each   *)
(* other it aborts one.  Callers do not sort their lines.                   *)
WaitsFor(t) ==
    LET holder == owner[line(t).cell] IN
    IF tx[t].pc \in {"update", "insert"} /\ holder \notin {t, NoTx}
       /\ (tx[t].pc = "update" => Matches(t))
    THEN {holder} ELSE {}

Deadlocked(t) ==
    \E S \in SUBSET Tx : t \in S /\ \A u \in S : WaitsFor(u) # {} /\ WaitsFor(u) \subseteq S

DeadlockVictim(t) == Deadlocked(t) /\ RollBack(t)

---------------------------------------------------------------------------
Step(t) == Read(t) \/ Update(t) \/ Insert(t) \/ Commit(t)

Next ==
    \E t \in Tx :
        \/ \E document \in Documents : Begin(t, document)
        \/ Step(t)
        \/ Lost(t)
        \/ DeadlockVictim(t)

Fairness == \A t \in Tx : WF_vars(Step(t)) /\ WF_vars(DeadlockVictim(t))

Spec == Init /\ [][Next]_vars
FairSpec == Spec /\ Fairness
---------------------------------------------------------------------------
(* Properties *)

(* The movements of a cell form a chain from 0: each starts at the quantity *)
(* the one before it ended at.                                              *)
Chained(start, moves) ==
    \A i \in 1 .. Len(moves) :
        /\ moves[i].after = moves[i].before + moves[i].delta
        /\ moves[i].before = IF i = 1 THEN start ELSE moves[i - 1].after

LastAfter(start, moves) == IF moves = <<>> THEN start ELSE moves[Len(moves)].after

(* The stock is what its movements say: no update is lost, none is applied  *)
(* twice and every movement's beforeQuantity is what really stood there     *)
(* (ADR-0007: compare-and-swap instead of a blind upsert).                  *)
StockIsLedger ==
    \A c \in Cell :
        /\ Chained(0, ledger[c])
        /\ stock[c].quantity = LastAfter(0, ledger[c])

(* While negative stock is not allowed, and every line that takes stock out *)
(* is checked, no committed quantity is negative.                           *)
OutgoingChecked ==
    \A document \in Documents : \A i \in 1 .. Len(document) :
        document[i].delta < 0 => document[i].check

NoNegativeStock ==
    OutgoingChecked /\ ~AllowNegative => \A c \in Cell : stock[c].quantity >= 0

(* A transaction that has begun ends, also when two of them wait for each   *)
(* other's rows.                                                            *)
EveryTransactionEnds ==
    \A t \in Tx : tx[t].pc = "read" ~> tx[t].pc \in {"committed", "aborted"}

(* The rows and movements as an auditor sees them, document by document.    *)
Audit == INSTANCE StockLedger WITH
    quantity <- [c \in Cell |-> stock[c].quantity],
    journal <- ledger

(* Interleaved transactions amount to documents posted one at a time.       *)
PostsWholeDocuments == Audit!Spec
---------------------------------------------------------------------------
(* The inductive strengthening of the properties above (InventoryProofs).   *)

(* Rows not yet inserted count 0; a cell nobody holds has no draft; the     *)
(* draft of a held cell continues the committed chain.                      *)
DraftsContinue ==
    \A c \in Cell :
        /\ ~stock[c].exists => stock[c].quantity = 0
        /\ owner[c] = NoTx => entries[c] = <<>>
        /\ owner[c] # NoTx =>
            /\ draft[c].exists
            /\ Chained(stock[c].quantity, entries[c])
            /\ draft[c].quantity = LastAfter(stock[c].quantity, entries[c])

(* What a callback in progress remembers. *)
ProgressSound ==
    \A t \in Tx :
        /\ tx[t].pc \in {"read", "update", "insert"} => tx[t].lines # <<>>
        /\ ~tx[t].seen.exists => tx[t].seen.quantity = 0
        /\ tx[t].pc = "insert" => ~tx[t].seen.exists

IInv == TypeOK /\ StockIsLedger /\ DraftsContinue /\ ProgressSound

(* The same for negative stock: drafts and the rows read are not negative   *)
(* either, and the line about to be written will not make them so.          *)
DraftsNotNegative ==
    /\ \A c \in Cell : stock[c].quantity >= 0 /\ draft[c].quantity >= 0
    /\ \A t \in Tx :
        /\ \A i \in 1 .. Len(tx[t].lines) :
                tx[t].lines[i].delta < 0 => tx[t].lines[i].check
        /\ tx[t].pc \in {"update", "insert"} =>
                AfterQuantity(tx[t].seen.quantity, line(t).delta) >= 0
=============================================================================
