----------------------------- MODULE StockLedger -----------------------------
(***************************************************************************)
(* What the inventory promises its callers (docs/architecture/adr/          *)
(* ADR-0005-single-writer.md, ADR-0007-optimistic-lock.md): a document is   *)
(* posted as a whole, on the quantities that stand at that moment, and      *)
(* leaves one immutable movement per line.                                  *)
(***************************************************************************)
EXTENDS Integers, Sequences, Functions

CONSTANTS Cell, Documents

VARIABLES
    quantity,   \* quantity[c]: units of c
    journal     \* journal[c]: the movements of c, oldest first

vars == <<quantity, journal>>

Init ==
    /\ quantity = [c \in Cell |-> 0]
    /\ journal = [c \in Cell |-> <<>>]

(* What the first n lines of a document do to the quantity of c.            *)
Total(document, n, c) ==
    SumFunctionOnSet([i \in 1 .. n |-> document[i].delta],
                     {i \in 1 .. n : document[i].cell = c})

(* The movement of line n, where the quantity of its cell was q at first.   *)
Movement(document, n, q) ==
    LET before == q + Total(document, n - 1, document[n].cell) IN
    [before |-> before, delta |-> document[n].delta,
     after |-> before + document[n].delta, unitCost |-> document[n].unitCost]

(* The movements the first n lines leave on c, for each n up to all of them. *)
MovesAlong(document, q, c) ==
    LET moves[n \in 0 .. Len(document)] ==
            IF n = 0 THEN <<>>
            ELSE IF document[n].cell = c
                 THEN Append(moves[n - 1], Movement(document, n, q))
                 ELSE moves[n - 1]
    IN  moves

Movements(document, q, c) == MovesAlong(document, q, c)[Len(document)]

Post(document) ==
    /\ quantity' = [c \in Cell |-> quantity[c] + Total(document, Len(document), c)]
    /\ journal' = [c \in Cell |-> journal[c] \o Movements(document, quantity[c], c)]

Next == \E document \in Documents : Post(document)

Spec == Init /\ [][Next]_vars
==============================================================================
