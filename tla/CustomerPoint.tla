----------------------------- MODULE CustomerPoint -----------------------------
(***************************************************************************)
(* The points of one customer (backend/src/modules/customer-point): a       *)
(* ledger whose last entry carries the balance, and Customer.totalPoint, a  *)
(* cache that a subscriber overwrites with the balance of each event it is  *)
(* given.  Points are added and used by calls of their own, and used by a   *)
(* checkout inside its transaction, which may still roll back.              *)
(*                                                                          *)
(* The ledger is the sequence of its entries in the order of createdAt,     *)
(* taken to be the order of the commits: the entries are inserted under the *)
(* lock of the customer, at least a millisecond apart.                      *)
(***************************************************************************)
EXTENDS Integers, SequencesExt

CONSTANTS
    PointCall,      \* calls that add or use points, checkouts among them
    Point,          \* what a call adds (positive) or uses (negative)
    Crashes,        \* whether the server may die
    Nobody          \* no call

CustomerPointAssumption ==
    /\ Point \subseteq Int \ {0} /\ Crashes \in BOOLEAN
    /\ Nobody \notin PointCall

VARIABLES
    ledger,         \* customer_point_ledgers of the customer
    customerLock,   \* who holds the row of the customer
    points,         \* points[c]: the transaction of call c, then its event
    totalPoint      \* Customer.totalPoint

pointVars == <<ledger, customerLock, points, totalPoint>>

Entry == [point : Int, balance : Int]

(* From "insert" on the call has read a balance; a committed call is at     *)
(* "publish" until its audit log is written, and at "sync" while the        *)
(* subscriber handles the event it has published.                           *)
PointTransaction == {"lock", "read", "insert"}
PointStep == {"idle", "publish", "sync", "done", "failed", "dead"} \cup PointTransaction

TypeOK ==
    /\ ledger \in Seq(Entry)
    /\ customerLock \in PointCall \cup {Nobody}
    /\ points \in [PointCall -> [pc : PointStep, point : Point \cup {0}, balance : Int]]
    /\ totalPoint \in Int

Init ==
    /\ ledger = <<>>
    /\ customerLock = Nobody
    /\ points = [c \in PointCall |-> [pc |-> "idle", point |-> 0, balance |-> 0]]
    /\ totalPoint = 0

---------------------------------------------------------------------------
Balance == IF ledger = <<>> THEN 0 ELSE Last(ledger).balance

GoTo(c, step) == points' = [points EXCEPT ![c].pc = step]
Unlocked(c) == customerLock' = IF customerLock = c THEN Nobody ELSE customerLock

StartPoints(c, point) ==
    /\ points[c].pc = "idle"
    /\ points' = [points EXCEPT ![c] = [@ EXCEPT !.pc = "lock", !.point = point]]
    /\ UNCHANGED <<ledger, customerLock, totalPoint>>

(* Mutant of LockCustomer: the row is read without FOR UPDATE. *)
ReadCustomer(c) ==
    /\ points[c].pc = "lock"
    /\ GoTo(c, "read")
    /\ UNCHANGED <<ledger, customerLock, totalPoint>>

LockCustomer(c) ==
    /\ points[c].pc = "lock"
    /\ customerLock = Nobody
    /\ customerLock' = c
    /\ GoTo(c, "read")
    /\ UNCHANGED <<ledger, totalPoint>>

(* The last entry; what is used must be covered. *)
ReadBalance(c) ==
    /\ points[c].pc = "read"
    /\ IF Balance + points[c].point >= 0 \/ points[c].point > 0
       THEN /\ points' = [points EXCEPT ![c] = [@ EXCEPT !.pc = "insert", !.balance = Balance]]
            /\ UNCHANGED customerLock
       ELSE GoTo(c, "failed") /\ Unlocked(c)
    /\ UNCHANGED <<ledger, totalPoint>>

(* The entry, whatever else a checkout writes, COMMIT. *)
CommitPoints(c) ==
    LET after == points[c].balance + points[c].point IN
    /\ points[c].pc = "insert"
    /\ ledger' = Append(ledger, [point |-> points[c].point, balance |-> after])
    /\ points' = [points EXCEPT ![c] = [@ EXCEPT !.pc = "publish", !.balance = after]]
    /\ Unlocked(c)
    /\ UNCHANGED totalPoint

(* A statement fails, or the rest of the checkout does. *)
RollBackPoints(c) ==
    /\ points[c].pc \in PointTransaction
    /\ GoTo(c, "failed")
    /\ Unlocked(c)
    /\ UNCHANGED <<ledger, totalPoint>>

(* The event goes out once the audit log is written, and calls the          *)
(* subscriber without waiting for it.                                       *)
Publish(c) ==
    /\ points[c].pc = "publish"
    /\ GoTo(c, "sync")
    /\ UNCHANGED <<ledger, customerLock, totalPoint>>

(* The UPDATE of syncTotalPoint waits for whoever holds the row.            *)
SyncTotalPoint(c) ==
    /\ points[c].pc = "sync"
    /\ customerLock = Nobody
    /\ totalPoint' = points[c].balance
    /\ GoTo(c, "done")
    /\ UNCHANGED <<ledger, customerLock>>

Die(c) ==
    /\ Crashes
    /\ points[c].pc \in PointTransaction \cup {"publish", "sync"}
    /\ GoTo(c, "dead")
    /\ Unlocked(c)
    /\ UNCHANGED <<ledger, totalPoint>>

PointsStep(c) ==
    \/ LockCustomer(c) \/ ReadBalance(c) \/ CommitPoints(c) \/ RollBackPoints(c)
    \/ Publish(c) \/ SyncTotalPoint(c) \/ Die(c)

Next ==
    \E c \in PointCall : PointsStep(c) \/ \E point \in Point : StartPoints(c, point)

Spec == Init /\ [][Next]_pointVars
---------------------------------------------------------------------------
(* Properties *)

Sum(n) == SumFunctionOnSet([k \in DOMAIN ledger |-> ledger[k].point], 1 .. n)

(* Every balance in the ledger is the sum of the points up to it and never  *)
(* negative, however calls and checkouts overlap, and the cache holds a     *)
(* balance that was once committed, not one of a checkout that rolled back  *)
(* (prisma-customer-point.repository.ts:122; checkout.service.ts:407).      *)
PointsExplained ==
    /\ \A n \in DOMAIN ledger :
        ledger[n].balance >= 0 /\ ledger[n].balance = Sum(n)
    /\ totalPoint = 0 \/ \E n \in DOMAIN ledger : ledger[n].balance = totalPoint
=============================================================================
