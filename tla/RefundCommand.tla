---------------------------- MODULE RefundCommand ----------------------------
(***************************************************************************)
(* POST /sales-returns/{id}/refunds: the transaction of SalesReturn that    *)
(* inserts a refund, inside the idempotency rows of                         *)
(* sales_return_refund_operations (refund-domain.service.ts and             *)
(* sales-return-refund-operation.service.ts).  A row keeps the fingerprint  *)
(* it was created with, and is completed by the transaction that inserts    *)
(* the refund.                                                              *)
(*                                                                          *)
(* A call is a worker of SalesReturn that also holds a request.  One return *)
(* has been received when the calls begin; what the others do to stock and  *)
(* quantities is SalesReturn's own business.                                *)
(***************************************************************************)
EXTENDS SalesReturn

CONSTANTS
    Key,        \* values of the Idempotency-Key header
    Faults      \* "crash": the process dies; "stall": a call outlasts STUCK_THRESHOLD_MS

VARIABLES
    operation,  \* operation[k]: the row of sales_return_refund_operations
    request     \* request[w]: what createRefund holds in memory

commandVars == <<vars, operation, request>>

NoRow == [status |-> "NONE", fingerprint |-> None, stuck |-> FALSE, refund |-> None]
NoRequest == [pc |-> "idle", key |-> None, fingerprint |-> None, result |-> None]

(* What a payload says, method and external reference being part of the amount. *)
Fingerprint == [on : Return, amount : Amount]
Row == [status : {"PROCESSING", "COMPLETED", "FAILED"}, fingerprint : Fingerprint,
        stuck : BOOLEAN, refund : Worker \cup {None}]
Owning == {"create refund", "audit", "fail"}
Request == [pc : {"idle", "find", "create", "reclaim", "replay", "answered", "replayed",
                  "refused", "failed", "dead"} \cup Owning,
            key : Key \cup {None}, fingerprint : Fingerprint \cup {None},
            result : Worker \cup {None}]

CommandTypeOK ==
    /\ TypeOK
    /\ operation \in [Key -> Row \cup {NoRow}]
    /\ request \in [Worker -> Request]

CommandIdle ==
    /\ operation = [k \in Key |-> NoRow]
    /\ request = [w \in Worker |-> NoRequest]

CommandInit ==
    /\ \E x \in Return, lines \in Lines :
        /\ Plausible(lines)
        /\ doc = [y \in Return |->
                    IF y = x THEN [status |-> "RECEIVED", version |-> 4, lines |-> lines]
                    ELSE [status |-> "NONE", version |-> 1, lines |-> <<>>]]
        /\ restored = [i \in Item |-> IF i \in Stocked THEN Requested(lines, i) ELSE 0]
    /\ refund = [w \in Worker |-> [status |-> "NONE", of |-> None, amount |-> 0]]
    /\ call = [w \in Worker |-> [pc |-> "idle", on |-> None, version |-> 0,
                                 amount |-> 0, active |-> 0]]
    /\ itemLock = [i \in Item |-> None]
    /\ rowLock = [x \in Return |-> None]
    /\ CommandIdle

---------------------------------------------------------------------------
AtStep(w, step) == request[w].pc = step
GoTo(w, step) == request' = [request EXCEPT ![w].pc = step]
Owners(k) == {w \in Worker : request[w].pc \in Owning /\ request[w].key = k}

Receive(w, k, x, amount) ==
    /\ AtStep(w, "idle")
    /\ doc[x].status # "NONE"
    /\ request' = [request EXCEPT ![w] =
                    [@ EXCEPT !.pc = "find", !.key = k,
                              !.fingerprint = [on |-> x, amount |-> amount]]]
    /\ UNCHANGED <<vars, operation>>

(* reserve: what was found under the key, and the branches taken on it. *)
Find(w) ==
    LET row == operation[request[w].key]
        same == row.fingerprint = request[w].fingerprint
        processing == row.status = "PROCESSING" /\ ~row.stuck
    IN
    /\ AtStep(w, "find")
    /\ \/ row.status = "NONE" /\ GoTo(w, "create")
       \/ /\ row.status = "COMPLETED" /\ same
          /\ request' = [request EXCEPT ![w] = [@ EXCEPT !.pc = "replay", !.result = row.refund]]
       \/ row.status # "NONE" /\ (~same \/ processing) /\ GoTo(w, "refused")
       \/ row.status \notin {"NONE", "COMPLETED"} /\ same /\ ~processing /\ GoTo(w, "reclaim")
    /\ UNCHANGED <<vars, operation>>

(* The row is the caller's: the transaction of the refund may begin. *)
Own(w, row) ==
    /\ operation' = [operation EXCEPT ![request[w].key] = row]
    /\ GoTo(w, "create refund")
    /\ StartRefund(w, request[w].fingerprint.on, request[w].fingerprint.amount)

Refuse(w) == GoTo(w, "refused") /\ UNCHANGED <<vars, operation>>

(* INSERT; the unique key refuses the second of two. *)
Create(w) ==
    /\ AtStep(w, "create")
    /\ \/ /\ operation[request[w].key].status = "NONE"
          /\ Own(w, [status |-> "PROCESSING", fingerprint |-> request[w].fingerprint,
                     stuck |-> FALSE, refund |-> None])
       \/ operation[request[w].key].status # "NONE" /\ Refuse(w)

Reclaimable(row, fingerprint) ==
    /\ row.fingerprint = fingerprint
    /\ row.status = "FAILED" \/ (row.status = "PROCESSING" /\ row.stuck)

(* tryReclaim: one conditional UPDATE. *)
TryReclaim(w) ==
    LET row == operation[request[w].key] IN
    /\ AtStep(w, "reclaim")
    /\ \/ /\ Reclaimable(row, request[w].fingerprint)
          /\ Own(w, [row EXCEPT !.status = "PROCESSING", !.stuck = FALSE, !.refund = None])
       \/ ~Reclaimable(row, request[w].fingerprint) /\ Refuse(w)

Replay(w) == AtStep(w, "replay") /\ GoTo(w, "replayed") /\ UNCHANGED <<vars, operation>>

(* Mutant of Commit: the row is completed without the refund it stands for. *)
CommitUnlinked(w) ==
    /\ InsertRefund(w)
    /\ operation' = [operation EXCEPT ![request[w].key].status = "COMPLETED"]
    /\ request' = [request EXCEPT ![w] = [@ EXCEPT !.pc = "audit", !.result = w]]

(* The refund is inserted and its row completed, in one transaction. *)
Commit(w) ==
    /\ InsertRefund(w)
    /\ operation' = [operation EXCEPT ![request[w].key] =
                        [@ EXCEPT !.status = "COMPLETED", !.refund = w]]
    /\ request' = [request EXCEPT ![w] = [@ EXCEPT !.pc = "audit", !.result = w]]

(* A step of the transaction that ends in an exception, or in none. *)
Proceed(w) ==
    /\ LockReturn(w) \/ ReadRefunds(w) \/ ExceedTotal(w) \/ StatementFails(w)
    /\ IF call'[w].pc = "failed" THEN GoTo(w, "fail") ELSE UNCHANGED request
    /\ UNCHANGED operation

(* The audit log does not throw, publishing an event does not either. *)
Finish(w) == AtStep(w, "audit") /\ GoTo(w, "answered") /\ UNCHANGED <<vars, operation>>

(* The catch of createRefund: UPDATE ... WHERE id. *)
MarkFailed(w) ==
    /\ AtStep(w, "fail")
    /\ operation' = [operation EXCEPT ![request[w].key] = [@ EXCEPT !.status = "FAILED"]]
    /\ GoTo(w, "failed")
    /\ UNCHANGED vars

(* The process dies; the database rolls an open transaction back. *)
Crash(w) ==
    /\ "crash" \in Faults
    /\ request[w].pc \in Owning \cup {"find", "create", "reclaim", "replay"}
    /\ GoTo(w, "dead")
    /\ IF call[w].pc \in InTransaction THEN RollBack(w) ELSE UNCHANGED vars
    /\ UNCHANGED operation

(* Two minutes pass.  Without the fault "stall" no call takes that long. *)
Age(k) ==
    /\ operation[k].status = "PROCESSING"
    /\ "stall" \in Faults \/ Owners(k) = {}
    /\ operation' = [operation EXCEPT ![k].stuck = TRUE]
    /\ UNCHANGED <<vars, request>>

(* What else happens to the return and its refunds meanwhile. *)
Meanwhile ==
    /\ \/ \E x \in Return : Complete(x)
       \/ \E w \in Worker : ProcessRefund(w) \/ CompleteRefund(w)
                                \/ FailRefund(w) \/ CancelRefund(w)
    /\ UNCHANGED <<operation, request>>

CallStep(w) ==
    \/ Find(w) \/ Create(w) \/ TryReclaim(w) \/ Replay(w)
    \/ Commit(w) \/ Proceed(w) \/ Finish(w) \/ MarkFailed(w) \/ Crash(w)

CommandNext ==
    \/ \E w \in Worker, k \in Key, x \in Return, amount \in Amount : Receive(w, k, x, amount)
    \/ \E w \in Worker : CallStep(w)
    \/ \E k \in Key : Age(k)
    \/ Meanwhile

CommandSpec == CommandInit /\ [][CommandNext]_commandVars
---------------------------------------------------------------------------
(* Properties *)

RefundsUnder(k) == {w \in Worker : refund[w].status # "NONE" /\ request[w].key = k}
Answered == {w \in Worker : request[w].pc \in {"answered", "replayed"}}

Command == INSTANCE IdempotentCommand WITH
    Effect <- Worker,
    effects <- [k \in Key |-> RefundsUnder(k)],
    answers <- {<<request[w].key, request[w].result>> : w \in Answered}

(* However the calls under one key overlap, crash and are repeated, one     *)
(* refund is created under it and every answer is that refund               *)
(* (sales-return-refund-operation.service.ts:32;                            *)
(* prisma-sales-return.repository.ts:442).                                  *)
RefundImplementsCommand == Command!Spec
==============================================================================
