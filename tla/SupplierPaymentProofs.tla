------------------------ MODULE SupplierPaymentProofs ------------------------
(***************************************************************************)
(* Proofs about SupplierPayment, for any number of requests, keys, payloads *)
(* and amounts, and under every fault.                                      *)
(***************************************************************************)
EXTENDS SupplierPayment, TLAPS

(* A call that owns its row finds one. *)
Owned == \A r \in Request : call[r].pc \in Owning =>
            operation[call[r].key].status # "NONE"

Typed == TypeOK /\ Addressed /\ Owned

LEMMA NoneIsNothing ==
    /\ None \notin Request /\ None \notin Key /\ None \notin Payload /\ None \notin Int
    /\ Amount \in [Payload -> Nat]
BY PaymentAssumption

LEMMA FreshRowType ==
    ASSUME NEW p \in Payload
    PROVE  [status |-> "PROCESSING", fingerprint |-> p, stuck |-> FALSE,
            payment |-> None] \in Row
BY DEF Row

(* What writing the memory of one call leaves of the others. *)
LEMMA SetFacts ==
    ASSUME TypeOK, NEW r \in Request, NEW c \in Call, Set(r, c)
    PROVE  /\ call' \in [Request -> Call]
           /\ call'[r] = c
           /\ \A s \in Request : s # r => call'[s] = call[s]
BY DEF Set, TypeOK

LEMMA GotoFacts ==
    ASSUME TypeOK, NEW r \in Request, NEW step \in Pc, Goto(r, step)
    PROVE  /\ call' \in [Request -> Call]
           /\ call'[r] = [call[r] EXCEPT !.pc = step]
           /\ call'[r].pc = step
           /\ call'[r].key = call[r].key /\ call'[r].fingerprint = call[r].fingerprint
           /\ call'[r].debtSum = call[r].debtSum /\ call'[r].paidSum = call[r].paidSum
           /\ call'[r].result = call[r].result
           /\ \A s \in Request : s # r => call'[s] = call[s]
PROOF
<1>1. call[r] \in Call
    BY DEF TypeOK
<1>2. [call[r] EXCEPT !.pc = step] \in Call
    BY <1>1 DEF Call
<1>3. Set(r, [call[r] EXCEPT !.pc = step])
    BY DEF Goto
<1>4. /\ call' \in [Request -> Call] /\ call'[r] = [call[r] EXCEPT !.pc = step]
      /\ \A s \in Request : s # r => call'[s] = call[s]
    BY <1>2, <1>3, SetFacts
<1> QED BY <1>1, <1>4 DEF Call

(* The steps of the program, by name. *)
LEMMA Steps ==
    /\ Reserving \cup Owning \cup Ended \cup {"idle", "replay"} \subseteq Pc
    /\ InTransaction \subseteq Owning
BY DEF Pc, Owning

---------------------------------------------------------------------------
(* Types *)

LEMMA InitTyped == Init => Typed
PROOF
<1> SUFFICES ASSUME Init PROVE Typed
    OBVIOUS
<1>1. call \in [Request -> Call]
    BY DEF Init, Call, Pc
<1> QED BY <1>1 DEF Init, Typed, TypeOK, Addressed, Owned, Owning, InTransaction, At

(* A step of call r that leaves its key and payload alone. *)
LEMMA TypedByCall ==
    ASSUME Typed, NEW r \in Request, ~At(r, "idle"),
           call' \in [Request -> Call],
           call'[r].key = call[r].key, call'[r].fingerprint = call[r].fingerprint,
           \A s \in Request : s # r => call'[s] = call[s],
           operation' \in [Key -> Row \cup {NoRow}],
           \A k \in Key : operation[k].status # "NONE" => operation'[k].status # "NONE",
           call'[r].pc \in Owning => operation'[call[r].key].status # "NONE",
           payment' \in [Request -> PaymentRecord \cup {NoPayment}],
           paid' \in Nat, UNCHANGED <<bought, returned>>,
           lock' \in Request \cup {None}
    PROVE  Typed'
PROOF
<1>1. TypeOK' /\ Addressed'
    BY DEF Typed, TypeOK, Addressed, At
<1>2. \A s \in Request : call[s].pc \in Owning => call[s].key \in Key
    BY DEF Typed, Addressed, At, Owning, InTransaction
<1>3. Owned'
    BY <1>2 DEF Typed, Owned
<1> QED BY <1>1, <1>3 DEF Typed

LEMMA FindFacts ==
    ASSUME Typed, NEW r \in Request, Find(r)
    PROVE  /\ Typed'
           /\ call'[r].key = call[r].key /\ call'[r].fingerprint = call[r].fingerprint
           /\ \A s \in Request : s # r => call'[s] = call[s]
           /\ \/ call'[r].pc \in {"create", "refused", "reclaim"}
              \/ /\ call'[r].pc = "replay"
                 /\ operation[call[r].key].status = "COMPLETED"
                 /\ operation[call[r].key].fingerprint = call[r].fingerprint
                 /\ call'[r].result = operation[call[r].key].payment
PROOF
<1> DEFINE k == call[r].key
<1>1. /\ ~At(r, "idle") /\ k \in Key /\ call[r].fingerprint \in Payload
      /\ call[r] \in Call /\ operation[k] \in Row \cup {NoRow}
    BY DEF Find, At, Typed, TypeOK, Addressed
<1>2. ASSUME NEW step \in {"create", "refused", "reclaim"}, Goto(r, step)
      PROVE  /\ call' \in [Request -> Call]
             /\ call'[r].key = k /\ call'[r].fingerprint = call[r].fingerprint
             /\ call'[r].pc = step
             /\ \A s \in Request : s # r => call'[s] = call[s]
    <2>1. step \in Pc
        BY DEF Pc, Reserving, Ended
    <2> QED BY <1>2, <2>1, GotoFacts DEF Typed
<1>3. ASSUME operation[k].status = "COMPLETED",
             Set(r, [call[r] EXCEPT !.pc = "replay", !.result = operation[k].payment])
      PROVE  /\ call' \in [Request -> Call]
             /\ call'[r].key = k /\ call'[r].fingerprint = call[r].fingerprint
             /\ call'[r].pc = "replay" /\ call'[r].result = operation[k].payment
             /\ \A s \in Request : s # r => call'[s] = call[s]
    <2> DEFINE c == [call[r] EXCEPT !.pc = "replay", !.result = operation[k].payment]
    <2>1. operation[k].payment \in Request \cup {None}
        BY <1>1, <1>3 DEF Row, NoRow
    <2>2. c \in Call /\ c.key = k /\ c.fingerprint = call[r].fingerprint
          /\ c.pc = "replay" /\ c.result = operation[k].payment
        BY <1>1, <2>1 DEF Call, Pc
    <2>3. call' \in [Request -> Call] /\ call'[r] = c
          /\ \A s \in Request : s # r => call'[s] = call[s]
        BY <1>3, <2>2, SetFacts DEF Typed
    <2> QED BY <2>2, <2>3
<1>4. UNCHANGED <<operation, payment, paid, bought, returned, lock>>
    BY DEF Find, ledgers
<1>5. \/ Goto(r, "create") \/ Goto(r, "refused") \/ Goto(r, "reclaim")
      \/ /\ operation[k].status = "COMPLETED"
         /\ operation[k].fingerprint = call[r].fingerprint
         /\ Set(r, [call[r] EXCEPT !.pc = "replay", !.result = operation[k].payment])
    BY DEF Find
<1>6. /\ call' \in [Request -> Call]
      /\ call'[r].key = k /\ call'[r].fingerprint = call[r].fingerprint
      /\ \A s \in Request : s # r => call'[s] = call[s]
    BY <1>2, <1>3, <1>5
<1>7. Typed'
    <2>1. call'[r].pc \notin Owning
        BY <1>2, <1>3, <1>5 DEF Owning, InTransaction
    <2> QED BY <1>1, <1>4, <1>6, <2>1, TypedByCall DEF Typed, TypeOK
<1> QED BY <1>2, <1>3, <1>5, <1>6, <1>7

(* The fields of a call that a step by Goto keeps. *)
Moves(r, step) ==
    /\ call'[r].pc = step
    /\ call'[r].key = call[r].key /\ call'[r].fingerprint = call[r].fingerprint
    /\ call'[r].debtSum = call[r].debtSum /\ call'[r].paidSum = call[r].paidSum
    /\ call'[r].result = call[r].result
    /\ \A s \in Request : s # r => call'[s] = call[s]

LEMMA ClaimFacts ==
    ASSUME Typed, NEW r \in Request, Create(r) \/ TryReclaim(r)
    PROVE  /\ Typed'
           /\ \/ Moves(r, "refused") /\ UNCHANGED operation
              \/ /\ Moves(r, "validate")
                 /\ operation[call[r].key].status = "NONE" \/
                    operation[call[r].key].fingerprint = call[r].fingerprint
                 /\ operation' = [operation EXCEPT ![call[r].key] =
                        [status |-> "PROCESSING", fingerprint |-> call[r].fingerprint,
                         stuck |-> FALSE, payment |-> None]]
PROOF
<1> DEFINE k == call[r].key
           fresh == [status |-> "PROCESSING", fingerprint |-> call[r].fingerprint,
                     stuck |-> FALSE, payment |-> None]
<1>1. /\ ~At(r, "idle") /\ k \in Key /\ call[r].fingerprint \in Payload
    BY DEF Create, TryReclaim, At, Typed, Addressed
<1>2. \/ Goto(r, "refused") /\ UNCHANGED operation
      \/ /\ Goto(r, "validate")
         /\ operation[k].status = "NONE" \/ operation[k].fingerprint = call[r].fingerprint
         /\ operation' = [operation EXCEPT ![k] = fresh]
    BY DEF Create, TryReclaim, Reclaimable
<1>3. UNCHANGED <<payment, paid, bought, returned, lock>>
    BY DEF Create, TryReclaim, ledgers
<1>4. {"refused", "validate"} \subseteq Pc
    BY DEF Pc, Owning, Ended
<1>5. ASSUME NEW step \in {"refused", "validate"}, Goto(r, step)
      PROVE  Moves(r, step) /\ call' \in [Request -> Call]
    BY <1>4, <1>5, GotoFacts DEF Typed, Moves
<1>6. operation' \in [Key -> Row \cup {NoRow}]
    BY <1>1, <1>2, FreshRowType DEF Typed, TypeOK
<1>7. Typed'
    <2>1. /\ \A j \in Key : operation[j].status # "NONE" => operation'[j].status # "NONE"
          /\ call'[r].pc \in Owning => operation'[k].status # "NONE"
        BY <1>1, <1>2, <1>5 DEF Moves, Owning, InTransaction, Typed, TypeOK
    <2> QED BY <1>1, <1>2, <1>3, <1>5, <1>6, <2>1, TypedByCall DEF Typed, TypeOK, Moves
<1> QED BY <1>2, <1>5, <1>7

(* The steps that write neither rows nor ledgers nor what was read.         *)
LEMMA QuietFacts ==
    ASSUME Typed, NEW r \in Request,
           \/ Replay(r) \/ Validate(r) \/ Finish(r)
           \/ Rollback(r) \/ StatementFails(r) \/ Crash(r)
    PROVE  /\ Typed' /\ UNCHANGED <<operation, payment, paid, bought, returned>>
           /\ \E step \in {"replayed", "lock", "fail", "answered", "dead"} :
                /\ Moves(r, step)
                /\ step = "lock" => At(r, "validate") /\ lock' = lock
                /\ step = "replayed" => At(r, "replay")
                /\ step = "fail" => call[r].pc \in Owning
           /\ lock' = lock \/ (lock = r /\ lock' = None)
           /\ ~At(r, "idle")
PROOF
<1>1. /\ ~At(r, "idle")
      /\ lock' = lock \/ (lock = r /\ lock' = None)
      /\ UNCHANGED <<operation, payment, paid, bought, returned>>
    BY DEF Replay, Validate, Finish, Rollback, StatementFails, Crash, At, Unlocked,
           ledgers, Reserving, Owning, InTransaction
<1>2. PICK step \in {"replayed", "lock", "fail", "answered", "dead"} :
        /\ Goto(r, step)
        /\ step = "lock" => At(r, "validate") /\ lock' = lock
        /\ step = "replayed" => At(r, "replay")
        /\ step = "fail" => call[r].pc \in Owning
    BY DEF Replay, Validate, Finish, Rollback, StatementFails, Crash, At, Owning,
           InTransaction
<1>3. step \in Pc
    BY DEF Pc, Owning, Ended
<1>4. Moves(r, step) /\ call' \in [Request -> Call]
    BY <1>2, <1>3, GotoFacts DEF Typed, Moves
<1>5. Typed'
    <2>1. call'[r].pc \in Owning => call[r].pc \in Owning
        BY <1>2, <1>4 DEF Moves, Owning, InTransaction, At
    <2> QED BY <1>1, <1>4, <2>1, TypedByCall DEF Typed, TypeOK, Owned, Moves
<1> QED BY <1>1, <1>2, <1>4, <1>5

LEMMA MarkFailedFacts ==
    ASSUME Typed, NEW r \in Request, MarkFailed(r)
    PROVE  /\ Typed' /\ Moves(r, "failed")
           /\ operation' = [operation EXCEPT ![call[r].key] =
                                [operation[call[r].key] EXCEPT !.status = "FAILED"]]
PROOF
<1> DEFINE row == operation[call[r].key]
<1>1. /\ ~At(r, "idle") /\ call[r].key \in Key
    BY DEF MarkFailed, At, Typed, Addressed
<1>2. Moves(r, "failed") /\ call' \in [Request -> Call]
    BY GotoFacts DEF Typed, Moves, MarkFailed, Pc, Ended
<1>3. UNCHANGED <<payment, paid, bought, returned, lock>>
    BY DEF MarkFailed, ledgers
<1>4. operation' = [operation EXCEPT ![call[r].key] = [row EXCEPT !.status = "FAILED"]]
    BY DEF MarkFailed
<1>5. row \in Row
    BY <1>1 DEF MarkFailed, At, Owning, Typed, Owned, TypeOK, NoRow
<1>6. [row EXCEPT !.status = "FAILED"] \in Row
    BY <1>5 DEF Row
<1>7. /\ operation' \in [Key -> Row \cup {NoRow}]
      /\ \A k \in Key : operation[k].status # "NONE" => operation'[k].status # "NONE"
    BY <1>1, <1>4, <1>5, <1>6 DEF Typed, TypeOK, Row
<1>8. call'[r].pc \notin Owning
    BY <1>2 DEF Moves, Owning, InTransaction
<1> QED BY <1>1, <1>2, <1>3, <1>4, <1>7, <1>8, TypedByCall DEF Typed, TypeOK, Moves

LEMMA LockFacts ==
    ASSUME Typed, NEW r \in Request, Lock(r)
    PROVE  /\ Typed' /\ UNCHANGED <<operation, payment, paid, bought, returned>>
           /\ lock = None /\ lock' = r
           /\ At(r, "lock")
           /\ call'[r] = [call[r] EXCEPT !.pc = "sum", !.debtSum = None, !.paidSum = None]
           /\ \A s \in Request : s # r => call'[s] = call[s]
PROOF
<1> DEFINE c == [call[r] EXCEPT !.pc = "sum", !.debtSum = None, !.paidSum = None]
<1>1. c \in Call /\ c.key = call[r].key /\ c.fingerprint = call[r].fingerprint
    BY DEF Call, Pc, Owning, InTransaction, Typed, TypeOK
<1>2. /\ call' \in [Request -> Call] /\ call'[r] = c
      /\ \A s \in Request : s # r => call'[s] = call[s]
    BY <1>1, SetFacts DEF Lock, Typed
<1>3. /\ UNCHANGED <<operation, payment, paid, bought, returned>>
      /\ lock = None /\ lock' = r /\ At(r, "lock")
    BY DEF Lock, ledgers
<1>4. call[r].pc \in Owning /\ ~At(r, "idle")
    BY <1>3 DEF At, Owning
<1> QED BY <1>1, <1>2, <1>3, <1>4, TypedByCall DEF Typed, TypeOK, Owned

LEMMA SumFacts ==
    ASSUME Typed, NEW r \in Request, SumDebts(r) \/ SumPayments(r)
    PROVE  /\ Typed' /\ UNCHANGED <<operation, payment, paid, bought, returned, lock>>
           /\ At(r, "sum")
           /\ call'[r].key = call[r].key /\ call'[r].fingerprint = call[r].fingerprint
           /\ call'[r].pc \in InTransaction
           /\ \/ /\ call'[r].debtSum = bought - returned
                 /\ call'[r].paidSum = call[r].paidSum
              \/ /\ call'[r].paidSum = paid
                 /\ call'[r].debtSum = call[r].debtSum
           /\ call'[r].pc = "insert" =>
                call'[r].debtSum # None /\ call'[r].paidSum # None
           /\ \A s \in Request : s # r => call'[s] = call[s]
PROOF
<1>1. /\ UNCHANGED <<operation, payment, paid, bought, returned, lock>>
      /\ At(r, "sum") /\ ~At(r, "idle") /\ call[r] \in Call
      /\ {bought - returned, paid} \subseteq Int
      /\ None \notin Int
    BY PaymentAssumption DEF SumDebts, SumPayments, ledgers, At, Typed, TypeOK
<1>2. call[r].pc \in Owning
    BY <1>1 DEF At, Owning, InTransaction
<1>3. CASE SumDebts(r)
    <2> DEFINE step == IF call[r].paidSum # None THEN "insert" ELSE "sum"
               c == [call[r] EXCEPT !.debtSum = bought - returned, !.pc = step]
    <2>a. step \in {"sum", "insert"} /\ (step = "insert" => call[r].paidSum # None)
        OBVIOUS
    <2>1. /\ c \in Call /\ c.key = call[r].key /\ c.fingerprint = call[r].fingerprint
          /\ c.debtSum = bought - returned /\ c.paidSum = call[r].paidSum
          /\ c.pc \in {"sum", "insert"} /\ (c.pc = "insert" => call[r].paidSum # None)
        <3>1. step \in Pc
            BY <2>a DEF Pc, Owning, InTransaction
        <3> HIDE DEF step
        <3> QED BY <1>1, <2>a, <3>1 DEF Call
    <2>2. /\ call' \in [Request -> Call] /\ call'[r] = c
          /\ \A s \in Request : s # r => call'[s] = call[s]
        BY <1>3, <2>1, SetFacts DEF SumDebts, Typed
    <2>3. c.debtSum # None
        BY <1>1, <2>1
    <2> HIDE DEF c
    <2>4. Typed'
        BY <1>1, <1>2, <2>1, <2>2, TypedByCall DEF Typed, TypeOK, Owned
    <2> QED BY <1>1, <2>1, <2>2, <2>3, <2>4 DEF InTransaction
<1>4. CASE SumPayments(r)
    <2> DEFINE step == IF call[r].debtSum # None THEN "insert" ELSE "sum"
               c == [call[r] EXCEPT !.paidSum = paid, !.pc = step]
    <2>a. step \in {"sum", "insert"} /\ (step = "insert" => call[r].debtSum # None)
        OBVIOUS
    <2>1. /\ c \in Call /\ c.key = call[r].key /\ c.fingerprint = call[r].fingerprint
          /\ c.paidSum = paid /\ c.debtSum = call[r].debtSum
          /\ c.pc \in {"sum", "insert"} /\ (c.pc = "insert" => call[r].debtSum # None)
        <3>1. step \in Pc
            BY <2>a DEF Pc, Owning, InTransaction
        <3> HIDE DEF step
        <3> QED BY <1>1, <2>a, <3>1 DEF Call
    <2>2. /\ call' \in [Request -> Call] /\ call'[r] = c
          /\ \A s \in Request : s # r => call'[s] = call[s]
        BY <1>4, <2>1, SetFacts DEF SumPayments, Typed
    <2>3. c.paidSum # None
        BY <1>1, <2>1
    <2> HIDE DEF c
    <2>4. Typed'
        BY <1>1, <1>2, <2>1, <2>2, TypedByCall DEF Typed, TypeOK, Owned
    <2> QED BY <1>1, <2>1, <2>2, <2>3, <2>4 DEF InTransaction
<1> QED BY <1>3, <1>4

LEMMA CommitFacts ==
    ASSUME Typed, NEW r \in Request, Commit(r)
    PROVE  /\ Typed'
           /\ At(r, "insert") /\ Covered(r) /\ UNCHANGED <<bought, returned>>
           /\ paid' = paid + Amount[call[r].fingerprint]
           /\ call'[r].key = call[r].key
           /\ call'[r].pc \in {"audit", "fail"}
           /\ call'[r].fingerprint = call[r].fingerprint
           /\ \A s \in Request : s # r => call'[s] = call[s]
           /\ payment' = [payment EXCEPT ![r] = [key |-> call[r].key,
                                                 fingerprint |-> call[r].fingerprint]]
           /\ operation' = [operation EXCEPT ![call[r].key] =
                [operation[call[r].key] EXCEPT !.status = "COMPLETED", !.payment = r]]
           /\ operation[call[r].key].status # "NONE"
           /\ lock' = lock \/ (lock = r /\ lock' = None)
PROOF
<1> DEFINE k == call[r].key
           row == operation[k]
           done == [row EXCEPT !.status = "COMPLETED", !.payment = r]
<1>1. /\ At(r, "insert") /\ Covered(r) /\ UNCHANGED <<bought, returned>>
      /\ paid' = paid + Amount[call[r].fingerprint]
      /\ payment' = [payment EXCEPT ![r] = [key |-> k, fingerprint |-> call[r].fingerprint]]
      /\ lock' = lock \/ (lock = r /\ lock' = None)
    BY DEF Commit, Unlocked
<1>2. /\ ~At(r, "idle") /\ call[r].pc \in Owning /\ k \in Key /\ call[r] \in Call
      /\ call[r].fingerprint \in Payload
    BY <1>1 DEF At, Owning, InTransaction, Typed, TypeOK, Addressed
<1>3. row.status # "NONE" /\ row \in Row
    BY <1>2 DEF Typed, Owned, TypeOK, NoRow
<1>4. operation' = [operation EXCEPT ![k] = done]
    BY DEF Commit, MarkCompleted
<1>5. done \in Row /\ done.status = "COMPLETED"
    BY <1>3 DEF Row
<1>6. /\ operation' \in [Key -> Row \cup {NoRow}]
      /\ \A j \in Key : operation[j].status # "NONE" => operation'[j].status # "NONE"
      /\ operation'[k].status # "NONE"
    BY <1>2, <1>4, <1>5 DEF Typed, TypeOK
<1>7. /\ call' \in [Request -> Call]
      /\ call'[r].key = k /\ call'[r].fingerprint = call[r].fingerprint
      /\ call'[r].pc \in {"audit", "fail"}
      /\ \A s \in Request : s # r => call'[s] = call[s]
    <2>1. CASE Set(r, [call[r] EXCEPT !.pc = "audit", !.result = r])
        <3> DEFINE c == [call[r] EXCEPT !.pc = "audit", !.result = r]
        <3>1. /\ c \in Call /\ c.key = k /\ c.fingerprint = call[r].fingerprint
              /\ c.pc = "audit"
            BY <1>2 DEF Call, Pc, Owning
        <3> QED BY <2>1, <3>1, SetFacts DEF Typed
    <2>2. CASE Goto(r, "fail")
        BY <2>2, GotoFacts DEF Typed, Pc, Owning
    <2> QED BY <2>1, <2>2 DEF Commit
<1>8. payment' \in [Request -> PaymentRecord \cup {NoPayment}]
    BY <1>1, <1>2 DEF PaymentRecord, Typed, TypeOK
<1>9. paid' \in Nat
    BY <1>1, <1>2, NoneIsNothing DEF Typed, TypeOK
<1>10. lock' \in Request \cup {None}
    BY <1>1 DEF Typed, TypeOK
<1>11. Typed'
    BY <1>1, <1>2, <1>6, <1>7, <1>8, <1>9, <1>10, TypedByCall
<1> QED BY <1>1, <1>3, <1>4, <1>7, <1>11

LEMMA ReceiveFacts ==
    ASSUME Typed, NEW r \in Request, NEW k \in Key, NEW p \in Payload, Receive(r, k, p)
    PROVE  /\ Typed' /\ UNCHANGED <<operation, payment, paid, bought, returned, lock>>
           /\ At(r, "idle") /\ call'[r].pc = "find"
           /\ \A s \in Request : s # r => call'[s] = call[s]
PROOF
<1> DEFINE c == [call[r] EXCEPT !.pc = "find", !.key = k, !.fingerprint = p]
<1>1. c \in Call /\ c.key = k /\ c.fingerprint = p /\ c.pc = "find"
    BY DEF Call, Pc, Reserving, Typed, TypeOK
<1>2. /\ call' \in [Request -> Call] /\ call'[r] = c
      /\ \A s \in Request : s # r => call'[s] = call[s]
    BY <1>1, SetFacts DEF Receive, Typed
<1>3. UNCHANGED <<operation, payment, paid, bought, returned, lock>> /\ At(r, "idle")
    BY DEF Receive, ledgers
<1>4. "find" \notin Owning
    BY DEF Owning, InTransaction
<1> HIDE DEF c
<1> QED BY <1>1, <1>2, <1>3, <1>4 DEF Typed, TypeOK, Addressed, Owned, At

LEMMA AgeFacts ==
    ASSUME Typed, NEW k \in Key, Age(k)
    PROVE  /\ Typed' /\ UNCHANGED <<call, payment, paid, bought, returned, lock>>
           /\ \A j \in Key : /\ operation'[j].status = operation[j].status
                            /\ operation'[j].fingerprint = operation[j].fingerprint
                            /\ operation'[j].payment = operation[j].payment
PROOF
<1>1. operation[k] \in Row
    BY DEF Age, Typed, TypeOK, NoRow
<1>2. /\ operation' = [operation EXCEPT ![k] = [operation[k] EXCEPT !.stuck = TRUE]]
      /\ UNCHANGED <<call, payment, paid, bought, returned, lock>>
    BY DEF Age, ledgers
<1>3. /\ [operation[k] EXCEPT !.stuck = TRUE] \in Row
      /\ [operation[k] EXCEPT !.stuck = TRUE].status = operation[k].status
      /\ [operation[k] EXCEPT !.stuck = TRUE].fingerprint = operation[k].fingerprint
      /\ [operation[k] EXCEPT !.stuck = TRUE].payment = operation[k].payment
    BY <1>1 DEF Row
<1>4. \A j \in Key : /\ operation'[j].status = operation[j].status
                    /\ operation'[j].fingerprint = operation[j].fingerprint
                    /\ operation'[j].payment = operation[j].payment
    BY <1>2, <1>3 DEF Typed, TypeOK
<1>5. operation' \in [Key -> Row \cup {NoRow}]
    BY <1>2, <1>3 DEF Typed, TypeOK
<1> QED BY <1>2, <1>4, <1>5 DEF Typed, TypeOK, Addressed, Owned, At

LEMMA DebtFacts ==
    ASSUME Typed, NEW amount \in Price, Buy(amount) \/ Return(amount)
    PROVE  /\ Typed' /\ UNCHANGED <<operation, call, payment, paid, lock>>
           /\ bought' >= bought
PROOF
<1>1. amount \in Nat
    BY PaymentAssumption
<1> QED BY <1>1 DEF Buy, Return, Typed, TypeOK, Addressed, Owned, At

LEMMA NextTyped == Typed /\ [Next]_vars => Typed'
PROOF
<1> SUFFICES ASSUME Typed, [Next]_vars PROVE Typed'
    OBVIOUS
<1>1. CASE UNCHANGED vars
    BY <1>1 DEF vars, Typed, TypeOK, Addressed, Owned, At
<1>2. ASSUME NEW r \in Request, ServerStep(r) \/ StatementFails(r) \/ Crash(r)
      PROVE  Typed'
    BY <1>2, FindFacts, ClaimFacts, QuietFacts, MarkFailedFacts, LockFacts, SumFacts,
       CommitFacts DEF ServerStep
<1> QED BY <1>1, <1>2, ReceiveFacts, AgeFacts, DebtFacts DEF Next

(* Every variable always has its type, whatever fails. *)
THEOREM TypeCorrect == Spec => []TypeOK
PROOF
<1>1. Typed => TypeOK
    BY DEF Typed
<1> QED BY InitTyped, NextTyped, <1>1, PTL DEF Spec

---------------------------------------------------------------------------
(* The balance *)

BalanceInv == Typed /\ LockInv /\ PaidWithinDebt

LEMMA InitBalance == Init => BalanceInv
BY InitTyped DEF BalanceInv, Init, LockInv, PaidWithinDebt, InTransaction, Typed

(* A step that pays nothing and reads nothing. *)
LEMMA LockInvKept ==
    ASSUME LockInv, NEW r \in Request,
           paid' = paid, bought' = bought, lock' = lock \/ (lock = r /\ lock' = None),
           call'[r].pc \notin InTransaction,
           \A s \in Request : s # r => call'[s] = call[s]
    PROVE  LockInv'
PROOF
<1> SUFFICES ASSUME NEW s \in Request, call'[s].pc \in InTransaction
             PROVE  /\ lock' = s
                    /\ call'[s].debtSum \in Int \cup {None}
                    /\ call'[s].debtSum # None => call'[s].debtSum <= bought'
                    /\ call'[s].paidSum # None => call'[s].paidSum = paid'
                    /\ At(s, "insert")' => /\ call'[s].debtSum # None
                                           /\ call'[s].paidSum # None
    BY DEF LockInv
<1>1. s # r /\ call'[s] = call[s]
    OBVIOUS
<1>2. lock = s
    BY <1>1 DEF LockInv
<1>3. lock' = s
    BY <1>1, <1>2
<1> QED BY <1>1, <1>3 DEF LockInv, At

LEMMA LockStep ==
    ASSUME BalanceInv, NEW r \in Request, Lock(r)
    PROVE  LockInv'
PROOF
<1>1. /\ \A s \in Request : call[s].pc \notin InTransaction
      /\ lock' = r /\ paid' = paid /\ bought' = bought
      /\ \A s \in Request : s # r => call'[s] = call[s]
    BY LockFacts, NoneIsNothing DEF BalanceInv, LockInv
<1>2. call'[r].pc = "sum" /\ call'[r].debtSum = None /\ call'[r].paidSum = None
    <2>1. call[r] \in Call
        BY DEF BalanceInv, Typed, TypeOK
    <2>2. call'[r] = [call[r] EXCEPT !.pc = "sum", !.debtSum = None, !.paidSum = None]
        BY LockFacts DEF BalanceInv
    <2> QED BY <2>1, <2>2 DEF Call
<1> QED BY <1>1, <1>2 DEF LockInv, At

LEMMA SumStep ==
    ASSUME BalanceInv, NEW r \in Request, SumDebts(r) \/ SumPayments(r)
    PROVE  LockInv'
PROOF
<1>1. Typed /\ LockInv
    BY DEF BalanceInv
<1>2. /\ lock = r /\ lock' = r /\ paid' = paid /\ bought' = bought
      /\ call[r].pc \in InTransaction
      /\ \A s \in Request : s # r => call'[s] = call[s]
    BY <1>1, SumFacts DEF LockInv, At, InTransaction
<1>3. \A s \in Request : s # r => call'[s].pc \notin InTransaction
    BY <1>1, <1>2 DEF LockInv
<1>4. /\ bought - returned \in Int /\ bought - returned <= bought
    BY <1>1 DEF Typed, TypeOK
<1>5. /\ call'[r].debtSum \in Int \cup {None}
      /\ call'[r].debtSum # None => call'[r].debtSum <= bought
      /\ call'[r].paidSum # None => call'[r].paidSum = paid
    <2>1. CASE call'[r].debtSum = bought - returned /\ call'[r].paidSum = call[r].paidSum
        BY <1>1, <1>2, <1>4, <2>1 DEF LockInv
    <2>2. CASE call'[r].paidSum = paid /\ call'[r].debtSum = call[r].debtSum
        BY <1>1, <1>2, <2>2 DEF LockInv
    <2> QED BY <1>1, <2>1, <2>2, SumFacts
<1>6. call'[r].pc = "insert" => call'[r].debtSum # None /\ call'[r].paidSum # None
    BY <1>1, SumFacts
<1> QED BY <1>2, <1>3, <1>5, <1>6 DEF LockInv, At

LEMMA CommitStep ==
    ASSUME BalanceInv, NEW r \in Request, Commit(r)
    PROVE  LockInv' /\ PaidWithinDebt'
PROOF
<1>1. Typed /\ LockInv /\ call[r].pc = "insert" /\ Covered(r) /\ bought' = bought
    BY CommitFacts DEF BalanceInv, At
<1>2. /\ lock = r /\ call[r].paidSum = paid
      /\ call[r].debtSum \in Int /\ call[r].debtSum <= bought
    BY <1>1 DEF LockInv, InTransaction, At
<1>3. call[r].fingerprint \in Payload /\ paid \in Nat /\ bought \in Nat
    BY <1>1 DEF Typed, Addressed, TypeOK, At
<1>4. Amount[call[r].fingerprint] \in Nat
    BY <1>3, NoneIsNothing
<1>5. Amount[call[r].fingerprint] <= call[r].debtSum - paid
    BY <1>1, <1>2 DEF Covered
<1>6. paid' <= bought'
    <2>1. paid' = paid + Amount[call[r].fingerprint]
        BY <1>1, CommitFacts
    <2> QED BY <1>1, <1>2, <1>3, <1>4, <1>5, <2>1
<1>7. \A s \in Request : call'[s].pc \notin InTransaction
    <2>1. call'[r].pc \in {"audit", "fail"}
        BY <1>1, CommitFacts
    <2>2. \A s \in Request : s # r => call'[s] = call[s]
        BY <1>1, CommitFacts
    <2>3. \A s \in Request : s # r => call[s].pc \notin InTransaction
        BY <1>1, <1>2 DEF LockInv
    <2> QED BY <2>1, <2>2, <2>3 DEF InTransaction
<1> QED BY <1>6, <1>7 DEF LockInv, PaidWithinDebt

LEMMA NextBalance == BalanceInv /\ [Next]_vars => BalanceInv'
PROOF
<1> SUFFICES ASSUME BalanceInv, [Next]_vars PROVE BalanceInv'
    OBVIOUS
<1>1. Typed'
    BY NextTyped DEF BalanceInv
<1>2. Typed /\ LockInv /\ PaidWithinDebt
    BY DEF BalanceInv
<1>3. CASE UNCHANGED vars
    BY <1>1, <1>2, <1>3 DEF vars, BalanceInv, LockInv, PaidWithinDebt, At
<1>4. ASSUME NEW r \in Request, Find(r) PROVE BalanceInv'
    <2>1. /\ call'[r].pc \notin InTransaction
          /\ \A s \in Request : s # r => call'[s] = call[s]
        BY <1>2, <1>4, FindFacts DEF InTransaction
    <2>2. UNCHANGED <<paid, bought, lock>>
        BY <1>4 DEF Find, ledgers
    <2> QED BY <1>1, <1>2, <2>1, <2>2, LockInvKept DEF BalanceInv, PaidWithinDebt
<1>5. ASSUME NEW r \in Request, Create(r) \/ TryReclaim(r) PROVE BalanceInv'
    <2>1. /\ call'[r].pc \notin InTransaction
          /\ \A s \in Request : s # r => call'[s] = call[s]
        BY <1>2, <1>5, ClaimFacts DEF Moves, InTransaction
    <2>2. UNCHANGED <<paid, bought, lock>>
        BY <1>5 DEF Create, TryReclaim, ledgers
    <2> QED BY <1>1, <1>2, <2>1, <2>2, LockInvKept DEF BalanceInv, PaidWithinDebt
<1>6. ASSUME NEW r \in Request,
             \/ Replay(r) \/ Validate(r) \/ Finish(r)
             \/ Rollback(r) \/ StatementFails(r) \/ Crash(r)
      PROVE  BalanceInv'
    <2>1. /\ call'[r].pc \notin InTransaction
          /\ \A s \in Request : s # r => call'[s] = call[s]
          /\ UNCHANGED <<paid, bought>>
          /\ lock' = lock \/ (lock = r /\ lock' = None)
        BY <1>2, <1>6, QuietFacts DEF Moves, InTransaction
    <2> QED BY <1>1, <1>2, <2>1, LockInvKept DEF BalanceInv, PaidWithinDebt
<1>7. ASSUME NEW r \in Request, MarkFailed(r) PROVE BalanceInv'
    <2>1. /\ call'[r].pc \notin InTransaction
          /\ \A s \in Request : s # r => call'[s] = call[s]
        BY <1>2, <1>7, MarkFailedFacts DEF Moves, InTransaction
    <2>2. UNCHANGED <<paid, bought, lock>>
        BY <1>7 DEF MarkFailed, ledgers
    <2> QED BY <1>1, <1>2, <2>1, <2>2, LockInvKept DEF BalanceInv, PaidWithinDebt
<1>8. ASSUME NEW r \in Request, Lock(r) PROVE BalanceInv'
    BY <1>1, <1>2, <1>8, LockFacts, LockStep DEF BalanceInv, PaidWithinDebt
<1>9. ASSUME NEW r \in Request, SumDebts(r) \/ SumPayments(r) PROVE BalanceInv'
    BY <1>1, <1>2, <1>9, SumFacts, SumStep DEF BalanceInv, PaidWithinDebt
<1>10. ASSUME NEW r \in Request, Commit(r) PROVE BalanceInv'
    BY <1>1, <1>10, CommitStep DEF BalanceInv
<1>11. ASSUME NEW r \in Request, NEW k \in Key, NEW p \in Payload, Receive(r, k, p)
       PROVE  BalanceInv'
    <2>1. /\ call'[r].pc \notin InTransaction
          /\ \A s \in Request : s # r => call'[s] = call[s]
          /\ UNCHANGED <<paid, bought, lock>>
        BY <1>2, <1>11, ReceiveFacts DEF InTransaction
    <2> QED BY <1>1, <1>2, <2>1, LockInvKept DEF BalanceInv, PaidWithinDebt
<1>12. ASSUME NEW k \in Key, Age(k) PROVE BalanceInv'
    BY <1>1, <1>2, <1>12, AgeFacts DEF BalanceInv, LockInv, PaidWithinDebt, At
<1>13. ASSUME NEW amount \in Price, Buy(amount) \/ Return(amount) PROVE BalanceInv'
    <2>1. /\ UNCHANGED <<call, paid, lock>> /\ bought' >= bought
          /\ paid \in Nat /\ bought \in Nat /\ bought' \in Nat
        BY <1>1, <1>2, <1>13, DebtFacts DEF Typed, TypeOK
    <2>2. ASSUME NEW s \in Request, call[s].pc \in InTransaction, call[s].debtSum # None
          PROVE  call[s].debtSum <= bought'
        <3>1. call[s].debtSum \in Int /\ call[s].debtSum <= bought
            BY <1>2, <2>2 DEF LockInv
        <3> QED BY <2>1, <3>1
    <2>3. LockInv'
        BY <1>2, <2>1, <2>2 DEF LockInv, At
    <2> QED BY <1>1, <1>2, <2>1, <2>3 DEF BalanceInv, PaidWithinDebt
<1> QED BY <1>3, <1>4, <1>5, <1>6, <1>7, <1>8, <1>9, <1>10, <1>11, <1>12, <1>13
        DEF Next, ServerStep

(* Whatever fails, a supplier is never paid more than was bought from it.   *)
THEOREM NeverOverpaid == Spec => []PaidWithinDebt
PROOF
<1>1. BalanceInv => PaidWithinDebt
    BY DEF BalanceInv
<1> QED BY InitBalance, NextBalance, <1>1, PTL DEF Spec

---------------------------------------------------------------------------
(* One intent per key *)

IntentOk == Typed /\ IntentInv

LEMMA MadeHasKey ==
    ASSUME Typed, NEW r \in Made
    PROVE  payment[r] \in PaymentRecord
BY DEF Made, Typed, TypeOK

LEMMA InitIntent == Init => IntentOk
PROOF
<1> SUFFICES ASSUME Init PROVE IntentOk
    OBVIOUS
<1>1. Made = {}
    BY DEF Made, Init
<1> QED BY <1>1, InitTyped
        DEF Init, IntentOk, IntentInv, NoRow, Owning, InTransaction

(* A step that pays nothing. *)
LEMMA NoPaymentStep ==
    ASSUME IntentOk, NEW r \in Request, payment' = payment,
           \A s \in Request : s # r => call'[s] = call[s],
           \A k \in Key : operation[k].status # "NONE" =>
                /\ operation'[k].status # "NONE"
                /\ operation'[k].fingerprint = operation[k].fingerprint,
           \A k \in Key : operation'[k].status = "COMPLETED" =>
                /\ operation[k].status = "COMPLETED"
                /\ operation'[k].payment = operation[k].payment,
           call'[r].pc \in Unpaid => call[r].pc \in Unpaid,
           call'[r].pc \in Owning =>
                /\ operation'[call'[r].key].status # "NONE"
                /\ operation'[call'[r].key].fingerprint = call'[r].fingerprint,
           call'[r].pc \in {"replay", "replayed"} =>
                /\ call'[r].result \in Made
                /\ payment[call'[r].result].key = call'[r].key
                /\ payment[call'[r].result].fingerprint = call'[r].fingerprint
    PROVE  IntentInv'
PROOF
<1>1. Made' = Made
    BY DEF Made
<1>2. \A s \in Request : call[s].pc \in Owning => call[s].key \in Key
    BY DEF IntentOk, Typed, Addressed, At, Owning, InTransaction
<1>3. \A s \in Request : call'[s].pc \in Unpaid => payment'[s] = NoPayment
    BY DEF IntentOk, IntentInv
<1>4. \A s \in Request : call'[s].pc \in Owning =>
            /\ operation'[call'[s].key].status # "NONE"
            /\ operation'[call'[s].key].fingerprint = call'[s].fingerprint
    BY <1>2 DEF IntentOk, IntentInv
<1>5. \A s \in Made : payment[s].key \in Key
    BY MadeHasKey DEF IntentOk, PaymentRecord
<1>6. \A s \in Made' : /\ operation'[payment'[s].key].status # "NONE"
                       /\ operation'[payment'[s].key].fingerprint = payment'[s].fingerprint
    BY <1>1, <1>5 DEF IntentOk, IntentInv
<1>7. \A k \in Key : operation'[k].status = "COMPLETED" =>
            operation'[k].payment \in Made' /\ payment'[operation'[k].payment].key = k
    BY <1>1 DEF IntentOk, IntentInv
<1>8. \A s \in Request : call'[s].pc \in {"replay", "replayed"} =>
            /\ call'[s].result \in Made'
            /\ payment'[call'[s].result].key = call'[s].key
            /\ payment'[call'[s].result].fingerprint = call'[s].fingerprint
    BY <1>1 DEF IntentOk, IntentInv
<1> QED BY <1>3, <1>4, <1>6, <1>7, <1>8 DEF IntentInv

LEMMA CommitIntent ==
    ASSUME IntentOk, NEW r \in Request, Commit(r)
    PROVE  IntentInv'
PROOF
<1> DEFINE k == call[r].key
           pay == [key |-> k, fingerprint |-> call[r].fingerprint]
<1>1. Typed /\ IntentInv
    BY DEF IntentOk
<1>2. /\ call[r].pc = "insert" /\ payment' = [payment EXCEPT ![r] = pay]
      /\ operation' = [operation EXCEPT ![k] =
                        [operation[k] EXCEPT !.status = "COMPLETED", !.payment = r]]
      /\ operation[k].status # "NONE"
      /\ call'[r].key = k /\ call'[r].fingerprint = call[r].fingerprint
      /\ call'[r].pc \in {"audit", "fail"}
      /\ \A s \in Request : s # r => call'[s] = call[s]
    BY <1>1, CommitFacts DEF At
<1>3. /\ k \in Key /\ call[r].fingerprint \in Payload
      /\ payment \in [Request -> PaymentRecord \cup {NoPayment}]
      /\ operation \in [Key -> Row \cup {NoRow}]
    BY <1>1, <1>2 DEF Typed, TypeOK, Addressed, At
<1>4. /\ payment[r] = NoPayment
      /\ operation[k].fingerprint = call[r].fingerprint
    BY <1>1, <1>2 DEF IntentInv, Unpaid, InTransaction, Owning
<1>5. operation[k] \in Row
    BY <1>2, <1>3 DEF NoRow
<1>6. /\ operation'[k].status = "COMPLETED" /\ operation'[k].payment = r
      /\ operation'[k].fingerprint = operation[k].fingerprint
      /\ \A j \in Key : j # k => operation'[j] = operation[j]
    BY <1>2, <1>3, <1>5 DEF Row
<1>7. /\ payment'[r] = pay /\ pay # NoPayment
      /\ \A s \in Request : s # r => payment'[s] = payment[s]
    <2>1. k # None
        BY <1>3, NoneIsNothing
    <2> QED BY <1>2, <1>3, <2>1 DEF NoPayment
<1>8. Made' = Made \cup {r} /\ r \notin Made
    BY <1>4, <1>7 DEF Made
<1>9. /\ payment'[r].key = k
      /\ \A s \in Made : payment'[s] = payment[s]
    BY <1>7, <1>8 DEF Made
<1>10. \A s \in Request : call'[s].pc \in Unpaid => payment'[s] = NoPayment
    BY <1>1, <1>2, <1>7 DEF IntentInv, Unpaid, InTransaction, Reserving
<1>11. \A s \in Request : call'[s].pc \in Owning =>
            /\ operation'[call'[s].key].status # "NONE"
            /\ operation'[call'[s].key].fingerprint = call'[s].fingerprint
    <2>1. \A s \in Request : call[s].pc \in Owning => call[s].key \in Key
        BY <1>1 DEF Typed, Addressed, At, Owning, InTransaction
    <2> QED BY <1>1, <1>2, <1>4, <1>6, <2>1 DEF IntentInv
<1>12. \A s \in Made' : /\ operation'[payment'[s].key].status # "NONE"
                        /\ operation'[payment'[s].key].fingerprint = payment'[s].fingerprint
    <2>1. \A s \in Made : payment[s].key \in Key /\ payment'[s] = payment[s]
        BY <1>1, <1>7, <1>8, MadeHasKey DEF PaymentRecord, Made
    <2>2. pay.key = k /\ pay.fingerprint = call[r].fingerprint
        OBVIOUS
    <2> HIDE DEF pay
    <2> QED BY <1>1, <1>4, <1>6, <1>7, <1>8, <2>1, <2>2 DEF IntentInv
<1>13. \A j \in Key : operation'[j].status = "COMPLETED" =>
            operation'[j].payment \in Made' /\ payment'[operation'[j].payment].key = j
    <2>1. \A j \in Key : j # k /\ operation[j].status = "COMPLETED" =>
            operation[j].payment \in Made /\ payment[operation[j].payment].key = j
        BY <1>1 DEF IntentInv
    <2> QED BY <1>6, <1>8, <1>9, <2>1
<1>14. \A s \in Request : call'[s].pc \in {"replay", "replayed"} =>
            /\ call'[s].result \in Made'
            /\ payment'[call'[s].result].key = call'[s].key
            /\ payment'[call'[s].result].fingerprint = call'[s].fingerprint
    BY <1>1, <1>2, <1>8, <1>9 DEF IntentInv
<1> QED BY <1>10, <1>11, <1>12, <1>13, <1>14 DEF IntentInv

LEMMA NextIntent == IntentOk /\ [Next]_vars => IntentOk'
PROOF
<1> SUFFICES ASSUME IntentOk, [Next]_vars PROVE IntentInv'
    BY NextTyped DEF IntentOk
<1>1. Typed /\ IntentInv
    BY DEF IntentOk
<1>2. CASE UNCHANGED <<operation, call, payment>>
    BY <1>1, <1>2 DEF IntentInv, Made
<1>3. ASSUME NEW r \in Request, Find(r) PROVE IntentInv'
    <2>1. /\ payment' = payment /\ operation' = operation /\ call[r].pc \in Unpaid
          /\ call[r].key \in Key
        BY <1>1, <1>3 DEF Find, ledgers, At, Unpaid, Reserving, Typed, Addressed
    <2>2. /\ call'[r].key = call[r].key /\ call'[r].fingerprint = call[r].fingerprint
          /\ \A s \in Request : s # r => call'[s] = call[s]
          /\ \/ call'[r].pc \in {"create", "refused", "reclaim"}
             \/ /\ call'[r].pc = "replay"
                /\ operation[call[r].key].status = "COMPLETED"
                /\ operation[call[r].key].fingerprint = call[r].fingerprint
                /\ call'[r].result = operation[call[r].key].payment
        BY <1>1, <1>3, FindFacts
    <2>3. CASE call'[r].pc \in {"create", "refused", "reclaim"}
        BY <2>1, <2>2, <2>3, NoPaymentStep DEF Owning, InTransaction
    <2>4. CASE /\ call'[r].pc = "replay"
               /\ operation[call[r].key].status = "COMPLETED"
               /\ operation[call[r].key].fingerprint = call[r].fingerprint
               /\ call'[r].result = operation[call[r].key].payment
        <3>1. /\ call'[r].result \in Made
              /\ payment[call'[r].result].key = call[r].key
            BY <1>1, <2>1, <2>4 DEF IntentInv
        <3>2. payment[call'[r].result].fingerprint = call[r].fingerprint
            BY <1>1, <2>4, <3>1 DEF IntentInv
        <3> QED BY <2>1, <2>2, <2>4, <3>1, <3>2, NoPaymentStep DEF Owning, InTransaction
    <2> QED BY <2>2, <2>3, <2>4
<1>4. ASSUME NEW r \in Request, Create(r) \/ TryReclaim(r) PROVE IntentInv'
    <2> DEFINE k == call[r].key
    <2>1. /\ payment' = payment /\ call[r].pc \in Unpaid /\ k \in Key
        BY <1>1, <1>4 DEF Create, TryReclaim, ledgers, At, Unpaid, Reserving, Typed, Addressed
    <2>2. CASE Moves(r, "refused") /\ UNCHANGED operation
        BY <2>1, <2>2, NoPaymentStep DEF Moves, Owning, InTransaction
    <2>3. CASE /\ Moves(r, "validate")
               /\ operation[k].status = "NONE" \/
                  operation[k].fingerprint = call[r].fingerprint
               /\ operation' = [operation EXCEPT ![k] =
                    [status |-> "PROCESSING", fingerprint |-> call[r].fingerprint,
                     stuck |-> FALSE, payment |-> None]]
        <3>1. /\ operation'[k].status = "PROCESSING"
              /\ operation'[k].fingerprint = call[r].fingerprint
              /\ \A j \in Key : j # k => operation'[j] = operation[j]
            BY <1>1, <2>1, <2>3 DEF Typed, TypeOK
        <3>2. /\ call'[r].pc = "validate" /\ call'[r].key = k
              /\ call'[r].fingerprint = call[r].fingerprint
              /\ \A s \in Request : s # r => call'[s] = call[s]
            BY <2>3 DEF Moves
        <3> QED BY <2>1, <2>3, <3>1, <3>2, NoPaymentStep
    <2> QED BY <1>1, <1>4, <2>2, <2>3, ClaimFacts
<1>5. ASSUME NEW r \in Request,
             \/ Replay(r) \/ Validate(r) \/ Finish(r)
             \/ Rollback(r) \/ StatementFails(r) \/ Crash(r)
      PROVE  IntentInv'
    <2>1. UNCHANGED <<operation, payment>>
        BY <1>1, <1>5, QuietFacts
    <2>2. PICK step \in {"replayed", "lock", "fail", "answered", "dead"} :
            /\ Moves(r, step)
            /\ step = "lock" => At(r, "validate") /\ lock' = lock
            /\ step = "replayed" => At(r, "replay")
            /\ step = "fail" => call[r].pc \in Owning
        BY <1>1, <1>5, QuietFacts
    <2>3. /\ call'[r].pc \in Unpaid => call[r].pc \in Unpaid
          /\ call'[r].pc \in Owning => call[r].pc \in Owning
          /\ call'[r].pc \in {"replay", "replayed"} => call[r].pc = "replay"
        BY <2>2 DEF Moves, At, Unpaid, Owning, InTransaction, Reserving
    <2>4. call'[r].pc \in Owning =>
            /\ operation'[call'[r].key].status # "NONE"
            /\ operation'[call'[r].key].fingerprint = call'[r].fingerprint
        BY <1>1, <2>1, <2>2, <2>3 DEF IntentInv, Moves
    <2>5. call'[r].pc \in {"replay", "replayed"} =>
            /\ call'[r].result \in Made
            /\ payment[call'[r].result].key = call'[r].key
            /\ payment[call'[r].result].fingerprint = call'[r].fingerprint
        BY <1>1, <2>2, <2>3 DEF IntentInv, Moves
    <2> QED BY <2>1, <2>2, <2>3, <2>4, <2>5, NoPaymentStep DEF Moves
<1>6. ASSUME NEW r \in Request, MarkFailed(r) PROVE IntentInv'
    <2> DEFINE k == call[r].key
    <2>1. /\ payment' = payment /\ k \in Key /\ operation[k].status # "NONE"
        BY <1>1, <1>6 DEF MarkFailed, ledgers, At, Typed, Addressed, Owned, Owning
    <2>2. operation[k] \in Row
        BY <1>1, <2>1 DEF Typed, TypeOK, NoRow
    <2>3. /\ operation'[k].status = "FAILED"
          /\ operation'[k].fingerprint = operation[k].fingerprint
          /\ \A j \in Key : j # k => operation'[j] = operation[j]
        <3>1. operation' = [operation EXCEPT ![k] = [operation[k] EXCEPT !.status = "FAILED"]]
            BY <1>1, <1>6, MarkFailedFacts
        <3> QED BY <1>1, <2>1, <2>2, <3>1 DEF Row, Typed, TypeOK
    <2>4. /\ call'[r].pc = "failed" /\ \A s \in Request : s # r => call'[s] = call[s]
        BY <1>1, <1>6, MarkFailedFacts DEF Moves
    <2>5. call'[r].pc \notin Unpaid \cup Owning
        BY <2>4 DEF Unpaid, Owning, InTransaction, Reserving
    <2> QED BY <2>1, <2>3, <2>4, <2>5, NoPaymentStep
<1>7. ASSUME NEW r \in Request, Lock(r) \/ SumDebts(r) \/ SumPayments(r) PROVE IntentInv'
    <2>1. /\ UNCHANGED <<operation, payment>>
          /\ call[r].pc \in Unpaid \cap Owning
          /\ call'[r].key = call[r].key /\ call'[r].fingerprint = call[r].fingerprint
          /\ call'[r].pc \notin {"replay", "replayed"}
          /\ \A s \in Request : s # r => call'[s] = call[s]
        <3>1. CASE Lock(r)
            <4>1. /\ UNCHANGED <<operation, payment>> /\ call[r].pc = "lock"
                  /\ call'[r] = [call[r] EXCEPT !.pc = "sum", !.debtSum = None, !.paidSum = None]
                  /\ \A s \in Request : s # r => call'[s] = call[s]
                BY <1>1, <3>1, LockFacts DEF At
            <4>2. call[r] \in Call
                BY <1>1 DEF Typed, TypeOK
            <4>3. /\ call'[r].key = call[r].key /\ call'[r].fingerprint = call[r].fingerprint
                  /\ call'[r].pc = "sum"
                BY <4>1, <4>2 DEF Call
            <4> QED BY <4>1, <4>3 DEF Unpaid, Owning, InTransaction
        <3>2. CASE SumDebts(r) \/ SumPayments(r)
            BY <1>1, <3>2, SumFacts DEF At, Unpaid, Owning, InTransaction
        <3> QED BY <1>7, <3>1, <3>2
    <2>2. /\ operation[call[r].key].status # "NONE"
          /\ operation[call[r].key].fingerprint = call[r].fingerprint
        BY <1>1, <2>1 DEF IntentInv
    <2> QED BY <2>1, <2>2, NoPaymentStep
<1>8. ASSUME NEW r \in Request, Commit(r) PROVE IntentInv'
    BY <1>8, CommitIntent
<1>9. ASSUME NEW r \in Request, NEW k \in Key, NEW p \in Payload, Receive(r, k, p)
      PROVE  IntentInv'
    <2>1. /\ UNCHANGED <<operation, payment>>
          /\ call[r].pc \in Unpaid /\ call'[r].pc = "find"
          /\ \A s \in Request : s # r => call'[s] = call[s]
        BY <1>1, <1>9, ReceiveFacts DEF At, Unpaid
    <2>2. call'[r].pc \notin Owning \cup {"replay", "replayed"}
        BY <2>1 DEF Owning, InTransaction
    <2> QED BY <2>1, <2>2, NoPaymentStep
<1>10. ASSUME NEW k \in Key, Age(k) PROVE IntentInv'
    <2>1. /\ UNCHANGED <<call, payment>>
          /\ \A j \in Key : /\ operation'[j].status = operation[j].status
                            /\ operation'[j].fingerprint = operation[j].fingerprint
                            /\ operation'[j].payment = operation[j].payment
        BY <1>1, <1>10, AgeFacts
    <2>2. /\ Made' = Made
          /\ \A s \in Request : call[s].pc \in Owning => call[s].key \in Key
          /\ \A s \in Made : payment[s].key \in Key
        BY <1>1, <2>1, MadeHasKey
           DEF Made, Typed, Addressed, At, Owning, InTransaction, PaymentRecord
    <2> QED BY <1>1, <2>1, <2>2 DEF IntentInv
<1>11. ASSUME NEW amount \in Price, Buy(amount) \/ Return(amount)
       PROVE  UNCHANGED <<operation, call, payment>>
    BY <1>1, <1>11, DebtFacts
<1> QED BY <1>2, <1>3, <1>4, <1>5, <1>6, <1>7, <1>8, <1>9, <1>10, <1>11
        DEF Next, ServerStep, vars

(* Whatever fails, one key stands for one intent.                           *)
THEOREM OneIntent == Spec => []OneIntentPerKey
PROOF
<1>1. IntentOk => OneIntentPerKey
    BY DEF IntentOk, IntentInv, OneIntentPerKey, PaymentsOf, At
<1> QED BY InitIntent, NextIntent, <1>1, PTL DEF Spec
---------------------------------------------------------------------------
(* Where calls may die but are never slow, and every commit is              *)
(* acknowledged: a row belongs to one call at a time.                       *)

OnlyCrashes == Faults \subseteq {"crash"}

Holding == Owning \ {"audit"}

(* A call holds its row fresh and alone until it has paid, a payment is     *)
(* that of the COMPLETED row of its key, and who paid remembers it.         *)
OwnInv ==
    /\ \A r \in Request : call[r].pc \in Holding =>
            /\ operation[call[r].key].status = "PROCESSING"
            /\ operation[call[r].key].stuck = FALSE
    /\ \A r \in Request : At(r, "audit") => operation[call[r].key].status = "COMPLETED"
    /\ \A r, s \in Request :
            call[r].pc \in Owning /\ call[s].pc \in Owning /\ call[r].key = call[s].key => r = s
    /\ \A r \in Made : /\ operation[payment[r].key].status = "COMPLETED"
                       /\ operation[payment[r].key].payment = r
    /\ \A r \in Request : call[r].pc \in {"audit", "answered"} =>
            call[r].result = r /\ r \in Made /\ payment[r].key = call[r].key

OwnOk == IntentOk /\ OwnInv

LEMMA InitOwn == Init => OwnOk
PROOF
<1>1. Init => OwnInv
    BY DEF Init, OwnInv, Made, Holding, Owning, InTransaction, At
<1> QED BY <1>1, InitIntent DEF OwnOk

(* A step of r that pays nothing and writes no row.                         *)
LEMMA OwnRowsKept ==
    ASSUME OwnOk, NEW r \in Request, UNCHANGED <<operation, payment>>,
           call'[r].key = call[r].key, call'[r].result = call[r].result,
           \A s \in Request : s # r => call'[s] = call[s],
           call'[r].pc \in Owning => call[r].pc \in Holding /\ call'[r].pc \in Holding,
           call'[r].pc = "answered" => call[r].pc = "audit"
    PROVE  OwnInv'
PROOF
<1>1. Made' = Made
    BY DEF Made
<1>2. call'[r].pc # "audit" /\ (call'[r].pc \in Holding => call'[r].pc \in Owning)
    BY DEF Holding, Owning
<1>3. \A s \in Request : call'[s].pc \in Owning => call[s].pc \in Owning
    BY DEF Holding
<1>4. \A s \in Request : call'[s].key = call[s].key /\ call'[s].result = call[s].result
    OBVIOUS
<1>5. \A s \in Request : call'[s].pc \in Holding => call[s].pc \in Holding
    BY <1>2
<1>6. \A s \in Request : /\ call'[s].pc = "audit" => call[s].pc = "audit"
                         /\ call'[s].pc = "answered" => call[s].pc \in {"audit", "answered"}
    BY <1>2
<1> QED BY <1>1, <1>3, <1>4, <1>5, <1>6 DEF OwnOk, OwnInv, At

(* A step of r that takes or gives up the row of its key, which nobody else *)
(* holds.                                                                   *)
LEMMA OwnRowWritten ==
    ASSUME OwnOk, NEW r \in Request, payment' = payment, call[r].key \in Key,
           call'[r].key = call[r].key,
           \A s \in Request : s # r => call'[s] = call[s],
           \A j \in Key : j # call[r].key => operation'[j] = operation[j],
           operation[call[r].key].status # "COMPLETED",
           \A s \in Request : s # r /\ call[s].pc \in Owning => call[s].key # call[r].key,
           call'[r].pc \in Holding =>
                /\ operation'[call[r].key].status = "PROCESSING"
                /\ operation'[call[r].key].stuck = FALSE,
           call'[r].pc \notin {"audit", "answered"}
    PROVE  OwnInv'
PROOF
<1>1. Typed /\ Made' = Made
    BY DEF Made, OwnOk, IntentOk
<1>2. \A s \in Request : call[s].pc \in Owning => call[s].key \in Key
    BY <1>1 DEF Typed, Addressed, At, Owning, InTransaction
<1>3. \A s \in Made : payment[s].key \in Key /\ payment[s].key # call[r].key
    BY <1>1, MadeHasKey DEF PaymentRecord, OwnOk, OwnInv
<1>4. Holding \subseteq Owning /\ "audit" \in Owning
    BY DEF Holding, Owning
<1>5. \A s \in Request : call'[s].pc \in Holding =>
            /\ operation'[call'[s].key].status = "PROCESSING"
            /\ operation'[call'[s].key].stuck = FALSE
    BY <1>2, <1>4 DEF OwnOk, OwnInv
<1>6. \A s \in Request : call'[s].pc = "audit" => operation'[call'[s].key].status = "COMPLETED"
    BY <1>2, <1>4 DEF OwnOk, OwnInv, At
<1>7. \A s, q \in Request :
        call'[s].pc \in Owning /\ call'[q].pc \in Owning /\ call'[s].key = call'[q].key => s = q
    BY DEF OwnOk, OwnInv
<1>8. \A s \in Made' : /\ operation'[payment'[s].key].status = "COMPLETED"
                       /\ operation'[payment'[s].key].payment = s
    BY <1>1, <1>3 DEF OwnOk, OwnInv
<1>9. \A s \in Request : call'[s].pc \in {"audit", "answered"} =>
            call'[s].result = s /\ s \in Made' /\ payment'[s].key = call'[s].key
    BY <1>1 DEF OwnOk, OwnInv
<1> QED BY <1>5, <1>6, <1>7, <1>8, <1>9 DEF OwnInv, At

LEMMA CommitOwn ==
    ASSUME OnlyCrashes, OwnOk, NEW r \in Request, Commit(r)
    PROVE  /\ OwnInv'
           /\ call'[r].pc = "audit" /\ Made' = Made \cup {r} /\ r \notin Made
           /\ payment'[r].key = call[r].key /\ call[r].key \in Key
           /\ \A s \in Made : payment'[s] = payment[s] /\ payment[s].key # call[r].key
PROOF
<1> DEFINE k == call[r].key
           pay == [key |-> k, fingerprint |-> call[r].fingerprint]
<1>1. Typed /\ IntentInv /\ OwnInv
    BY DEF OwnOk, IntentOk
<1>2. /\ call[r].pc = "insert" /\ payment' = [payment EXCEPT ![r] = pay]
      /\ operation' = [operation EXCEPT ![k] =
                        [operation[k] EXCEPT !.status = "COMPLETED", !.payment = r]]
      /\ operation[k].status # "NONE"
      /\ call'[r].key = k
      /\ \A s \in Request : s # r => call'[s] = call[s]
    BY <1>1, CommitFacts DEF At
<1>3. /\ k \in Key /\ operation \in [Key -> Row \cup {NoRow}]
      /\ payment \in [Request -> PaymentRecord \cup {NoPayment}] /\ call[r] \in Call
    BY <1>1, <1>2 DEF Typed, TypeOK, Addressed, At
<1>4. operation[k] \in Row /\ operation[k].status = "PROCESSING"
    BY <1>1, <1>2, <1>3 DEF NoRow, OwnInv, Holding, Owning, InTransaction
<1>5. /\ operation'[k].status = "COMPLETED" /\ operation'[k].payment = r
      /\ \A j \in Key : j # k => operation'[j] = operation[j]
    BY <1>2, <1>3, <1>4 DEF Row
<1>6. call'[r].pc = "audit" /\ call'[r].result = r
    <2>1. "lost_ack" \notin Faults
        BY DEF OnlyCrashes
    <2>2. call' = [call EXCEPT ![r] = [call[r] EXCEPT !.pc = "audit", !.result = r]]
        BY <2>1 DEF Commit, Set
    <2>3. call \in [Request -> Call]
        BY <1>1 DEF Typed, TypeOK
    <2>4. call'[r] = [call[r] EXCEPT !.pc = "audit", !.result = r]
        BY <2>2, <2>3
    <2> QED BY <1>3, <2>4 DEF Call
<1>7. payment[r] = NoPayment
    BY <1>1, <1>2 DEF IntentInv, Unpaid, InTransaction
<1>8. /\ payment'[r].key = k /\ payment'[r] # NoPayment
      /\ \A s \in Request : s # r => payment'[s] = payment[s]
    <2>1. k # None
        BY <1>3, NoneIsNothing
    <2> QED BY <1>2, <1>3, <2>1 DEF NoPayment
<1>9. Made' = Made \cup {r} /\ r \notin Made
    BY <1>7, <1>8 DEF Made
<1>10. \A s \in Made : /\ payment[s].key \in Key /\ payment[s].key # k
                       /\ payment'[s] = payment[s] /\ s \in Request
    BY <1>1, <1>4, <1>8, <1>9, MadeHasKey DEF PaymentRecord, OwnInv, Made
<1>11. /\ {"insert", "audit"} \subseteq Owning /\ "audit" \notin Holding /\ Holding \subseteq Owning
       /\ \A s \in Request : call[s].pc \in Owning => call[s].key \in Key
    BY <1>1 DEF Holding, Owning, InTransaction, Typed, Addressed, At
<1>12. \A s \in Request : s # r /\ call[s].pc \in Owning => call[s].key # k
    BY <1>1, <1>2, <1>11 DEF OwnInv
<1>13. \A s \in Request : call'[s].pc \in Holding =>
            /\ operation'[call'[s].key].status = "PROCESSING"
            /\ operation'[call'[s].key].stuck = FALSE
    BY <1>1, <1>2, <1>5, <1>6, <1>11, <1>12 DEF OwnInv
<1>14. \A s \in Request : call'[s].pc = "audit" => operation'[call'[s].key].status = "COMPLETED"
    BY <1>1, <1>2, <1>5, <1>6, <1>11, <1>12 DEF OwnInv, At
<1>15. \A s, q \in Request :
        call'[s].pc \in Owning /\ call'[q].pc \in Owning /\ call'[s].key = call'[q].key => s = q
    BY <1>1, <1>2, <1>12 DEF OwnInv
<1>16. \A s \in Made' : /\ operation'[payment'[s].key].status = "COMPLETED"
                        /\ operation'[payment'[s].key].payment = s
    BY <1>1, <1>5, <1>8, <1>9, <1>10 DEF OwnInv
<1>17. \A s \in Request : call'[s].pc \in {"audit", "answered"} =>
            call'[s].result = s /\ s \in Made' /\ payment'[s].key = call'[s].key
    BY <1>1, <1>2, <1>6, <1>8, <1>9, <1>10 DEF OwnInv
<1>18. OwnInv'
    BY <1>13, <1>14, <1>15, <1>16, <1>17 DEF OwnInv, At
<1> QED BY <1>3, <1>6, <1>8, <1>9, <1>10, <1>18

LEMMA NextOwn == ASSUME OnlyCrashes PROVE OwnOk /\ [Next]_vars => OwnOk'
PROOF
<1> SUFFICES ASSUME OwnOk, [Next]_vars PROVE OwnInv'
    BY NextIntent DEF OwnOk
<1>1. Typed /\ IntentInv /\ OwnInv
    BY DEF OwnOk, IntentOk
<1>a. Holding \subseteq Owning /\ "audit" \notin Holding
    BY DEF Holding
<1>2. CASE UNCHANGED <<operation, call, payment>>
    BY <1>1, <1>2 DEF OwnInv, Made, At
<1>3. ASSUME NEW r \in Request, Find(r) PROVE OwnInv'
    <2>1. /\ UNCHANGED <<operation, payment>> /\ call[r].pc = "find"
          /\ call'[r].pc \notin Owning \cup {"answered", "audit"}
          /\ \A s \in Request : s # r => call'[s] = call[s]
          /\ call'[r].key = call[r].key
        BY <1>1, <1>3, FindFacts DEF Find, ledgers, At, Owning, InTransaction
    <2> QED BY <1>1, <1>a, <2>1 DEF OwnInv, Made, At
<1>4. ASSUME NEW r \in Request, Create(r) \/ TryReclaim(r) PROVE OwnInv'
    <2> DEFINE k == call[r].key
    <2>1. payment' = payment /\ call[r].pc \notin Owning /\ k \in Key
        BY <1>1, <1>4 DEF Create, TryReclaim, ledgers, At, Owning, InTransaction, Typed, Addressed
    <2>2. CASE Moves(r, "refused") /\ UNCHANGED operation
        BY <2>1, <2>2, OwnRowsKept DEF Moves, Owning, InTransaction
    <2>3. CASE /\ Moves(r, "validate")
               /\ operation' = [operation EXCEPT ![k] =
                    [status |-> "PROCESSING", fingerprint |-> call[r].fingerprint,
                     stuck |-> FALSE, payment |-> None]]
        <3>1. \/ operation[k].status \in {"NONE", "FAILED"}
              \/ operation[k].status = "PROCESSING" /\ operation[k].stuck
            <4>1. ~Goto(r, "refused")
                BY <1>1, <2>3 DEF Moves, Goto, Set, Typed, TypeOK, Call
            <4> QED BY <1>4, <4>1 DEF Create, TryReclaim, Reclaimable
        <3>2. \A s \in Request : s # r /\ call[s].pc \in Owning => call[s].key # k
            BY <1>1, <3>1 DEF OwnInv, IntentInv, Holding, At
        <3>3. /\ operation'[k].status = "PROCESSING" /\ operation'[k].stuck = FALSE
              /\ \A j \in Key : j # k => operation'[j] = operation[j]
            BY <1>1, <2>1, <2>3 DEF Typed, TypeOK
        <3> QED BY <2>1, <2>3, <3>1, <3>2, <3>3, OwnRowWritten DEF Moves
    <2> QED BY <1>1, <1>4, <2>2, <2>3, ClaimFacts
<1>5. ASSUME NEW r \in Request,
             \/ Replay(r) \/ Validate(r) \/ Rollback(r) \/ StatementFails(r) \/ Crash(r)
      PROVE  OwnInv'
    <2>1. UNCHANGED <<operation, payment>>
        BY <1>1, <1>5, QuietFacts
    <2>2. \E step \in {"replayed", "lock", "fail", "dead"} :
            /\ Goto(r, step)
            /\ step \in {"lock", "fail"} => call[r].pc \in Holding
        BY <1>5 DEF Replay, Validate, Rollback, StatementFails, Crash, At, Holding, Owning,
           InTransaction
    <2>3. PICK step \in {"replayed", "lock", "fail", "dead"} :
            /\ Moves(r, step)
            /\ step \in {"lock", "fail"} => call[r].pc \in Holding
        BY ZenonT(40), <1>1, <2>2, GotoFacts DEF Typed, Moves, Pc, Owning, Ended
    <2>4. call'[r].pc \in Owning => call[r].pc \in Holding /\ call'[r].pc \in Holding
        BY <2>3 DEF Moves, Holding, Owning, InTransaction
    <2> QED BY <2>1, <2>3, <2>4, OwnRowsKept DEF Moves
<1>6. ASSUME NEW r \in Request, Finish(r) PROVE OwnInv'
    <2>1. /\ UNCHANGED <<operation, payment>> /\ call[r].pc = "audit" /\ Moves(r, "answered")
        BY <1>1, <1>6, GotoFacts DEF Finish, ledgers, Typed, Moves, Pc, Ended, At
    <2> QED BY <2>1, OwnRowsKept DEF Moves, Owning, InTransaction
<1>7. ASSUME NEW r \in Request, MarkFailed(r) PROVE OwnInv'
    <2> DEFINE k == call[r].key
    <2>1. payment' = payment /\ k \in Key /\ call[r].pc = "fail" /\ call[r].pc \in Holding
        BY <1>1, <1>7 DEF MarkFailed, ledgers, At, Typed, Addressed, Holding, Owning
    <2>2. operation[k].status = "PROCESSING"
        BY <1>1, <2>1 DEF OwnInv
    <2>3. \A s \in Request : s # r /\ call[s].pc \in Owning => call[s].key # k
        BY <1>1, <1>a, <2>1 DEF OwnInv
    <2>4. \A j \in Key : j # k => operation'[j] = operation[j]
        BY <1>1, <1>7, MarkFailedFacts DEF Typed, TypeOK
    <2>5. Moves(r, "failed") /\ "failed" \notin Holding
        BY <1>1, <1>7, MarkFailedFacts DEF Holding, Owning, InTransaction
    <2> QED BY <2>1, <2>2, <2>3, <2>4, <2>5, OwnRowWritten DEF Moves
<1>8. ASSUME NEW r \in Request, Lock(r) \/ SumDebts(r) \/ SumPayments(r) PROVE OwnInv'
    <2>1. call[r] \in Call
        BY <1>1 DEF Typed, TypeOK
    <2>2. /\ UNCHANGED <<operation, payment>>
          /\ call[r].pc \in {"lock", "sum"} /\ call'[r].pc \in {"sum", "insert"}
          /\ call'[r].key = call[r].key /\ call'[r].result = call[r].result
          /\ \A s \in Request : s # r => call'[s] = call[s]
        <3>1. CASE Lock(r)
            <4>1. /\ UNCHANGED <<operation, payment>> /\ call[r].pc = "lock"
                  /\ call'[r] = [call[r] EXCEPT !.pc = "sum", !.debtSum = None, !.paidSum = None]
                  /\ \A s \in Request : s # r => call'[s] = call[s]
                BY <1>1, <3>1, LockFacts DEF At
            <4> QED BY <2>1, <4>1 DEF Call
        <3>2. CASE SumDebts(r)
            <4>1. call'[r].result = call[r].result
                BY <1>1, <2>1, <3>2 DEF SumDebts, Set, Typed, TypeOK, Call
            <4> QED BY <1>1, <3>2, <4>1, SumFacts DEF At, InTransaction
        <3>3. CASE SumPayments(r)
            <4>1. call'[r].result = call[r].result
                BY <1>1, <2>1, <3>3 DEF SumPayments, Set, Typed, TypeOK, Call
            <4> QED BY <1>1, <3>3, <4>1, SumFacts DEF At, InTransaction
        <3> QED BY <1>8, <3>1, <3>2, <3>3
    <2>3. {"lock", "sum", "insert"} \subseteq Holding
        BY DEF Holding, Owning, InTransaction
    <2> QED BY <2>2, <2>3, OwnRowsKept
<1>9. ASSUME NEW r \in Request, NEW k \in Key, NEW p \in Payload, Receive(r, k, p)
      PROVE  OwnInv'
    <2>1. /\ UNCHANGED <<operation, payment>> /\ call[r].pc = "idle" /\ call'[r].pc = "find"
          /\ \A s \in Request : s # r => call'[s] = call[s]
        BY <1>1, <1>9, ReceiveFacts DEF At
    <2>2. "find" \notin Owning \cup {"audit", "answered"}
        BY DEF Owning, InTransaction
    <2> QED BY <1>1, <1>a, <2>1, <2>2 DEF OwnInv, Made, At
<1>10. ASSUME NEW k \in Key, Age(k) PROVE OwnInv'
    <2>1. /\ UNCHANGED <<call, payment>>
          /\ \A j \in Key : /\ operation'[j].status = operation[j].status
                            /\ operation'[j].payment = operation[j].payment
        BY <1>1, <1>10, AgeFacts
    <2>2. Owners(k) = {} /\ \A j \in Key : j # k => operation'[j] = operation[j]
        BY <1>1, <1>10 DEF Age, OnlyCrashes, Typed, TypeOK
    <2>3. /\ Made' = Made
          /\ \A s \in Request : call[s].pc \in Owning => call[s].key \in Key /\ call[s].key # k
          /\ \A s \in Made : payment[s].key \in Key
        BY <1>1, <2>1, <2>2, MadeHasKey
           DEF Made, Typed, Addressed, At, Owning, InTransaction, PaymentRecord, Owners
    <2>4. "audit" \in Owning
        BY DEF Owning
    <2>5. \A s \in Request : call'[s].pc \in Holding =>
            /\ operation'[call'[s].key].status = "PROCESSING"
            /\ operation'[call'[s].key].stuck = FALSE
        BY <1>1, <1>a, <2>1, <2>2, <2>3 DEF OwnInv
    <2>6. \A s \in Request : call'[s].pc = "audit" => operation'[call'[s].key].status = "COMPLETED"
        BY <1>1, <2>1, <2>3, <2>4 DEF OwnInv, At
    <2>7. \A s \in Made' : /\ operation'[payment'[s].key].status = "COMPLETED"
                           /\ operation'[payment'[s].key].payment = s
        BY <1>1, <2>1, <2>3 DEF OwnInv
    <2> QED BY <1>1, <2>1, <2>3, <2>5, <2>6, <2>7 DEF OwnInv, At
<1>11. ASSUME NEW amount \in Price, Buy(amount) \/ Return(amount)
       PROVE  UNCHANGED <<operation, call, payment>>
    BY <1>1, <1>11, DebtFacts
<1>12. ASSUME NEW r \in Request, Commit(r) PROVE OwnInv'
    BY <1>12, CommitOwn
<1> QED BY <1>2, <1>3, <1>4, <1>5, <1>6, <1>7, <1>8, <1>9, <1>10, <1>11, <1>12
        DEF Next, ServerStep, vars

LEMMA AlwaysOwn == ASSUME OnlyCrashes PROVE Spec => []OwnOk
PROOF
<1>1. OwnOk /\ [Next]_vars => OwnOk'
    BY NextOwn
<1> QED BY <1>1, InitOwn, PTL DEF Spec

(* Where calls may die but are never slow, the call that marks a row FAILED *)
(* is the only one at work on it.                                           *)
THEOREM OwnerAloneFails ==
    ASSUME OnlyCrashes
    PROVE  Spec => [][\A r \in Request : MarkFailed(r) => Owners(call[r].key) = {r}]_vars
PROOF
<1>1. OwnOk => \A r \in Request : MarkFailed(r) => Owners(call[r].key) = {r}
    BY DEF OwnOk, OwnInv, MarkFailed, At, Owners, Owning
<1> QED BY <1>1, AlwaysOwn, PTL DEF Spec

---------------------------------------------------------------------------
(* The refinement of IdempotentCommand *)

AllAnswered == {r \in Request : call[r].pc \in {"answered", "replayed"}}
Effects == [k \in Key |-> PaymentsOf(k)]
Answers == {<<call[r].key, call[r].result>> : r \in AllAnswered}
AtMostOnce == INSTANCE IdempotentCommand WITH
    Effect <- Request, effects <- Effects, answers <- Answers

LEMMA AnswersKept ==
    ASSUME NEW r \in Request, \A s \in Request : s # r => call'[s] = call[s],
           call[r].pc \notin {"answered", "replayed"},
           call'[r].pc \notin {"answered", "replayed"}
    PROVE  Answers' = Answers
PROOF
<1>1. AllAnswered' = AllAnswered /\ r \notin AllAnswered
    BY DEF AllAnswered
<1>2. \A s \in AllAnswered : call'[s] = call[s]
    BY <1>1 DEF AllAnswered
<1>3. Answers' = {<<call'[s].key, call'[s].result>> : s \in AllAnswered}
    BY <1>1 DEF Answers
<1> QED BY <1>2, <1>3 DEF Answers

(* The commit is the execution of the command, the only one of its key.     *)
LEMMA CommitExecutes ==
    ASSUME OnlyCrashes, OwnOk, NEW r \in Request, Commit(r)
    PROVE  AtMostOnce!Next
PROOF
<1> DEFINE k == call[r].key
<1>1. /\ call'[r].pc = "audit" /\ Made' = Made \cup {r} /\ r \notin Made
      /\ payment'[r].key = k /\ k \in Key
      /\ \A s \in Made : payment'[s] = payment[s] /\ payment[s].key # k
    BY CommitOwn
<1>2. \A j \in Key : PaymentsOf(j)' = IF j = k THEN {r} ELSE PaymentsOf(j)
    BY <1>1 DEF PaymentsOf
<1>3. Effects' = [Effects EXCEPT ![k] = {r}]
    BY <1>1, <1>2 DEF Effects
<1>4. call[r].pc = "insert" /\ \A s \in Request : s # r => call'[s] = call[s]
    BY CommitFacts DEF OwnOk, IntentOk, At
<1>5. Answers' = Answers
    BY <1>1, <1>4, AnswersKept
<1>6. Effects[k] = {} /\ \A j \in Key : r \notin Effects[j]
    BY <1>1 DEF Effects, PaymentsOf
<1> QED BY <1>1, <1>3, <1>5, <1>6 DEF AtMostOnce!Next, AtMostOnce!Execute

(* Finishing and replaying answer the caller with the payment of its key.   *)
LEMMA AnswerStep ==
    ASSUME OwnOk, NEW r \in Request, NEW step \in {"answered", "replayed"},
           call[r].pc \in {"audit", "replay"}, Goto(r, step), payment' = payment
    PROVE  AtMostOnce!Next
PROOF
<1> DEFINE k == call[r].key
           e == call[r].result
<1>1. Typed /\ IntentInv /\ OwnInv
    BY DEF OwnOk, IntentOk
<1>2. k \in Key /\ e \in Made /\ payment[e].key = k
    BY <1>1 DEF Typed, Addressed, At, IntentInv, OwnInv
<1>3. /\ \A s \in Request : call'[s].key = call[s].key /\ call'[s].result = call[s].result
      /\ \A s \in Request : call'[s].pc = IF s = r THEN step ELSE call[s].pc
    <2>1. step \in Pc
        BY DEF Pc, Ended
    <2> QED BY ZenonT(40), <1>1, <2>1, GotoFacts DEF Typed
<1>4. AllAnswered' = AllAnswered \cup {r}
    BY <1>3 DEF AllAnswered
<1>5. Answers' = Answers \cup {<<k, e>>}
    <2>1. Answers' = {<<call'[s].key, call'[s].result>> : s \in AllAnswered \cup {r}}
        BY <1>4 DEF Answers
    <2>2. \A s \in AllAnswered \cup {r} : <<call'[s].key, call'[s].result>>
                                        = <<call[s].key, call[s].result>>
        BY <1>3 DEF AllAnswered
    <2>3. Answers' = {<<call[s].key, call[s].result>> : s \in AllAnswered \cup {r}}
        BY <2>1, <2>2
    <2> QED BY <2>3 DEF Answers
<1>6. Effects' = Effects /\ e \in Effects[k]
    BY <1>2 DEF Effects, PaymentsOf, Made
<1> QED BY <1>2, <1>5, <1>6 DEF AtMostOnce!Next, AtMostOnce!Answer

LEMMA StepRefines ==
    ASSUME OnlyCrashes, OwnOk, [Next]_vars
    PROVE  [AtMostOnce!Next]_(AtMostOnce!vars)
PROOF
<1>a. Typed
    BY DEF OwnOk, IntentOk
<1>b. /\ {"answered", "replayed"} \cap (Owning \cup Reserving \cup {"idle", "replay"}) = {}
    BY DEF Owning, Reserving, InTransaction
<1>1. ASSUME UNCHANGED <<Effects, Answers>> PROVE [AtMostOnce!Next]_(AtMostOnce!vars)
    BY <1>1 DEF AtMostOnce!vars
<1>2. ASSUME NEW r \in Request, payment' = payment,
             \A s \in Request : s # r => call'[s] = call[s],
             call[r].pc \notin {"answered", "replayed"},
             call'[r].pc \notin {"answered", "replayed"}
      PROVE  [AtMostOnce!Next]_(AtMostOnce!vars)
    <2>1. Effects' = Effects
        BY <1>2 DEF Effects, PaymentsOf, Made
    <2> QED BY <1>1, <1>2, <2>1, AnswersKept
<1>3. CASE UNCHANGED <<call, payment>>
    <2>1. UNCHANGED <<Effects, Answers>>
        BY <1>3 DEF Effects, Answers, PaymentsOf, Made, AllAnswered
    <2> QED BY <1>1, <2>1
<1>4. ASSUME NEW r \in Request, Find(r) PROVE [AtMostOnce!Next]_(AtMostOnce!vars)
    <2>1. payment' = payment /\ call[r].pc = "find"
        BY <1>4 DEF Find, ledgers, At
    <2>2. /\ call'[r].pc \in {"create", "refused", "reclaim", "replay"}
          /\ \A s \in Request : s # r => call'[s] = call[s]
        BY <1>a, <1>4, FindFacts
    <2> QED BY <1>2, <2>1, <2>2
<1>5. ASSUME NEW r \in Request, Create(r) \/ TryReclaim(r)
      PROVE  [AtMostOnce!Next]_(AtMostOnce!vars)
    <2>1. payment' = payment /\ call[r].pc \in {"create", "reclaim"}
        BY <1>5 DEF Create, TryReclaim, ledgers, At
    <2>2. Moves(r, "refused") \/ Moves(r, "validate")
        BY <1>a, <1>5, ClaimFacts
    <2> QED BY <1>2, <2>1, <2>2 DEF Moves
<1>6. ASSUME NEW r \in Request, Replay(r) \/ Finish(r) PROVE AtMostOnce!Next
    <2>1. call[r].pc \in {"audit", "replay"} /\ payment' = payment
        BY <1>6 DEF Replay, Finish, At, ledgers
    <2>2. Goto(r, "replayed") \/ Goto(r, "answered")
        BY <1>6 DEF Replay, Finish
    <2> QED BY <2>1, <2>2, AnswerStep
<1>7. ASSUME NEW r \in Request,
             Validate(r) \/ Rollback(r) \/ StatementFails(r) \/ Crash(r)
      PROVE  [AtMostOnce!Next]_(AtMostOnce!vars)
    <2>1. payment' = payment /\ call[r].pc \in Owning \cup Reserving \cup {"replay"}
        BY <1>7 DEF Validate, Rollback, StatementFails, Crash, ledgers, At, Owning, InTransaction
    <2>2. Goto(r, "lock") \/ Goto(r, "fail") \/ Goto(r, "dead")
        BY <1>7 DEF Validate, Rollback, StatementFails, Crash
    <2>3. /\ call'[r].pc \in {"lock", "fail", "dead"}
          /\ \A s \in Request : s # r => call'[s] = call[s]
        BY <1>a, <2>2, GotoFacts DEF Typed, Pc, Owning, Ended
    <2> QED BY <1>2, <1>b, <2>1, <2>3
<1>8. ASSUME NEW r \in Request, Lock(r) \/ SumDebts(r) \/ SumPayments(r)
      PROVE  [AtMostOnce!Next]_(AtMostOnce!vars)
    <2>1. payment' = payment /\ call[r].pc \in {"lock", "sum"}
        BY <1>8 DEF Lock, SumDebts, SumPayments, ledgers, At
    <2>2. call'[r].pc \in InTransaction /\ \A s \in Request : s # r => call'[s] = call[s]
        <3>1. CASE Lock(r)
            <4>1. /\ call[r] \in Call
                  /\ call'[r] = [call[r] EXCEPT !.pc = "sum", !.debtSum = None, !.paidSum = None]
                  /\ \A s \in Request : s # r => call'[s] = call[s]
                BY <1>a, <3>1, LockFacts DEF Typed, TypeOK
            <4> QED BY <4>1 DEF Call, InTransaction
        <3>2. CASE SumDebts(r) \/ SumPayments(r)
            BY <1>a, <3>2, SumFacts
        <3> QED BY <1>8, <3>1, <3>2
    <2> QED BY <1>2, <2>1, <2>2 DEF InTransaction
<1>9. ASSUME NEW r \in Request, MarkFailed(r) PROVE [AtMostOnce!Next]_(AtMostOnce!vars)
    <2>1. payment' = payment /\ call[r].pc = "fail" /\ Moves(r, "failed")
        BY <1>a, <1>9, MarkFailedFacts DEF MarkFailed, ledgers, At
    <2> QED BY <1>2, <2>1 DEF Moves
<1>10. ASSUME NEW r \in Request, NEW k \in Key, NEW p \in Payload, Receive(r, k, p)
       PROVE  [AtMostOnce!Next]_(AtMostOnce!vars)
    <2>1. /\ payment' = payment /\ call[r].pc = "idle" /\ call'[r].pc = "find"
          /\ \A s \in Request : s # r => call'[s] = call[s]
        BY <1>a, <1>10, ReceiveFacts DEF At
    <2> QED BY <1>2, <2>1
<1>11. ASSUME NEW k \in Key, Age(k) PROVE UNCHANGED <<call, payment>>
    BY <1>a, <1>11, AgeFacts
<1>12. ASSUME NEW amount \in Price, Buy(amount) \/ Return(amount)
       PROVE  UNCHANGED <<call, payment>>
    BY <1>a, <1>12, DebtFacts
<1>13. ASSUME NEW r \in Request, ServerStep(r) \/ StatementFails(r) \/ Crash(r)
       PROVE  [AtMostOnce!Next]_(AtMostOnce!vars)
    BY <1>4, <1>5, <1>6, <1>7, <1>8, <1>9, <1>13, CommitExecutes DEF ServerStep
<1> QED BY <1>3, <1>10, <1>11, <1>12, <1>13 DEF Next, vars

(* In that environment rows, lock and retries together implement the        *)
(* at-most-once command.                                                    *)
THEOREM ImplementsAtMostOnce == ASSUME OnlyCrashes PROVE Spec => AtMostOnce!Spec
PROOF
<1>1. Init => AtMostOnce!Init
    BY DEF Init, AtMostOnce!Init, Effects, Answers, PaymentsOf, Made, AllAnswered
<1>2. OwnOk /\ [Next]_vars => [AtMostOnce!Next]_(AtMostOnce!vars)
    BY StepRefines
<1> QED BY <1>1, <1>2, AlwaysOwn, PTL DEF Spec, AtMostOnce!Spec
==============================================================================
