-------------------------- MODULE IdempotentCommand --------------------------
(***************************************************************************)
(* What the three idempotent money commands of the backend (POST /checkout, *)
(* POST supplier payment, POST sales-return refund) promise a client that   *)
(* sends an Idempotency-Key: under one key the command takes effect at most *)
(* once, and whoever is answered under that key is answered with that one   *)
(* effect (docs/rfc/RFC-T013-sales-foundation.md, section 19, principles    *)
(* 3, 5 and 7).  It says nothing of how: no operation row, no statement, no *)
(* retry.                                                                   *)
(***************************************************************************)
CONSTANTS
    Key,        \* the idempotency keys
    Effect      \* identities of the effects (invoices, payments, refunds)

VARIABLES
    effects,    \* effects[k]: the effects committed under k
    answers     \* <<k, e>>: somebody calling with k was answered with e

vars == <<effects, answers>>

TypeOK ==
    /\ effects \in [Key -> SUBSET Effect]
    /\ answers \subseteq Key \X Effect

Init ==
    /\ effects = [k \in Key |-> {}]
    /\ answers = {}

(* The one execution of the command of key k. *)
Execute(k, e) ==
    /\ effects[k] = {}
    /\ \A other \in Key : e \notin effects[other]
    /\ effects' = [effects EXCEPT ![k] = {e}]
    /\ UNCHANGED answers

(* Answering a caller of k, the first or a repeated one. *)
Answer(k) ==
    \E e \in effects[k] :
        /\ answers' = answers \cup {<<k, e>>}
        /\ UNCHANGED effects

Next == \E k \in Key : Answer(k) \/ \E e \in Effect : Execute(k, e)

Spec == Init /\ [][Next]_vars
==============================================================================
