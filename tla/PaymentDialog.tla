----------------------------- MODULE PaymentDialog -----------------------------
(***************************************************************************)
(* The two forms that move money under a key of their own making: the       *)
(* dialog that pays a supplier and the panel that refunds a return          *)
(* (frontend/src/features/supplier, sales-return).  A key is minted ahead   *)
(* and kept while the same thing is sent again; requests may overtake each  *)
(* other, be served after the page has given them up, and be answered after *)
(* the dialog was closed or opened again.                                   *)
(*                                                                          *)
(* A minted key nobody has sent is Fresh; from its first use on it is       *)
(* called by the number of that submission.  The server is what             *)
(* SupplierPayment and RefundCommand promise: a key pays once, and for one  *)
(* intent.                                                                  *)
(***************************************************************************)
EXTENDS Integers, Sequences, FiniteSets

CONSTANTS
    Content,        \* what the fingerprint of a submission tells apart
    MaxSubmissions, \* bounds how often the user submits
    Nothing         \* no fingerprint yet

PaymentDialogAssumption == MaxSubmissions \in Nat /\ Nothing \notin Content

VARIABLES
    page,           \* the form, keyRef and lastFingerprintRef
    submission,     \* the requests sent so far
    payment         \* what the server has paid: pairs <<key, content>>

dialogVars == <<page, submission, payment>>

Fresh == 0
Key == 0 .. MaxSubmissions

(* page.since counts the submissions before the form was opened.  The       *)
(* attempt is history: the first submission of the current run of unchanged *)
(* ones since the form was opened or emptied, 0 before it.                  *)
TypeOK ==
    /\ page \in [kind : {"dialog", "panel"}, open : BOOLEAN, key : Key,
                 last : Content \cup {Nothing}, attempt : Key,
                 since : Key]
    /\ submission \in Seq([key : Key, content : Content, attempt : Key, served : BOOLEAN,
                           paid : BOOLEAN, answered : BOOLEAN])
    /\ payment \subseteq Key \X Content

Init ==
    /\ \E kind \in {"dialog", "panel"} :
        page = [kind |-> kind, open |-> FALSE, key |-> Fresh, last |-> Nothing,
                attempt |-> 0, since |-> 0]
    /\ submission = <<>>
    /\ payment = {}

---------------------------------------------------------------------------
Sent == DOMAIN submission
Next1 == Len(submission) + 1

(* prepareSubmit: a changed fingerprint mints a key.                        *)
KeyFor(content) ==
    IF page.key # Fresh /\ page.last \in {Nothing, content} THEN page.key ELSE Next1

(* isPending: the state of the last request the panel has sent.             *)
Pending == Len(submission) > page.since /\ ~submission[Len(submission)].answered

Retired == [page EXCEPT !.key = Fresh, !.last = Nothing]

(* The form starts empty: what is sent next is a new intent. *)
OpenForm ==
    /\ ~page.open
    /\ page' = [page EXCEPT !.open = TRUE, !.attempt = 0, !.since = Len(submission)]
    /\ UNCHANGED <<submission, payment>>

(* Cancel waits for the answer, Escape and the cross do not; the effect on  *)
(* open retires the key.  Leaving the panel drops its refs.                 *)
CloseForm ==
    /\ page.open
    /\ page' = [Retired EXCEPT !.open = FALSE]
    /\ UNCHANGED <<submission, payment>>

(* onSubmit.  The button of the dialog is only aria-disabled while a        *)
(* request is pending, that of the panel is disabled.                       *)
Submit(content) ==
    LET attempt == IF page.attempt # 0 /\ submission[Len(submission)].content = content
                   THEN page.attempt ELSE Next1
    IN
    /\ page.open /\ Len(submission) < MaxSubmissions
    /\ page.kind = "panel" => ~Pending
    /\ page' = [page EXCEPT !.key = KeyFor(content), !.last = content, !.attempt = attempt]
    /\ submission' = Append(submission,
            [key |-> KeyFor(content), content |-> content, attempt |-> attempt,
             served |-> FALSE, paid |-> FALSE, answered |-> FALSE])
    /\ UNCHANGED payment

(* The server pays, replays a payment, or refuses: another intent under the *)
(* key, one that is being processed, or a failure of its own.               *)
Serve(n) ==
    LET key == submission[n].key
        paidBefore == {p \in payment : p[1] = key}
    IN
    /\ ~submission[n].served
    /\ \/ /\ paidBefore \subseteq {<<key, submission[n].content>>}
          /\ payment' = payment \cup {<<key, submission[n].content>>}
          /\ submission' = [submission EXCEPT ![n] = [@ EXCEPT !.served = TRUE, !.paid = TRUE]]
       \/ /\ submission' = [submission EXCEPT ![n].served = TRUE]
          /\ UNCHANGED payment
    /\ UNCHANGED page

(* onSuccess.  The dialog is told of requests from any opening: the key is  *)
(* retired and the dialog closed.  The panel is emptied, and one that was   *)
(* left is gone.                                                            *)
OnSuccess(n) ==
    /\ submission[n].paid /\ ~submission[n].answered
    /\ submission' = [submission EXCEPT ![n].answered = TRUE]
    /\ page' = IF page.kind = "dialog" THEN [Retired EXCEPT !.open = FALSE, !.attempt = 0]
               ELSE IF n > page.since THEN [Retired EXCEPT !.attempt = 0] ELSE page
    /\ UNCHANGED payment

(* Mutant of OnError: a failed submission retires the key. *)
OnErrorRetiring(n) ==
    /\ ~submission[n].answered
    /\ submission' = [submission EXCEPT ![n].answered = TRUE]
    /\ page' = Retired
    /\ UNCHANGED payment

(* onError keeps the key: a refusal, or an answer that is lost or late.     *)
OnError(n) ==
    /\ ~submission[n].answered
    /\ submission' = [submission EXCEPT ![n].answered = TRUE]
    /\ UNCHANGED <<page, payment>>

---------------------------------------------------------------------------
Next ==
    \/ OpenForm
    \/ CloseForm
    \/ \E content \in Content : Submit(content)
    \/ \E n \in Sent : Serve(n) \/ OnSuccess(n) \/ OnError(n)

Spec == Init /\ [][Next]_dialogVars
---------------------------------------------------------------------------
(* Properties *)

(* However often one intent is submitted while the form stays open, and     *)
(* whatever answers are lost, late or from an earlier opening, it is paid   *)
(* once; and no key is ever sent with two contents                          *)
(* (use-supplier-payment-idempotency-key.ts:8).                             *)
OnePaymentPerAttempt ==
    /\ \A a \in Sent :
        Cardinality({p \in payment : \E n \in Sent :
            submission[n].attempt = a /\ <<submission[n].key, submission[n].content>> = p}) <= 1
    /\ \A m, n \in Sent :
        submission[m].key = submission[n].key => submission[m].content = submission[n].content
=============================================================================
