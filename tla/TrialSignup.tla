------------------------------ MODULE TrialSignup ------------------------------
(***************************************************************************)
(* The public trial signup of one e-mail address                            *)
(* (backend/src/modules/trial-signup): a code is mailed, a correct code is  *)
(* exchanged for a proof, and the proof for an organization with its owner  *)
(* and a session.  The code lives in Redis, where one script compares and   *)
(* consumes it; what becomes of a proof is a row of TrialSignupFinalization *)
(* that PROCESSING calls own and that is never taken from a call that died. *)
(*                                                                          *)
(* A commit is taken to be answered: see the README for what follows when   *)
(* it is not.  A call with an expired or forged proof changes nothing and   *)
(* is left out.                                                             *)
(***************************************************************************)
EXTENDS Integers, FiniteSets

CONSTANTS
    Otp,            \* calls of requestOtp, each the code it mails
    VerifyCall,     \* calls of verifyOtp, each the proof it may sign
    FinalizeCall,   \* callers of finalize, each the owner it may create
    Intent,         \* what hashIntent tells apart
    MaxAttempts,    \* MAX_OTP_VERIFY_ATTEMPTS
    MaxSends,       \* MAX_OTP_SEND_PER_HOUR
    None            \* no code, proof, intent or owner

TrialSignupAssumption ==
    /\ MaxAttempts \in Nat \ {0} /\ MaxSends \in Nat \ {0}
    /\ None \notin Otp \cup VerifyCall \cup FinalizeCall \cup Intent

VARIABLES
    request,        \* request[o]: where the call that sends o is
    sent,           \* signup:otp:cooldown and signup:otp:sendcount
    otp,            \* signup:otp, the code and how often it was tried
    proofOf,        \* proofOf[v]: the code that call v has proved, or None
    guesses,        \* history: how often each code was compared
    finalization,   \* finalization[v]: the row of proof v
    finalize,       \* finalize[f]: a call of finalize
    organization    \* the organizations created under a proof

signupVars == <<request, sent, otp, proofOf, guesses, finalization, finalize, organization>>
otpVars == <<request, sent, otp, proofOf, guesses>>
finalizeVars == <<finalization, finalize, organization>>

TypeOK ==
    /\ request \in [Otp -> {"idle", "count", "cooldown", "save", "mailed", "stopped"}]
    /\ sent \in [cooldown : BOOLEAN, count : Nat]
    /\ otp \in [code : Otp \cup {None}, attempts : Nat]
    /\ proofOf \in [VerifyCall -> Otp \cup {None}]
    /\ guesses \in [Otp -> Nat]
    /\ finalization \in [VerifyCall ->
            [status : {"none", "PROCESSING", "COMPLETED", "FAILED"},
             intent : Intent \cup {None}, user : FinalizeCall \cup {None}]]
    /\ finalize \in [FinalizeCall ->
            [pc : {"idle", "find", "create", "reclaim", "provision", "fail", "session",
                   "answered", "refused", "dead"},
             proof : VerifyCall \cup {None}, intent : Intent \cup {None},
             user : FinalizeCall \cup {None}]]
    /\ organization \subseteq [proof : VerifyCall, intent : Intent, user : FinalizeCall]

NoOtp == [code |-> None, attempts |-> 0]

Init ==
    /\ request = [o \in Otp |-> "idle"]
    /\ sent = [cooldown |-> FALSE, count |-> 0]
    /\ otp = NoOtp
    /\ proofOf = [v \in VerifyCall |-> None]
    /\ guesses = [o \in Otp |-> 0]
    /\ finalization = [v \in VerifyCall |-> [status |-> "none", intent |-> None, user |-> None]]
    /\ finalize = [f \in FinalizeCall |->
            [pc |-> "idle", proof |-> None, intent |-> None, user |-> None]]
    /\ organization = {}

---------------------------------------------------------------------------
(* requestOtp *)

CheckCooldown(o) ==
    /\ request[o] = "idle"
    /\ request' = [request EXCEPT ![o] = IF sent.cooldown THEN "stopped" ELSE "count"]
    /\ UNCHANGED <<sent, otp, proofOf, guesses, finalizeVars>>

IncrementSendCount(o) ==
    /\ request[o] = "count"
    /\ sent' = [sent EXCEPT !.count = @ + 1]
    /\ request' = [request EXCEPT ![o] = IF sent.count >= MaxSends THEN "stopped" ELSE "cooldown"]
    /\ UNCHANGED <<otp, proofOf, guesses, finalizeVars>>

StartCooldown(o) ==
    /\ request[o] = "cooldown"
    /\ sent' = [sent EXCEPT !.cooldown = TRUE]
    /\ request' = [request EXCEPT ![o] = "save"]
    /\ UNCHANGED <<otp, proofOf, guesses, finalizeVars>>

(* The new code replaces the old one and is mailed. *)
SaveOtp(o) ==
    /\ request[o] = "save"
    /\ otp' = [code |-> o, attempts |-> 0]
    /\ request' = [request EXCEPT ![o] = "mailed"]
    /\ UNCHANGED <<sent, proofOf, guesses, finalizeVars>>

(* A minute, five minutes, an hour: the keys of Redis expire. *)
KeysExpire ==
    /\ \/ sent.cooldown /\ sent' = [sent EXCEPT !.cooldown = FALSE] /\ UNCHANGED otp
       \/ sent.count > 0 /\ sent' = [sent EXCEPT !.count = 0] /\ UNCHANGED otp
       \/ otp # NoOtp /\ otp' = NoOtp /\ UNCHANGED sent
    /\ UNCHANGED <<request, proofOf, guesses, finalizeVars>>

---------------------------------------------------------------------------
(* verifyOtp *)

Matches(o) == otp.code = o /\ otp.attempts < MaxAttempts

(* Mutant of Consumed: only the failed attempts change the record. *)
ConsumedNever(o) == IF Matches(o) THEN otp ELSE NoOtp

(* What a verification with code o leaves in Redis: nothing of a code that  *)
(* was right or tried too often.                                            *)
Consumed(o) ==
    IF otp.code = o \/ otp.attempts >= MaxAttempts THEN NoOtp
    ELSE [otp EXCEPT !.attempts = @ + 1]

(* verifyAndConsume and signProof; o may be an old code. *)
VerifyOtp(v, o) ==
    /\ proofOf[v] = None /\ otp # NoOtp
    /\ otp' = Consumed(o)
    /\ proofOf' = [proofOf EXCEPT ![v] = IF Matches(o) THEN o ELSE None]
    /\ guesses' = [guesses EXCEPT ![otp.code] = IF otp.attempts < MaxAttempts THEN @ + 1 ELSE @]
    /\ UNCHANGED <<request, sent, finalizeVars>>

---------------------------------------------------------------------------
(* finalize *)

Continue(f, step) == finalize' = [finalize EXCEPT ![f].pc = step]
RowOf(f) == finalization[finalize[f].proof]

(* A new call, or another try of one that was refused. *)
StartFinalize(f, v, intent) ==
    /\ finalize[f].pc \in {"idle", "refused"} /\ proofOf[v] # None
    /\ finalize' = [finalize EXCEPT ![f] =
            [@ EXCEPT !.pc = "find", !.proof = v, !.intent = intent]]
    /\ UNCHANGED <<finalization, organization, otpVars>>

(* findByProofTokenHash, and what reserve makes of the row. *)
FindFinalization(f) ==
    /\ finalize[f].pc = "find"
    /\ \/ RowOf(f).status = "none" /\ Continue(f, "create")
       \/ /\ RowOf(f).status = "COMPLETED" /\ RowOf(f).intent = finalize[f].intent
          /\ finalize' = [finalize EXCEPT ![f] =
                [@ EXCEPT !.pc = "session", !.user = RowOf(f).user]]
       \/ RowOf(f).status = "COMPLETED" /\ RowOf(f).intent # finalize[f].intent /\ Continue(f, "refused")
       \/ RowOf(f).status = "PROCESSING" /\ Continue(f, "refused")
       \/ RowOf(f).status = "FAILED" /\ Continue(f, "reclaim")
    /\ UNCHANGED <<finalization, organization, otpVars>>

Reserved(f) ==
    finalization' = [finalization EXCEPT ![finalize[f].proof] =
        [status |-> "PROCESSING", intent |-> finalize[f].intent, user |-> None]]

(* INSERT, and the unique key of the proof. *)
CreateFinalization(f) ==
    /\ finalize[f].pc = "create"
    /\ IF RowOf(f).status = "none"
       THEN Reserved(f) /\ Continue(f, "provision")
       ELSE Continue(f, "refused") /\ UNCHANGED finalization
    /\ UNCHANGED <<organization, otpVars>>

TryReclaimFailed(f) ==
    /\ finalize[f].pc = "reclaim"
    /\ IF RowOf(f).status = "FAILED"
       THEN Reserved(f) /\ Continue(f, "provision")
       ELSE Continue(f, "refused") /\ UNCHANGED finalization
    /\ UNCHANGED <<organization, otpVars>>

(* createWithOwnerInTransaction and markCompleted, COMMIT. *)
Provision(f) ==
    /\ finalize[f].pc = "provision"
    /\ organization' = organization \cup
            {[proof |-> finalize[f].proof, intent |-> finalize[f].intent, user |-> f]}
    /\ finalization' = [finalization EXCEPT ![finalize[f].proof] =
            [@ EXCEPT !.status = "COMPLETED", !.user = f]]
    /\ finalize' = [finalize EXCEPT ![f] = [@ EXCEPT !.pc = "session", !.user = f]]
    /\ UNCHANGED otpVars

(* A slug that is taken, a failed statement: everything is rolled back.     *)
ProvisionFails(f) ==
    /\ finalize[f].pc = "provision"
    /\ Continue(f, "fail")
    /\ UNCHANGED <<finalization, organization, otpVars>>

(* markFailed, whose own failure is swallowed. *)
MarkFailed(f) ==
    /\ finalize[f].pc = "fail"
    /\ \/ finalization' = [finalization EXCEPT ![finalize[f].proof].status = "FAILED"]
       \/ UNCHANGED finalization
    /\ Continue(f, "refused")
    /\ UNCHANGED <<organization, otpVars>>

IssueSession(f) ==
    /\ finalize[f].pc = "session"
    /\ Continue(f, "answered")
    /\ UNCHANGED <<finalization, organization, otpVars>>

(* The server dies; the caller may try again with the same proof. *)
Die(f) ==
    /\ finalize[f].pc \notin {"idle", "answered", "refused", "dead"}
    /\ Continue(f, "dead")
    /\ UNCHANGED <<finalization, organization, otpVars>>

---------------------------------------------------------------------------
RequestStep(o) == CheckCooldown(o) \/ IncrementSendCount(o) \/ StartCooldown(o) \/ SaveOtp(o)
FinalizeStep(f) ==
    \/ FindFinalization(f) \/ CreateFinalization(f) \/ TryReclaimFailed(f) \/ Provision(f)
    \/ ProvisionFails(f) \/ MarkFailed(f) \/ IssueSession(f) \/ Die(f)

Next ==
    \/ \E o \in Otp : RequestStep(o)
    \/ KeysExpire
    \/ \E v \in VerifyCall, o \in Otp : VerifyOtp(v, o)
    \/ \E f \in FinalizeCall, v \in VerifyCall, intent \in Intent : StartFinalize(f, v, intent)
    \/ \E f \in FinalizeCall : FinalizeStep(f)

Spec == Init /\ [][Next]_signupVars
---------------------------------------------------------------------------
(* Properties *)

(* A mailed code yields one organization at most, whatever is retried: it   *)
(* is tried MaxAttempts times and proved once, and a proof is bound to one  *)
(* organization and one intent, for which alone it opens a session          *)
(* (trial-signup.service.ts:154 and :212; redis-signup-otp.repository.ts:21). *)
OneOrganizationPerOtp ==
    /\ \A o \in Otp :
        /\ guesses[o] <= MaxAttempts
        /\ Cardinality({v \in VerifyCall : proofOf[v] = o}) <= 1
    /\ \A o1, o2 \in organization : o1.proof = o2.proof => o1 = o2
    /\ \A f \in FinalizeCall : finalize[f].pc \in {"session", "answered"} =>
        [proof |-> finalize[f].proof, intent |-> finalize[f].intent, user |-> finalize[f].user]
            \in organization
=============================================================================
