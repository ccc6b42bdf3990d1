----------------------------- MODULE MCAdministration -----------------------------
(* Around the sales, for TLC: Quota with two kinds of rows, the points of a  *)
(* customer, roles and tokens, the trial signup, the two payment forms and   *)
(* backups.  They share no state, so a behaviour is of one of them; calls,   *)
(* codes and runs of different ones are given the same values, so that one   *)
(* symmetry serves all.                                                      *)
EXTENDS Quota, TLC

CONSTANTS u1, y1, y2, b1, b2, trial, basic, pro

Users == {u1, y1, y2}
Kinds == [x \in Row |-> IF x \in Users THEN 1 ELSE 2]
OpeningRows == {u1, b1}

(* A trial with room for one more user, a smaller plan and a larger one.    *)
Limits == (trial :> <<2, 1>>) @@ (basic :> <<1, 2>>) @@ (pro :> <<3, Unlimited>>)
---------------------------------------------------------------------------
CONSTANTS PointCall, Point, Crashes, Nobody
VARIABLES ledger, customerLock, points, totalPoint

Points == INSTANCE CustomerPoint
pointVars == <<ledger, customerLock, points, totalPoint>>
ASSUME PointsAssumed == Points!CustomerPointAssumption

OneOrTwo == {1, 2, -1}

CONSTANTS User, Role, Permission, Owner, RoleUpdate, Admin, Login, Seed
VARIABLES rolePermission, userRole, version, admin, token

Grants == INSTANCE Access
accessVars == <<rolePermission, userRole, version, admin, token>>
ASSUME GrantsAssumed == Grants!AccessAssumption

CONSTANTS Otp, VerifyCall, FinalizeCall, Intent, MaxAttempts, MaxSends
VARIABLES request, sent, otp, proofOf, guesses, finalization, finalize, organization

Signup == INSTANCE TrialSignup
signupVars == <<request, sent, otp, proofOf, guesses, finalization, finalize, organization>>
ASSUME SignupAssumed == Signup!TrialSignupAssumption

CONSTANTS Content, MaxSubmissions, Nothing
VARIABLES page, submission, payment

Dialog == INSTANCE PaymentDialog
dialogVars == <<page, submission, payment>>
ASSUME DialogAssumed == Dialog!PaymentDialogAssumption

CONSTANTS BackupRun, RestoreRun, LastSecond, KeepCount, Existing, Earlier
VARIABLES clock, partial, final, backup, restore, database, finished

Backups == INSTANCE Backup
backupVars == <<clock, partial, final, backup, restore, database, finished>>
ASSUME BackupsAssumed == Backups!BackupAssumption
---------------------------------------------------------------------------
VARIABLE focus

Symmetry == Permutations(Writer) \cup Permutations(Changer)

AdministrationInit ==
    /\ Init /\ Points!Init /\ Grants!Init /\ Signup!Init /\ Dialog!Init /\ Backups!Init
    /\ focus \in {"quota", "points", "access", "signup", "dialog", "backup"}
    /\ focus # "quota" => subscription.plan = Trial
    /\ focus # "dialog" => page.kind = "dialog"

AdministrationNext ==
    /\ \/ focus = "quota" /\ Next
            /\ UNCHANGED <<pointVars, accessVars, signupVars, dialogVars, backupVars>>
       \/ focus = "points" /\ Points!Next
            /\ UNCHANGED <<vars, accessVars, signupVars, dialogVars, backupVars>>
       \/ focus = "access" /\ Grants!Next
            /\ UNCHANGED <<vars, pointVars, signupVars, dialogVars, backupVars>>
       \/ focus = "signup" /\ Signup!Next
            /\ UNCHANGED <<vars, pointVars, accessVars, dialogVars, backupVars>>
       \/ focus = "dialog" /\ Dialog!Next
            /\ UNCHANGED <<vars, pointVars, accessVars, signupVars, backupVars>>
       \/ focus = "backup" /\ Backups!Next
            /\ UNCHANGED <<vars, pointVars, accessVars, signupVars, dialogVars>>
    /\ UNCHANGED focus

AdministrationSpec ==
    AdministrationInit
        /\ [][AdministrationNext]_<<focus, vars, pointVars, accessVars, signupVars, dialogVars, backupVars>>
---------------------------------------------------------------------------
(* Every variable of these modules has its type.                            *)
TypesOK ==
    /\ TypeOK /\ Points!TypeOK /\ Grants!TypeOK
    /\ Signup!TypeOK /\ Dialog!TypeOK /\ Backups!TypeOK

(* See CustomerPoint. *)
PointsExplained == Points!PointsExplained

(* See Access. *)
StaleGrantRejected == Grants!StaleGrantRejected

(* See TrialSignup. *)
OneOrganizationPerOtp == Signup!OneOrganizationPerOtp

(* See PaymentDialog. *)
OnePaymentPerAttempt == Dialog!OnePaymentPerAttempt

(* See Backup. *)
BackupsKept == Backups!BackupsKept
=============================================================================
