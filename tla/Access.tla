-------------------------------- MODULE Access --------------------------------
(***************************************************************************)
(* Roles, permissions and the access tokens that carry them                 *)
(* (backend/src/modules/rbac, auth).  A token embeds the permission codes   *)
(* and the permissionVersion its user had when it was issued, and is        *)
(* accepted only while that version is current.  A change of roles writes   *)
(* the rows and then raises the version, in statements of their own; a      *)
(* login or a refresh reads the user first and the codes afterwards.        *)
(*                                                                          *)
(* Replacing the permissions of a role is one transaction, but its DELETE   *)
(* sees only the rows that were committed when it began: rows carry the     *)
(* call that wrote them, so that two overlapping replacements leave both    *)
(* sets, as the database does.                                              *)
(***************************************************************************)
EXTENDS Integers, FiniteSets

CONSTANTS
    User, Role, Permission,
    Owner,          \* the organization's ownerUserId
    RoleUpdate,     \* the permission role:update, which the owner must keep
    Admin,          \* calls that change roles
    Login,          \* calls that issue a token
    Seed            \* writer of the rows a role comes with

AccessAssumption ==
    /\ Owner \in User /\ Role # {} /\ RoleUpdate \in Permission
    /\ Seed \notin Admin

VARIABLES
    rolePermission, \* rows <<role, permission, writer>>
    userRole,       \* rows <<user, role>>
    version,        \* User.permissionVersion
    admin,          \* admin[a]: a call of RbacService
    token           \* token[l]: the token of login l, being issued or issued

accessVars == <<rolePermission, userRole, version, admin, token>>

Operation == {"assign permissions", "assign role", "remove role"}
AdminCall == [pc : {"idle", "check", "write", "replace", "holders", "bump", "done",
                    "refused", "dead"},
              op : Operation, user : User, role : Role, codes : SUBSET Permission,
              seen : SUBSET (Role \X Permission \X (Admin \cup {Seed})),
              bumps : SUBSET User]
Token == [pc : {"idle", "user", "roles", "codes", "issued"}, user : User, version : Nat,
          roles : SUBSET Role, codes : SUBSET Permission]

TypeOK ==
    /\ rolePermission \subseteq Role \X Permission \X (Admin \cup {Seed})
    /\ userRole \subseteq User \X Role
    /\ version \in [User -> Nat]
    /\ admin \in [Admin -> AdminCall]
    /\ token \in [Login -> Token]

CodesOf(role) == {p \in Permission : \E w \in Admin \cup {Seed} : <<role, p, w>> \in rolePermission}
RolesOf(user) == {role \in Role : <<user, role>> \in userRole}
CodesOfAll(roles) == {p \in Permission : \E role \in roles : p \in CodesOf(role)}
Granted(user) == CodesOfAll(RolesOf(user))

(* The owner holds every role, and every role every permission. *)
Init ==
    /\ rolePermission = Role \X Permission \X {Seed}
    /\ userRole = {Owner} \X Role
    /\ version = [u \in User |-> 0]
    /\ admin = [a \in Admin |-> [pc |-> "idle", op |-> "assign role", user |-> Owner,
                                 role |-> CHOOSE role \in Role : TRUE, codes |-> {},
                                 seen |-> {}, bumps |-> {}]]
    /\ token = [l \in Login |-> [pc |-> "idle", user |-> Owner, version |-> 0,
                                 roles |-> {}, codes |-> {}]]

---------------------------------------------------------------------------
(* RbacService *)

Doing(a, op, step) == admin[a].op = op /\ admin[a].pc = step
Continue(a, step) == admin' = [admin EXCEPT ![a].pc = step]

StartAdmin(a, op, user, role, codes) ==
    /\ admin[a].pc = "idle"
    /\ op # "assign permissions" => codes = {}
    /\ admin' = [admin EXCEPT ![a] =
            [@ EXCEPT !.pc = IF op = "assign role" THEN "write" ELSE "check",
                      !.op = op, !.user = user, !.role = role, !.codes = codes]]
    /\ UNCHANGED <<rolePermission, userRole, version, token>>

(* What the owner would be left with, the changed role holding only codes.  *)
OwnerWouldHold(role, codes) ==
    codes \cup CodesOfAll(RolesOf(Owner) \ {role})

Affected(a) ==
    IF admin[a].op = "remove role" THEN admin[a].user = Owner
    ELSE admin[a].role \in RolesOf(Owner)

(* assertOwnerRetainsRoleUpdate, for removals and new permissions alike.    *)
CheckOwner(a) ==
    /\ admin[a].pc = "check"
    /\ IF Affected(a) /\ RoleUpdate \notin OwnerWouldHold(admin[a].role, admin[a].codes)
       THEN Continue(a, "refused")
       ELSE Continue(a, "write")
    /\ UNCHANGED <<rolePermission, userRole, version, token>>

(* DELETE begins: these are the rows it will delete. *)
BeginReplace(a) ==
    /\ Doing(a, "assign permissions", "write")
    /\ admin' = [admin EXCEPT ![a] = [@ EXCEPT !.pc = "replace",
                    !.seen = {row \in rolePermission : row[1] = admin[a].role}]]
    /\ UNCHANGED <<rolePermission, userRole, version, token>>

(* INSERT ... ON CONFLICT DO NOTHING, COMMIT.                               *)
Replace(a) ==
    LET kept == rolePermission \ admin[a].seen
        present == {row[2] : row \in {r \in kept : r[1] = admin[a].role}}
    IN
    /\ Doing(a, "assign permissions", "replace")
    /\ rolePermission' = kept \cup ({admin[a].role} \X (admin[a].codes \ present) \X {a})
    /\ Continue(a, "holders")
    /\ UNCHANGED <<userRole, version, token>>

(* Who holds the role by now; then they are raised. *)
FindHolders(a) ==
    /\ admin[a].pc = "holders"
    /\ admin' = [admin EXCEPT ![a] = [@ EXCEPT !.pc = "bump",
                    !.bumps = {u \in User : admin[a].role \in RolesOf(u)}]]
    /\ UNCHANGED <<rolePermission, userRole, version, token>>

AssignRole(a) ==
    /\ Doing(a, "assign role", "write")
    /\ userRole' = userRole \cup {<<admin[a].user, admin[a].role>>}
    /\ admin' = [admin EXCEPT ![a] = [@ EXCEPT !.pc = "bump", !.bumps = {admin[a].user}]]
    /\ UNCHANGED <<rolePermission, version, token>>

RemoveRole(a) ==
    /\ Doing(a, "remove role", "write")
    /\ userRole' = userRole \ {<<admin[a].user, admin[a].role>>}
    /\ admin' = [admin EXCEPT ![a] = [@ EXCEPT !.pc = "bump", !.bumps = {admin[a].user}]]
    /\ UNCHANGED <<rolePermission, version, token>>

IncrementVersion(a) ==
    /\ admin[a].pc = "bump"
    /\ version' = [u \in User |-> IF u \in admin[a].bumps THEN version[u] + 1 ELSE version[u]]
    /\ Continue(a, "done")
    /\ UNCHANGED <<rolePermission, userRole, token>>

(* The process dies or a statement fails; what is written stays written.    *)
Die(a) ==
    /\ admin[a].pc \in {"check", "write", "replace", "holders", "bump"}
    /\ admin' = [admin EXCEPT ![a].pc = IF @ \in {"holders", "bump"} THEN "dead" ELSE "refused"]
    /\ UNCHANGED <<rolePermission, userRole, version, token>>

---------------------------------------------------------------------------
(* Login and refresh, from the user they have found on *)

FindUser(l, user) ==
    /\ token[l].pc = "idle"
    /\ token' = [token EXCEPT ![l] = [@ EXCEPT !.pc = "user", !.user = user,
                                               !.version = version[user]]]
    /\ UNCHANGED <<rolePermission, userRole, version, admin>>

(* getPermissionCodesForUser, a query for the roles and one for their codes. *)
ReadRoles(l) ==
    /\ token[l].pc = "user"
    /\ token' = [token EXCEPT ![l] = [@ EXCEPT !.pc = "roles", !.roles = RolesOf(token[l].user)]]
    /\ UNCHANGED <<rolePermission, userRole, version, admin>>

ReadCodes(l) ==
    /\ token[l].pc = "roles"
    /\ token' = [token EXCEPT ![l] = [@ EXCEPT !.pc = "codes", !.codes = CodesOfAll(token[l].roles)]]
    /\ UNCHANGED <<rolePermission, userRole, version, admin>>

(* Mutant of SignToken: the user is read again to sign its token. *)
SignCurrentVersion(l) ==
    /\ token[l].pc = "codes"
    /\ token' = [token EXCEPT ![l] = [@ EXCEPT !.pc = "issued",
                    !.version = version[token[l].user]]]
    /\ UNCHANGED <<rolePermission, userRole, version, admin>>

SignToken(l) ==
    /\ token[l].pc = "codes"
    /\ token' = [token EXCEPT ![l].pc = "issued"]
    /\ UNCHANGED <<rolePermission, userRole, version, admin>>

(* JwtAccessStrategy.validate. *)
Accepted(l) == token[l].pc = "issued" /\ token[l].version = version[token[l].user]

---------------------------------------------------------------------------
AdminStep(a) ==
    \/ CheckOwner(a) \/ BeginReplace(a) \/ Replace(a) \/ FindHolders(a)
    \/ AssignRole(a) \/ RemoveRole(a) \/ IncrementVersion(a) \/ Die(a)
LoginStep(l) == ReadRoles(l) \/ ReadCodes(l) \/ SignToken(l)

Next ==
    \/ \E a \in Admin, op \in Operation, user \in User, role \in Role, codes \in SUBSET Permission :
            StartAdmin(a, op, user, role, codes)
    \/ \E a \in Admin : AdminStep(a)
    \/ \E l \in Login, user \in User : FindUser(l, user)
    \/ \E l \in Login : LoginStep(l)

Spec == Init /\ [][Next]_accessVars
---------------------------------------------------------------------------
(* Properties *)

Unfinished == {a \in Admin : admin[a].pc \in {"holders", "bump", "dead"}}

(* Once every change has been carried through, no token is accepted that    *)
(* grants what its user has lost, whatever changes and logins overlapped    *)
(* (rbac.service.ts:104; jwt-access.strategy.ts:26).                        *)
StaleGrantRejected ==
    Unfinished = {} => \A l \in Login : Accepted(l) => token[l].codes \subseteq Granted(token[l].user)
=============================================================================
