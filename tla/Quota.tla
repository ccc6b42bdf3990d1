-------------------------------- MODULE Quota --------------------------------
(* The quotas of one organization (usage-limit.service.ts and the           *)
(* repositories that use it; subscription-plan-changer.ts;                  *)
(* prisma-organization.repository.ts).  A plan limits how many users,       *)
(* branches, warehouses, products and customers may be live.  Creating or   *)
(* restoring one takes the advisory lock of its kind, reads the limit,      *)
(* counts and writes in one transaction; a change of plan takes all the     *)
(* locks, counts everything and writes the new limits; removing takes no    *)
(* lock at all, and a trial may end at any moment.                          *)
(*                                                                          *)
(* A commit is one step with the last write before it: what a transaction   *)
(* wrote is invisible until then and nothing reads it back.  Removing stands *)
(* for softDelete and for archiving a branch, whose own conditions are left *)
(* out, and any kind may be restored.                                       *)
EXTENDS Integers, FiniteSets

CONSTANTS
    Row,            \* ids of users, branches, ...: bounds what can be created
    NumResources,   \* kinds of rows, numbered as in USAGE_RESOURCE_TYPES
    KindOf,         \* the kind of each row
    Opening,        \* rows that come with the organization
    Plan, Trial,    \* OrganizationPlan and its TRIAL
    LimitsOf,       \* SUBSCRIPTION_PLAN_LIMITS
    Unlimited,      \* null in a max column
    Writer,         \* calls that create or restore a row
    Changer,        \* runs of the tool that changes the plan
    None            \* no row, no holder

Resource == 1 .. NumResources
Limit == Nat \cup {Unlimited}

ASSUME SizeAssumption == NumResources \in Nat \ {0} /\ IsFiniteSet(Row)
ASSUME RowAssumption == KindOf \in [Row -> Resource] /\ Opening \subseteq Row
ASSUME PlanAssumption == Trial \in Plan /\ LimitsOf \in [Plan -> [Resource -> Limit]]
ASSUME ActorAssumption ==
    /\ Writer \cap Changer = {}
    /\ None \notin Writer \cup Changer \cup Row
    /\ Unlimited \notin Nat

VARIABLES
    row,            \* "absent", "live" or "deleted"
    subscription,   \* the OrganizationSubscription row
    holder,         \* who holds the advisory lock of each kind
    write,          \* calls of create and restore
    change,         \* runs of changeSubscriptionPlan
    late            \* history: rows of each kind added since the trial ran out

vars == <<row, subscription, holder, write, change, late>>

SubscriptionRow == [plan : Plan, status : {"ACTIVE", "EXPIRED"},
                    expiredAt : {"none", "ahead", "passed"}, limit : [Resource -> Limit]]
WriteCall == [pc : {"idle", "lock", "limit", "count", "write", "done"},
              kind : Resource, row : Row \cup {None}, limit : Limit]
ChangeRun == [pc : {"idle", "locking", "read", "counting", "decide", "done"},
              plan : Plan, commits : BOOLEAN, next : Resource,
              noOp : BOOLEAN, allowed : BOOLEAN]

TypeOK ==
    /\ row \in [Row -> {"absent", "live", "deleted"}]
    /\ subscription \in SubscriptionRow
    /\ holder \in [Resource -> Writer \cup Changer \cup {None}]
    /\ write \in [Writer -> WriteCall]
    /\ change \in [Changer -> ChangeRun]
    /\ late \in [Resource -> Nat]

---------------------------------------------------------------------------
Live(kind) == {x \in Row : row[x] = "live" /\ KindOf[x] = kind}
Usage(kind) == Cardinality(Live(kind))

(* assertUsageCapacity and the comparison of a change of plan.              *)
Within(n, limit) == limit # Unlimited => n <= limit

(* computeSubscriptionDefaults.                                             *)
DefaultExpiry(plan) == IF plan = Trial THEN "ahead" ELSE "none"

NoWrite == [pc |-> "idle", kind |-> 1, row |-> None, limit |-> Unlimited]
NoChange == [pc |-> "idle", plan |-> Trial, commits |-> FALSE, next |-> 1,
             noOp |-> FALSE, allowed |-> FALSE]

Init ==
    /\ row = [x \in Row |-> IF x \in Opening THEN "live" ELSE "absent"]
    /\ \E plan \in Plan :
        /\ subscription = [plan |-> plan, status |-> "ACTIVE",
                           expiredAt |-> DefaultExpiry(plan), limit |-> LimitsOf[plan]]
        /\ \A r \in Resource : Within(Usage(r), LimitsOf[plan][r])
    /\ holder = [r \in Resource |-> None]
    /\ write = [w \in Writer |-> NoWrite]
    /\ change = [c \in Changer |-> NoChange]
    /\ late = [r \in Resource |-> 0]

Released(p) == [r \in Resource |-> IF holder[r] = p THEN None ELSE holder[r]]

---------------------------------------------------------------------------
(* Creating and restoring *)

StartCreate(w, kind) ==
    /\ write[w].pc = "idle"
    /\ write' = [write EXCEPT ![w] = [@ EXCEPT !.pc = "lock", !.kind = kind]]
    /\ UNCHANGED <<row, subscription, holder, change, late>>

(* The service has seen a deleted row; it may be live again by the time the *)
(* transaction restores it.                                                 *)
StartRestore(w, x) ==
    /\ write[w].pc = "idle" /\ row[x] = "deleted"
    /\ write' = [write EXCEPT ![w] = [@ EXCEPT !.pc = "lock", !.kind = KindOf[x], !.row = x]]
    /\ UNCHANGED <<row, subscription, holder, change, late>>

(* Mutant of Lock: the lock is taken on a connection of its own, as the     *)
(* comment of usage-limit.service.ts:47 warns, and keeps nobody out.        *)
LockElsewhere(w) ==
    /\ write[w].pc = "lock"
    /\ write' = [write EXCEPT ![w].pc = "limit"]
    /\ UNCHANGED <<row, subscription, holder, change, late>>

Lock(w) ==
    LET kind == write[w].kind IN
    /\ write[w].pc = "lock" /\ holder[kind] = None
    /\ holder' = [holder EXCEPT ![kind] = w]
    /\ write' = [write EXCEPT ![w].pc = "limit"]
    /\ UNCHANGED <<row, subscription, change, late>>

(* The end of the transaction, with or without a commit. *)
End(w) ==
    /\ write' = [write EXCEPT ![w] = [NoWrite EXCEPT !.pc = "done"]]
    /\ holder' = Released(w)
    /\ UNCHANGED <<subscription, change>>

(* Mutant of Expired: what the scheduler has written is all that counts. *)
ExpiredAsPersisted == subscription.plan = Trial /\ subscription.status = "EXPIRED"

(* isSubscriptionExpired: the hourly job need not have run. *)
Expired ==
    /\ subscription.plan = Trial
    /\ \/ subscription.status = "EXPIRED"
       \/ subscription.status = "ACTIVE" /\ subscription.expiredAt = "passed"

ReadLimit(w) ==
    LET limit == subscription.limit[write[w].kind] IN
    /\ write[w].pc = "limit"
    /\ ~Expired
    /\ write' = [write EXCEPT ![w] =
                    [@ EXCEPT !.pc = IF limit = Unlimited THEN "write" ELSE "count",
                              !.limit = limit]]
    /\ UNCHANGED <<row, subscription, holder, change, late>>

Count(w) ==
    /\ write[w].pc = "count"
    /\ Within(Usage(write[w].kind) + 1, write[w].limit)
    /\ write' = [write EXCEPT ![w].pc = "write"]
    /\ UNCHANGED <<row, subscription, holder, change, late>>

Refused(w) ==
    /\ \/ write[w].pc = "limit" /\ Expired
       \/ write[w].pc = "count" /\ ~Within(Usage(write[w].kind) + 1, write[w].limit)
    /\ End(w)
    /\ UNCHANGED <<row, late>>

(* The trial has run out, whatever the scheduler has persisted.             *)
TrialOver == subscription.plan = Trial /\ subscription.expiredAt = "passed"

Write(w) ==
    LET kind == write[w].kind IN
    /\ write[w].pc = "write"
    /\ \E x \in Row :
        /\ IF write[w].row = None THEN KindOf[x] = kind /\ row[x] = "absent"
                                  ELSE x = write[w].row
        /\ row' = [row EXCEPT ![x] = "live"]
    /\ late' = [late EXCEPT ![kind] = IF TrialOver THEN @ + 1 ELSE @]
    /\ End(w)

(* A unique key, the version of a customer, a timeout, a dead process. *)
WriteFails(w) ==
    /\ write[w].pc \in {"lock", "limit", "count", "write"}
    /\ End(w)
    /\ UNCHANGED <<row, late>>

---------------------------------------------------------------------------
(* Changing the plan *)

(* TRIAL is not an allowed target; without --commit the run only previews.  *)
StartChange(c, plan, commits) ==
    /\ change[c].pc = "idle" /\ plan # Trial
    /\ change' = [change EXCEPT ![c] =
                    [@ EXCEPT !.pc = "locking", !.plan = plan, !.commits = commits]]
    /\ UNCHANGED <<row, subscription, holder, write, late>>

(* Mutant of Following: the second loop goes on where the first stopped.    *)
FollowingOn(n) == n + 1

(* Both loops go through USAGE_RESOURCE_TYPES.                              *)
Following(n) == IF n = NumResources THEN 1 ELSE n + 1

(* Mutant of Wanted: a preview takes the locks from the last to the first.  *)
WantedByPreview(c) ==
    IF change[c].commits THEN change[c].next ELSE NumResources + 1 - change[c].next

Wanted(c) == change[c].next

LockNext(c) ==
    LET run == change[c] IN
    /\ run.pc = "locking" /\ holder[Wanted(c)] = None
    /\ holder' = [holder EXCEPT ![Wanted(c)] = c]
    /\ change' = [change EXCEPT ![c] =
                    [run EXCEPT !.pc = IF run.next = NumResources THEN "read" ELSE "locking",
                                !.next = Following(run.next)]]
    /\ UNCHANGED <<row, subscription, write, late>>

(* Mutant of Target: a change of plan leaves the status and the end of the  *)
(* trial as they were.                                                      *)
TargetWithOldStatus(plan) ==
    [subscription EXCEPT !.plan = plan, !.limit = LimitsOf[plan]]

Target(plan) ==
    [plan |-> plan, status |-> "ACTIVE", expiredAt |-> DefaultExpiry(plan),
     limit |-> LimitsOf[plan]]

ReadSubscription(c) ==
    LET run == change[c] IN
    /\ run.pc = "read"
    /\ change' = [change EXCEPT ![c] =
                    [run EXCEPT !.pc = "counting", !.allowed = TRUE,
                                !.noOp = subscription = Target(run.plan)]]
    /\ UNCHANGED <<row, subscription, holder, write, late>>

(* Each kind is counted by a statement of its own. *)
CountNext(c) ==
    LET run == change[c] IN
    /\ run.pc = "counting"
    /\ change' = [change EXCEPT ![c] =
                    [run EXCEPT
                        !.pc = IF run.next = NumResources THEN "decide" ELSE "counting",
                        !.allowed = run.allowed
                            /\ Within(Usage(run.next), LimitsOf[run.plan][run.next]),
                        !.next = Following(run.next)]]
    /\ UNCHANGED <<row, subscription, holder, write, late>>

EndChange(c) ==
    /\ change' = [change EXCEPT ![c] = [NoChange EXCEPT !.pc = "done"]]
    /\ holder' = Released(c)
    /\ UNCHANGED <<row, write>>

ChangePlan(c) ==
    LET run == change[c] IN
    /\ run.pc = "decide" /\ run.commits /\ ~run.noOp /\ run.allowed
    /\ subscription' = Target(run.plan)
    /\ late' = [r \in Resource |-> 0]
    /\ EndChange(c)

(* PREVIEW, NO_OP or the refusal of a downgrade. *)
ChangeNothing(c) ==
    LET run == change[c] IN
    /\ run.pc = "decide" /\ ~(run.commits /\ ~run.noOp /\ run.allowed)
    /\ EndChange(c)
    /\ UNCHANGED <<subscription, late>>

ChangeFails(c) ==
    /\ change[c].pc \in {"locking", "read", "counting", "decide"}
    /\ EndChange(c)
    /\ UNCHANGED <<subscription, late>>

---------------------------------------------------------------------------
(* What happens without a lock *)

(* softDelete, and the archiving of a branch. *)
Remove(x) ==
    /\ row[x] = "live"
    /\ row' = [row EXCEPT ![x] = "deleted"]
    /\ UNCHANGED <<subscription, holder, write, change, late>>

(* The clock passes expiredAt. *)
TrialEnds ==
    /\ subscription.expiredAt = "ahead"
    /\ subscription' = [subscription EXCEPT !.expiredAt = "passed"]
    /\ UNCHANGED <<row, holder, write, change, late>>

(* The hourly job. *)
ExpireDueTrials ==
    /\ subscription.plan = Trial /\ subscription.status = "ACTIVE"
    /\ subscription.expiredAt = "passed"
    /\ subscription' = [subscription EXCEPT !.status = "EXPIRED"]
    /\ UNCHANGED <<row, holder, write, change, late>>

---------------------------------------------------------------------------
WriterStep(w) == Lock(w) \/ ReadLimit(w) \/ Count(w) \/ Refused(w) \/ Write(w) \/ WriteFails(w)
ChangerStep(c) ==
    \/ LockNext(c) \/ ReadSubscription(c) \/ CountNext(c)
    \/ ChangePlan(c) \/ ChangeNothing(c) \/ ChangeFails(c)

Next ==
    \/ \E w \in Writer, kind \in Resource : StartCreate(w, kind)
    \/ \E w \in Writer, x \in Row : StartRestore(w, x)
    \/ \E c \in Changer, plan \in Plan, commits \in BOOLEAN : StartChange(c, plan, commits)
    \/ \E w \in Writer : WriterStep(w)
    \/ \E c \in Changer : ChangerStep(c)
    \/ \E x \in Row : Remove(x)
    \/ TrialEnds
    \/ ExpireDueTrials

Spec == Init /\ [][Next]_vars
---------------------------------------------------------------------------
(* Properties *)

(* Nobody is ever over the limit of the plan in force, neither by creating  *)
(* and restoring at the same time nor by a downgrade between the count and  *)
(* the write (usage-limit.service.ts:30; subscription-plan-changer.ts:254). *)
WithinLimits == \A r \in Resource : Within(Usage(r), subscription.limit[r])

Waiting ==
    {w \in Writer : write[w].pc = "lock"} \cup {c \in Changer : change[c].pc = "locking"}
WantedBy(p) == IF p \in Writer THEN write[p].kind ELSE Wanted(p)

(* No set of calls waits only for its own members: the one order in which   *)
(* every change of plan takes its locks rules deadlocks out                 *)
(* (subscription-plan-changer.ts:31).                                       *)
NoWaitCycle ==
    \A S \in SUBSET Waiting : S # {} => \E p \in S : holder[WantedBy(p)] \notin S

(* Once a trial has run out nothing is added but what a call had begun      *)
(* before, and the lock leaves room for one such call of each kind, whether *)
(* the hourly job has run or not (subscription-lifecycle-policy.ts:24).     *)
OneLateRow == \A r \in Resource : late[r] <= 1

(* An organization that has left its trial is never taken for an expired    *)
(* one, however the hourly job and the change of plan fall together         *)
(* (prisma-organization.repository.ts:365).                                 *)
PaidNeverExpires ==
    subscription.plan # Trial =>
        subscription.status = "ACTIVE" /\ subscription.expiredAt = "none"
---------------------------------------------------------------------------
(* The inductive strengthening of the properties above                      *)
(* (AdministrationProofs).                                                  *)

(* Who holds which locks: a writer its one lock from Lock to the end, a     *)
(* change of plan those it has passed and then all of them.                 *)
WritersHold ==
    \A w \in Writer :
        /\ write[w].pc \in {"limit", "count", "write"} => holder[write[w].kind] = w
        /\ \A r \in Resource : holder[r] = w => write[w].pc \in {"limit", "count", "write"}

ChangersHold ==
    \A c \in Changer, r \in Resource :
        /\ change[c].pc = "locking" => (holder[r] = c <=> r < change[c].next)
        /\ change[c].pc \in {"read", "counting", "decide"} => holder[r] = c
        /\ change[c].pc = "idle" => holder[r] # c
        /\ change[c].pc \in {"idle", "read"} => change[c].next = 1

LockInv == WritersHold /\ ChangersHold

(* What a call has counted still holds: only removals happen meanwhile.     *)
WritersRoom ==
    \A w \in Writer :
        /\ write[w].pc = "idle" => write[w].row = None
        /\ write[w].row # None => KindOf[write[w].row] = write[w].kind
        /\ write[w].pc \in {"count", "write"} =>
            /\ write[w].limit = subscription.limit[write[w].kind]
            /\ late[write[w].kind] = 0
        /\ write[w].pc = "write" => Within(Usage(write[w].kind) + 1, write[w].limit)

ChangersRoom ==
    \A c \in Changer, r \in Resource :
        /\ change[c].allowed
        /\ \/ change[c].pc = "counting" /\ r < change[c].next
           \/ change[c].pc = "decide"
        => Within(Usage(r), LimitsOf[change[c].plan][r])

(* Nothing is late while the trial lasts. *)
LateInv == OneLateRow /\ (~TrialOver => \A r \in Resource : late[r] = 0)

RoomInv == WritersRoom /\ ChangersRoom /\ WithinLimits /\ LateInv

IInv == TypeOK /\ LockInv /\ RoomInv /\ PaidNeverExpires
=============================================================================
