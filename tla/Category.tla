------------------------------- MODULE Category -------------------------------
(***************************************************************************)
(* The tree of categories of one organization                               *)
(* (backend/src/modules/category).  Every call reads, checks the tree in    *)
(* memory and then writes one row, in no transaction; only update compares  *)
(* a version.  What is checked is the tree of the rows that are not         *)
(* deleted, but a deleted row keeps its parent and its children.            *)
(*                                                                          *)
(* What a call reads is taken to be read at once.  Codes and slugs are left *)
(* out, and so are products, for which a removal may be refused.            *)
(***************************************************************************)
EXTENDS Integers, Relation

CONSTANTS
    Id,             \* ids of categories: bounds what can be created
    Call,           \* calls under way at the same time
    MaxVersion,     \* bounds how often a category is written
    Root            \* no parent, not an id

VARIABLES
    category,       \* the rows
    call            \* calls between their reads and their write

vars == <<category, call>>

Status == {"absent", "ACTIVE", "INACTIVE", "ARCHIVED"}
Parent == Id \cup {Root}

(* A row that was soft-deleted is the one that is ARCHIVED. *)
TypeOK ==
    /\ category \in [Id -> [status : Status, parent : Parent, version : Nat]]
    /\ call \in [Call -> [op : {"none", "create", "update", "remove", "restore"}, id : Id,
                          status : Status, parent : Parent, version : Nat]]

NoCall == [op |-> "none", id |-> CHOOSE c \in Id : TRUE, status |-> "ACTIVE",
           parent |-> Root, version |-> 0]

Init ==
    /\ category = [c \in Id |-> [status |-> "absent", parent |-> Root, version |-> 0]]
    /\ call = [k \in Call |-> NoCall]

---------------------------------------------------------------------------
Live(c) == category[c].status \in {"ACTIVE", "INACTIVE"}
Stored == {c \in Id : category[c].status # "absent"}

(* Who is above whom, in the map of listAll or of all rows. *)
Above(rows) ==
    LET above == TransitiveClosure(
                    [pair \in rows \X rows |-> category[pair[1]].parent = pair[2]], rows)
    IN {pair \in rows \X rows : above[pair]}
LiveAbove == Above({c \in Id : Live(c)})

Begin(k, op, c, status, parent) ==
    /\ call[k].op = "none" /\ category[c].version < MaxVersion
    /\ call' = [call EXCEPT ![k] = [op |-> op, id |-> c, status |-> status, parent |-> parent,
                                    version |-> category[c].version]]
    /\ UNCHANGED category

(* The end of a call, with the row it has written. *)
Put(k, status, parent) ==
    LET c == call[k].id IN
    /\ category' = [category EXCEPT ![c] =
            [status |-> status, parent |-> parent, version |-> @.version + 1]]
    /\ call' = [call EXCEPT ![k] = NoCall]

---------------------------------------------------------------------------
CheckCreate(k, c, status, parent) ==
    /\ category[c].status = "absent"
    /\ parent # Root => Live(parent)
    /\ Begin(k, "create", c, status, parent)

Create(k) ==
    /\ call[k].op = "create" /\ category[call[k].id].status = "absent"
    /\ Put(k, call[k].status, call[k].parent)

(* assertParentExists and assertNoCircularReference, unless the parent is   *)
(* not sent and stays; dto.version is the version the caller has seen.      *)
CheckUpdate(k, c, status, parent) ==
    /\ Live(c)
    /\ parent \notin {Root, category[c].parent} =>
        /\ parent # c /\ Live(parent)
        /\ <<parent, c>> \notin LiveAbove
    /\ Begin(k, "update", c, status, parent)

(* The compare-and-swap on the version. *)
Update(k) ==
    /\ call[k].op = "update" /\ category[call[k].id].version = call[k].version
    /\ Put(k, call[k].status, call[k].parent)

UpdateConflict(k) ==
    /\ call[k].op = "update" /\ category[call[k].id].version # call[k].version
    /\ call' = [call EXCEPT ![k] = NoCall]
    /\ UNCHANGED category

(* assertNoActiveDescendant. *)
CheckRemove(k, c) ==
    /\ Live(c)
    /\ <<c, c>> \notin LiveAbove
    /\ \A d \in Id : <<d, c>> \in LiveAbove => category[d].status # "ACTIVE"
    /\ Begin(k, "remove", c, "ARCHIVED", Root)

SoftDelete(k) ==
    /\ call[k].op = "remove"
    /\ Put(k, "ARCHIVED", category[call[k].id].parent)

(* findAncestorChainIncludingArchived, with its guard against cycles. *)
CheckRestore(k, c) ==
    /\ category[c].status = "ARCHIVED"
    /\ \A a \in Id : <<c, a>> \in Above(Stored) =>
        category[a].status # "ARCHIVED" /\ <<a, a>> \notin Above(Stored)
    /\ Begin(k, "restore", c, "INACTIVE", Root)

Restore(k) ==
    /\ call[k].op = "restore"
    /\ Put(k, "INACTIVE", category[call[k].id].parent)

Step(k) == Create(k) \/ Update(k) \/ UpdateConflict(k) \/ SoftDelete(k) \/ Restore(k)

Next ==
    \/ \E k \in Call, c \in Id, status \in {"ACTIVE", "INACTIVE"}, parent \in Parent :
            CheckCreate(k, c, status, parent) \/ CheckUpdate(k, c, status, parent)
    \/ \E k \in Call, c \in Id : CheckRemove(k, c) \/ CheckRestore(k, c)
    \/ \E k \in Call : Step(k)

Spec == Init /\ [][Next]_vars
---------------------------------------------------------------------------
(* Properties *)

(* The stored rows never form a cycle: what assertNoCircularReference is    *)
(* there for, and what the guards of archive and restore take for granted   *)
(* (docs/implementation/t006-category-implementation-report.md:56).         *)
NoStoredCycle == \A c \in Id : <<c, c>> \notin Above(Stored)
=============================================================================
