-------------------------- MODULE AdministrationProofs --------------------------
(***************************************************************************)
(* Proofs about what surrounds the sales: the limits of a plan, the points   *)
(* of a customer, roles and tokens, the trial signup, the payment forms and  *)
(* backups.  Each invariant is proved for its own specification and, since   *)
(* a behaviour of MCAdministration is one of every part, for that as well.   *)
(* The proofs use no bound but those the modules name.                       *)
(***************************************************************************)
EXTENDS MCAdministration, Sequences, SumTheorems

---------------------------------------------------------------------------
(* A step of MCAdministration is a step of one part and leaves the others   *)
(* alone: a behaviour of it is one of each.                                 *)
allVars == <<focus, vars, pointVars, accessVars, signupVars, dialogVars, backupVars>>

LEMMA StartsAsEach ==
    AdministrationInit =>
        /\ Init /\ Points!Init /\ Grants!Init
        /\ Signup!Init /\ Dialog!Init /\ Backups!Init
BY DEF AdministrationInit

LEMMA StepsAsEach ==
    [AdministrationNext]_allVars =>
        /\ [Next]_vars /\ [Points!Next]_(Points!pointVars)
        /\ [Grants!Next]_(Grants!accessVars) /\ [Signup!Next]_(Signup!signupVars)
        /\ [Dialog!Next]_(Dialog!dialogVars) /\ [Backups!Next]_(Backups!backupVars)
PROOF
<1> SUFFICES ASSUME [AdministrationNext]_allVars
             PROVE  /\ [Next]_vars /\ [Points!Next]_(Points!pointVars)
                    /\ [Grants!Next]_(Grants!accessVars) /\ [Signup!Next]_(Signup!signupVars)
                    /\ [Dialog!Next]_(Dialog!dialogVars) /\ [Backups!Next]_(Backups!backupVars)
    OBVIOUS
<1>1. /\ pointVars = Points!pointVars /\ accessVars = Grants!accessVars
      /\ signupVars = Signup!signupVars /\ dialogVars = Dialog!dialogVars
      /\ backupVars = Backups!backupVars
      /\ pointVars' = (Points!pointVars)' /\ accessVars' = (Grants!accessVars)'
      /\ signupVars' = (Signup!signupVars)' /\ dialogVars' = (Dialog!dialogVars)'
      /\ backupVars' = (Backups!backupVars)'
    BY DEF pointVars, accessVars, signupVars, dialogVars, backupVars, Points!pointVars,
           Grants!accessVars, Signup!signupVars, Dialog!dialogVars, Backups!backupVars
<1> QED BY <1>1 DEF AdministrationNext, allVars

LEMMA BehavesAsEach ==
    AdministrationSpec =>
        /\ Spec /\ Points!Spec /\ Grants!Spec
        /\ Signup!Spec /\ Dialog!Spec /\ Backups!Spec
BY StartsAsEach, StepsAsEach, PTL
   DEF AdministrationSpec, allVars, Spec, Points!Spec, Grants!Spec, Signup!Spec, Dialog!Spec,
       Backups!Spec

---------------------------------------------------------------------------
(* Numbers and finite sets *)

LEMMA GreatestNumber ==
    ASSUME NEW T \in SUBSET Nat, T # {}, NEW bound \in Nat, \A k \in T : k <= bound
    PROVE  \E m \in T : \A k \in T : k <= m
PROOF
<1> DEFINE Gaps == {bound - k : k \in T}
<1>1. Gaps \in SUBSET Nat /\ Gaps # {}
    <2>1. ASSUME NEW k \in T PROVE bound - k \in Nat
        OBVIOUS
    <2>2. Gaps \subseteq Nat
        BY <2>1
    <2>3. PICK k \in T : TRUE
        OBVIOUS
    <2>4. bound - k \in Gaps
        OBVIOUS
    <2> QED BY <2>2, <2>4
<1>2. PICK gap \in Gaps : \A other \in Gaps : gap <= other
    <2> HIDE DEF Gaps
    <2> QED BY <1>1, LeastNumber
<1>3. PICK m \in T : gap = bound - m
    OBVIOUS
<1>4. \A k \in T : bound - m <= bound - k
    BY <1>2, <1>3
<1> QED BY <1>3, <1>4

(* A set of at most one member.                                             *)
LEMMA AtMostOneMember ==
    ASSUME NEW S, \A p, q \in S : p = q
    PROVE  Cardinality(S) <= 1
PROOF
<1>1. CASE S = {}
    BY <1>1, FS_EmptySet
<1>2. CASE S # {}
    <2>1. PICK p : p \in S
        BY <1>2
    <2>2. S = {p}
        BY <2>1
    <2>3. Cardinality({p}) = 1
        BY FS_Singleton
    <2> QED BY <2>2, <2>3
<1> QED BY <1>1, <1>2


---------------------------------------------------------------------------
(* The points of a customer, for any number of calls: who holds the row of  *)
(* the customer knows the balance the ledger ends with.                     *)

PointsLocked ==
    \A c \in PointCall : points[c].pc \in {"read", "insert"} => customerLock = c
BalanceRead ==
    \A c \in PointCall : points[c].pc = "insert" =>
        points[c].balance = Points!Balance /\ points[c].balance + points[c].point >= 0
Committed(balance) == \E n \in DOMAIN ledger : ledger[n].balance = balance
EventsCommitted ==
    \A c \in PointCall : points[c].pc \in {"publish", "sync"} => Committed(points[c].balance)

PointsInv ==
    Points!TypeOK /\ PointsLocked /\ BalanceRead /\ EventsCommitted /\ Points!PointsExplained

LEMMA SameSums == \A f, S : Points!SumFunctionOnSet(f, S) = SumFunctionOnSet(f, S)
BY DEF Points!SumFunctionOnSet, SumFunctionOnSet, Points!FoldFunctionOnSet, FoldFunctionOnSet,
       Points!MapThenFoldSet, MapThenFoldSet

LEMMA PointsAreInt == (\A point \in Point \cup {0} : point \in Int) /\ Nobody \notin PointCall
BY PointsAssumed DEF Points!CustomerPointAssumption

LEMMA CountsAreFinite == \A n \in Int : IsFiniteSet(1 .. n)
BY FS_Interval

LEMMA BalanceSums ==
    ASSUME PointsInv
    PROVE  /\ Len(ledger) \in Nat /\ DOMAIN ledger = 1 .. Len(ledger)
           /\ Points!Balance = Points!Sum(Len(ledger))
           /\ Points!Balance \in Int /\ Points!Balance >= 0
PROOF
<1>1. ledger \in Seq(Points!Entry)
    BY DEF PointsInv, Points!TypeOK
<1>2. Len(ledger) \in Nat /\ DOMAIN ledger = 1 .. Len(ledger)
    BY <1>1
<1>3. CASE ledger = <<>>
    <2>1. Len(ledger) = 0 /\ 1 .. Len(ledger) = {}
        BY <1>3
    <2>2. Points!Sum(Len(ledger)) = 0
        BY <2>1, SameSums, SumEmpty DEF Points!Sum
    <2> QED BY <1>2, <1>3, <2>2 DEF Points!Balance
<1>4. CASE ledger # <<>>
    <2>1. Len(ledger) \in DOMAIN ledger
        BY <1>1, <1>4
    <2>2. Points!Balance = ledger[Len(ledger)].balance
        BY <1>4 DEF Points!Balance, Points!Last
    <2>3. ledger[Len(ledger)] \in Points!Entry
        BY <1>1, <2>1
    <2> QED BY <1>2, <2>1, <2>2, <2>3 DEF PointsInv, Points!PointsExplained, Points!Entry
<1> QED BY <1>2, <1>3, <1>4

LEMMA InitPoints == Points!Init => PointsInv
PROOF
<1> SUFFICES ASSUME Points!Init PROVE PointsInv
    OBVIOUS
<1>1. ledger = <<>> /\ DOMAIN ledger = {} /\ totalPoint = 0 /\ customerLock = Nobody
      /\ points = [c \in PointCall |-> [pc |-> "idle", point |-> 0, balance |-> 0]]
    BY DEF Points!Init
<1>2. Points!TypeOK
    BY <1>1 DEF Points!TypeOK, Points!PointStep
<1>3. PointsLocked /\ BalanceRead /\ EventsCommitted
    BY <1>1 DEF PointsLocked, BalanceRead, EventsCommitted
<1>4. Points!PointsExplained
    BY <1>1 DEF Points!PointsExplained
<1> QED BY <1>2, <1>3, <1>4 DEF PointsInv

PointsCall == [pc : Points!PointStep, point : Point \cup {0}, balance : Int]

(* A step of c that leaves the ledger as it is.                             *)
LEMMA CallGoesOn ==
    ASSUME PointsInv, NEW c \in PointCall, NEW call \in PointsCall,
           points' = [points EXCEPT ![c] = call], UNCHANGED ledger,
           customerLock' \in PointCall \cup {Nobody},
           \A d \in PointCall : d # c /\ customerLock = d => customerLock' = d,
           call.pc \in {"read", "insert"} => customerLock' = c,
           call.pc = "insert" => call.balance = Points!Balance /\ call.balance + call.point >= 0,
           call.pc \in {"publish", "sync"} => Committed(call.balance),
           totalPoint' = totalPoint \/ (totalPoint' \in Int /\ Committed(totalPoint'))
    PROVE  PointsInv'
PROOF
<1>1. points \in [PointCall -> PointsCall]
    BY DEF PointsInv, Points!TypeOK, PointsCall
<1>2. /\ points'[c] = call /\ \A d \in PointCall : d # c => points'[d] = points[d]
      /\ points' \in [PointCall -> PointsCall]
    BY <1>1
<1>3. Points!TypeOK'
    BY <1>2 DEF PointsInv, Points!TypeOK, PointsCall
<1>4. PointsLocked'
    BY <1>2 DEF PointsInv, PointsLocked
<1>5. BalanceRead'
    BY <1>2 DEF PointsInv, BalanceRead, Points!Balance
<1>6. EventsCommitted'
    BY <1>2 DEF PointsInv, EventsCommitted, Committed
<1>7. Points!PointsExplained'
    <2>1. \A n \in DOMAIN ledger : ledger[n].balance >= 0 /\ ledger[n].balance = Points!Sum(n)
        BY DEF PointsInv, Points!PointsExplained
    <2>2. \A n : Points!Sum(n)' = Points!Sum(n)
        BY DEF Points!Sum
    <2>3. totalPoint' = 0 \/ \E n \in DOMAIN ledger : ledger[n].balance = totalPoint'
        BY DEF PointsInv, Points!PointsExplained, Committed
    <2> QED BY <2>1, <2>2, <2>3 DEF Points!PointsExplained
<1> QED BY <1>3, <1>4, <1>5, <1>6, <1>7 DEF PointsInv

(* The ledger grows by what c has read and its points.                      *)
LEMMA CommitPointsInv ==
    ASSUME PointsInv, NEW c \in PointCall, Points!CommitPoints(c)
    PROVE  PointsInv'
PROOF
<1> DEFINE point == points[c].point
           after == points[c].balance + point
           entry == [point |-> point, balance |-> after]
           call == [points[c] EXCEPT !.pc = "publish", !.balance = after]
           n == Len(ledger)
<1>1. /\ points[c].pc = "insert" /\ ledger' = Append(ledger, entry)
      /\ points' = [points EXCEPT ![c] = call] /\ UNCHANGED totalPoint
      /\ customerLock' = IF customerLock = c THEN Nobody ELSE customerLock
    BY DEF Points!CommitPoints, Points!Unlocked
<1>2. /\ points \in [PointCall -> PointsCall] /\ points[c] \in PointsCall
      /\ ledger \in Seq(Points!Entry) /\ customerLock = c /\ totalPoint \in Int
    BY <1>1 DEF PointsInv, Points!TypeOK, PointsLocked, PointsCall
<1>3. /\ n \in Nat /\ DOMAIN ledger = 1 .. n
      /\ points[c].balance = Points!Sum(n) /\ after >= 0
      /\ point \in Int /\ points[c].balance \in Int
    <2>1. points[c].point \in Int /\ points[c].balance \in Int
        <3>1. points[c].point \in Point \cup {0} /\ points[c].balance \in Int
            BY <1>2 DEF PointsCall
        <3> QED BY <3>1, PointsAreInt
    <2>2. points[c].balance = Points!Balance /\ points[c].balance + points[c].point >= 0
        BY <1>1 DEF PointsInv, BalanceRead
    <2> QED BY <2>1, <2>2, BalanceSums
<1>4. entry \in Points!Entry /\ after \in Int
    BY <1>3 DEF Points!Entry
<1>5. call \in PointsCall /\ call.pc = "publish" /\ call.balance = after
    BY <1>2, <1>4 DEF PointsCall, Points!PointStep
<1>6. entry.point = point /\ entry.balance = after
    OBVIOUS
<1> HIDE DEF entry, call
<1>7. /\ ledger' \in Seq(Points!Entry) /\ Len(ledger') = n + 1 /\ DOMAIN ledger' = 1 .. n + 1
      /\ ledger'[n + 1] = entry /\ \A k \in 1 .. n : ledger'[k] = ledger[k]
    BY <1>1, <1>2, <1>4
<1>8. /\ points'[c] = call /\ \A d \in PointCall : d # c => points'[d] = points[d]
      /\ points' \in [PointCall -> PointsCall]
    BY <1>1, <1>2, <1>5
<1>9. Points!TypeOK'
    BY <1>1, <1>2, <1>7, <1>8 DEF PointsInv, Points!TypeOK, PointsCall
<1>10. PointsLocked' /\ BalanceRead'
    <2>1. \A d \in PointCall : points'[d].pc \notin {"read", "insert"}
        BY <1>2, <1>5, <1>8 DEF PointsInv, PointsLocked
    <2> QED BY <2>1 DEF PointsLocked, BalanceRead
<1>11. \A balance : Committed(balance) => Committed(balance)'
    BY <1>3, <1>7 DEF Committed
<1>12. EventsCommitted'
    <2> SUFFICES ASSUME NEW d \in PointCall, points'[d].pc \in {"publish", "sync"},
                        NEW balance, balance = points'[d].balance
                 PROVE  Committed(balance)'
        BY DEF EventsCommitted, Committed
    <2>1. CASE d = c
        <3>1. balance = after
            BY <1>5, <1>8, <2>1
        <3> QED BY <1>3, <1>6, <1>7, <3>1 DEF Committed
    <2>2. CASE d # c
        BY <1>8, <1>11, <2>2 DEF PointsInv, EventsCommitted
    <2> QED BY <2>1, <2>2
<1>13. Points!PointsExplained'
    <2> DEFINE f == [k \in DOMAIN ledger |-> ledger[k].point]
               g == [k \in DOMAIN ledger' |-> ledger'[k].point]
    <2>1. \A m : Points!Sum(m) = SumFunctionOnSet(f, 1 .. m)
                /\ Points!Sum(m)' = SumFunctionOnSet(g, 1 .. m)
        BY SameSums DEF Points!Sum
    <2>2. \A k \in 1 .. n : f[k] = g[k] /\ g[k] \in Int
        <3> TAKE k \in 1 .. n
        <3>1. ledger[k] \in Points!Entry /\ ledger'[k] = ledger[k]
            BY <1>2, <1>3, <1>7
        <3>2. k \in DOMAIN ledger /\ k \in DOMAIN ledger'
            BY <1>3, <1>7
        <3>3. f[k] = ledger[k].point /\ g[k] = ledger'[k].point
            BY <3>2
        <3> QED BY <3>1, <3>3 DEF Points!Entry
    <2>3. g[n + 1] = point
        BY <1>3, <1>6, <1>7
    <2> HIDE DEF f, g
    <2>4. ASSUME NEW m \in 0 .. n
          PROVE  SumFunctionOnSet(f, 1 .. m) = SumFunctionOnSet(g, 1 .. m)
        <3>1. m \in Int /\ \A k \in 1 .. m : f[k] = g[k]
            BY <1>3, <2>2
        <3>2. IsFiniteSet(1 .. m)
            BY <3>1, CountsAreFinite
        <3> QED BY <3>1, <3>2, SumSame
    <2>5. SumFunctionOnSet(g, 1 .. n + 1) = SumFunctionOnSet(g, 1 .. n) + point
        <3>1. IsFiniteSet(1 .. n)
            BY <1>3, CountsAreFinite
        <3>2. 1 .. (n + 1) = (1 .. n) \cup {n + 1} /\ n + 1 \notin 1 .. n
            BY <1>3
        <3>3. g[n + 1] \in Int /\ \A k \in 1 .. n : g[k] \in Int
            BY <1>3, <2>2, <2>3
        <3>4. ASSUME NEW S, S = 1 .. n, NEW m, m = n + 1
              PROVE  SumFunctionOnSet(g, S \cup {m}) = SumFunctionOnSet(g, S) + g[m]
            <4>1. IsFiniteSet(S) /\ m \notin S /\ g[m] \in Int /\ \A k \in S : g[k] \in Int
                BY <3>1, <3>2, <3>3, <3>4
            <4> QED BY <4>1, SumAdd
        <3> QED BY <2>3, <3>2, <3>4
    <2>6. \A m : m = n + 1 => Points!Sum(m)' = after
        <3>1. SumFunctionOnSet(f, 1 .. n) = SumFunctionOnSet(g, 1 .. n)
            BY <1>3, <2>4
        <3>2. Points!Sum(n) = SumFunctionOnSet(f, 1 .. n)
            BY <2>1
        <3> QED BY <1>3, <2>1, <2>5, <3>1, <3>2
    <2>7. \A k \in 1 .. n : Points!Sum(k)' = Points!Sum(k)
        BY <1>3, <2>1, <2>4
    <2>8. \A k \in 1 .. n : ledger[k].balance >= 0 /\ ledger[k].balance = Points!Sum(k)
        BY <1>3 DEF PointsInv, Points!PointsExplained
    <2>9. \A k \in DOMAIN ledger' : ledger'[k].balance >= 0 /\ ledger'[k].balance = Points!Sum(k)'
        <3> TAKE k \in DOMAIN ledger'
        <3>1. CASE k = n + 1
            BY <1>3, <1>6, <1>7, <2>6, <3>1
        <3>2. CASE k # n + 1
            <4>1. k \in 1 .. n
                BY <1>3, <1>7, <3>2
            <4> QED BY <1>7, <2>7, <2>8, <4>1
        <3> QED BY <3>1, <3>2
    <2>10. totalPoint' = 0 \/ \E k \in DOMAIN ledger' : ledger'[k].balance = totalPoint'
        <3>1. totalPoint = 0 \/ \E k \in 1 .. n : ledger[k].balance = totalPoint
            BY <1>3 DEF PointsInv, Points!PointsExplained
        <3> QED BY <1>1, <1>3, <1>7, <3>1
    <2> QED BY <2>9, <2>10 DEF Points!PointsExplained
<1> QED BY <1>9, <1>10, <1>12, <1>13 DEF PointsInv

LEMMA NextPoints == ASSUME PointsInv, [Points!Next]_(Points!pointVars) PROVE PointsInv'
PROOF
<1> USE DEF Points!GoTo, Points!Unlocked
<1>1. /\ points \in [PointCall -> PointsCall] /\ Nobody \notin PointCall
      /\ customerLock \in PointCall \cup {Nobody}
    BY PointsAreInt DEF PointsInv, Points!TypeOK, PointsCall
<1>2. ASSUME NEW c \in PointCall, NEW step \in Points!PointStep,
             points' = [points EXCEPT ![c].pc = step], UNCHANGED <<ledger, totalPoint>>,
             \/ step \in {"failed", "dead"} /\ Points!Unlocked(c)
             \/ step = "read" /\ customerLock = Nobody /\ customerLock' = c
             \/ step = "sync" /\ points[c].pc = "publish" /\ UNCHANGED customerLock
      PROVE  PointsInv'
    <2> DEFINE call == [points[c] EXCEPT !.pc = step]
    <2>1. call \in PointsCall /\ call.pc = step /\ call.balance = points[c].balance
        BY <1>1, <1>2 DEF PointsCall
    <2>2. points' = [points EXCEPT ![c] = call]
        BY <1>2
    <2> HIDE DEF call
    <2>3. /\ customerLock' \in PointCall \cup {Nobody}
          /\ \A d \in PointCall : d # c /\ customerLock = d => customerLock' = d
        BY <1>1, <1>2
    <2>4. call.pc \in {"publish", "sync"} => Committed(call.balance)
        BY <1>2, <2>1 DEF PointsInv, EventsCommitted
    <2> QED BY <1>2, <2>1, <2>2, <2>3, <2>4, CallGoesOn
<1>3. ASSUME NEW c \in PointCall, NEW point \in Point, Points!StartPoints(c, point)
      PROVE  PointsInv'
    <2> DEFINE call == [points[c] EXCEPT !.pc = "lock", !.point = point]
    <2>1. call \in PointsCall /\ call.pc = "lock"
        BY <1>1 DEF PointsCall, Points!PointStep, Points!PointTransaction
    <2>2. points' = [points EXCEPT ![c] = call] /\ UNCHANGED <<ledger, customerLock, totalPoint>>
        BY <1>3 DEF Points!StartPoints
    <2> HIDE DEF call
    <2> QED BY <1>1, <2>1, <2>2, CallGoesOn
<1>4. ASSUME NEW c \in PointCall, Points!ReadBalance(c) PROVE PointsInv'
    <2> DEFINE balance == Points!Balance
               call == [points[c] EXCEPT !.pc = "insert", !.balance = balance]
    <2>1. CASE balance + points[c].point >= 0 \/ points[c].point > 0
        <3>1. /\ points' = [points EXCEPT ![c] = call] /\ points[c].pc = "read"
              /\ UNCHANGED <<ledger, customerLock, totalPoint>>
            BY <1>4, <2>1 DEF Points!ReadBalance
        <3>2. balance \in Int /\ balance >= 0 /\ points[c].point \in Int
            <4>1. points[c].point \in Point \cup {0}
                BY <1>1 DEF PointsCall
            <4> QED BY <4>1, BalanceSums, PointsAreInt
        <3> HIDE DEF balance
        <3>3. /\ call \in PointsCall /\ call.pc = "insert" /\ call.balance = balance
              /\ call.point = points[c].point
            BY <1>1, <3>2 DEF PointsCall, Points!PointStep, Points!PointTransaction
        <3> HIDE DEF call
        <3>4. balance + points[c].point >= 0
            BY <2>1, <3>2
        <3>5. customerLock = c
            BY <3>1 DEF PointsInv, PointsLocked
        <3>6. call.balance = Points!Balance
            BY <3>3 DEF balance
        <3> QED BY <1>1, <3>1, <3>3, <3>4, <3>5, <3>6, CallGoesOn
    <2>2. CASE ~(balance + points[c].point >= 0 \/ points[c].point > 0)
        BY <1>2, <1>4, <2>2 DEF Points!ReadBalance, Points!PointStep
    <2> QED BY <2>1, <2>2
<1>5. ASSUME NEW c \in PointCall, Points!SyncTotalPoint(c) PROVE PointsInv'
    <2> DEFINE call == [points[c] EXCEPT !.pc = "done"]
    <2>1. call \in PointsCall /\ call.pc = "done"
        BY <1>1 DEF PointsCall, Points!PointStep
    <2>2. /\ points' = [points EXCEPT ![c] = call] /\ points[c].pc = "sync"
          /\ UNCHANGED <<ledger, customerLock>> /\ totalPoint' = points[c].balance
        BY <1>5 DEF Points!SyncTotalPoint
    <2> HIDE DEF call
    <2>3. totalPoint' \in Int
        BY <1>1, <2>2 DEF PointsCall
    <2>4. Committed(totalPoint')
        BY <2>2 DEF PointsInv, EventsCommitted
    <2> QED BY <1>1, <2>1, <2>2, <2>3, <2>4, CallGoesOn
<1>6. ASSUME NEW c \in PointCall,
             Points!LockCustomer(c) \/ Points!RollBackPoints(c) \/ Points!Publish(c) \/ Points!Die(c)
      PROVE  PointsInv'
    BY <1>2, <1>6 DEF Points!LockCustomer, Points!RollBackPoints, Points!Publish, Points!Die,
                      Points!PointStep, Points!PointTransaction
<1>7. CASE UNCHANGED Points!pointVars
    <2>1. UNCHANGED <<ledger, customerLock, points, totalPoint>>
        BY <1>7 DEF Points!pointVars
    <2> QED BY <2>1 DEF PointsInv, Points!TypeOK, PointsLocked, BalanceRead, EventsCommitted,
            Committed, Points!PointsExplained, Points!Sum, Points!Balance
<1> QED BY <1>3, <1>4, <1>5, <1>6, <1>7, CommitPointsInv DEF Points!Next, Points!PointsStep

(* However calls and checkouts overlap, fail or die: every balance in the   *)
(* ledger is the sum of the points up to it and never negative, and the     *)
(* cached total is a balance that was committed.                            *)
THEOREM BalancesExplained ==
    /\ Points!Spec => []Points!PointsExplained
    /\ AdministrationSpec => []PointsExplained
PROOF
<1>1. PointsInv /\ [Points!Next]_(Points!pointVars) => PointsInv'
    BY NextPoints
<1>2. PointsInv => Points!PointsExplained /\ PointsExplained
    BY DEF PointsInv, PointsExplained
<1> QED BY <1>1, <1>2, InitPoints, BehavesAsEach, PTL DEF Points!Spec

---------------------------------------------------------------------------
(* The two payment forms, for any number of submissions: the key a form     *)
(* holds has been sent with one content only, and an attempt keeps it.      *)

SentKeys ==
    /\ Len(submission) <= MaxSubmissions
    /\ \A n \in DOMAIN submission :
        submission[n].key \in 1 .. n /\ submission[n].attempt \in 1 .. n
FormKnown ==
    /\ page.key <= Len(submission) /\ page.attempt <= Len(submission)
    /\ page.key # Dialog!Fresh =>
        \A n \in DOMAIN submission :
            submission[n].key = page.key => submission[n].content = page.last
    /\ page.open /\ page.attempt # 0 =>
        LET n == Len(submission) IN
        /\ page.key # Dialog!Fresh /\ n # 0
        /\ submission[n].attempt = page.attempt
        /\ submission[n].key = page.key /\ submission[n].content = page.last
OneContent ==
    \A m, n \in DOMAIN submission :
        submission[m].key = submission[n].key => submission[m].content = submission[n].content
OneKey ==
    \A m, n \in DOMAIN submission :
        submission[m].attempt = submission[n].attempt =>
            submission[m].key = submission[n].key /\ submission[m].content = submission[n].content

DialogInv == Dialog!TypeOK /\ SentKeys /\ FormKnown /\ OneContent /\ OneKey

Form == [kind : {"dialog", "panel"}, open : BOOLEAN, key : Dialog!Key,
         last : Content \cup {Nothing}, attempt : Dialog!Key, since : Dialog!Key]
Submission == [key : Dialog!Key, content : Content, attempt : Dialog!Key, served : BOOLEAN,
               paid : BOOLEAN, answered : BOOLEAN]

LEMMA InitDialog == Dialog!Init => DialogInv
PROOF
<1> SUFFICES ASSUME Dialog!Init PROVE DialogInv
    OBVIOUS
<1>1. PICK kind \in {"dialog", "panel"} :
        page = [kind |-> kind, open |-> FALSE, key |-> 0, last |-> Nothing,
                attempt |-> 0, since |-> 0]
    BY DEF Dialog!Init, Dialog!Fresh
<1>2. submission = <<>> /\ payment = {} /\ DOMAIN submission = {} /\ Len(submission) = 0
    BY DEF Dialog!Init
<1>3. 0 \in Dialog!Key
    BY DialogAssumed DEF Dialog!PaymentDialogAssumption, Dialog!Key
<1>4. Dialog!TypeOK
    BY <1>1, <1>2, <1>3 DEF Dialog!TypeOK
<1>5. SentKeys /\ FormKnown /\ OneContent /\ OneKey
    BY <1>1, <1>2, DialogAssumed
    DEF SentKeys, FormKnown, OneContent, OneKey, Dialog!Fresh, Dialog!PaymentDialogAssumption
<1> QED BY <1>4, <1>5 DEF DialogInv

LEMMA DialogTypes ==
    ASSUME Dialog!TypeOK
    PROVE  /\ page \in Form /\ submission \in Seq(Submission)
           /\ Len(submission) \in Nat /\ DOMAIN submission = 1 .. Len(submission)
           /\ MaxSubmissions \in Nat /\ Nothing \notin Content
           /\ Dialog!Key = 0 .. MaxSubmissions
BY DialogAssumed DEF Dialog!TypeOK, Form, Submission, Dialog!PaymentDialogAssumption, Dialog!Key

(* Nothing is sent: the form is as it was, or its key or its attempt is     *)
(* given up.                                                                *)
LEMMA FormChanges ==
    ASSUME DialogInv, page' \in Form, UNCHANGED <<submission, payment>>,
           page'.key = 0 \/ (page'.key = page.key /\ page'.last = page.last),
           \/ page'.attempt = 0
           \/ page'.attempt = page.attempt /\ ~page'.open
           \/ page' = page
    PROVE  DialogInv'
PROOF
<1>1. page \in Form /\ Len(submission) \in Nat
    BY DialogTypes DEF DialogInv
<1>2. Dialog!TypeOK'
    BY DEF DialogInv, Dialog!TypeOK, Form
<1>3. FormKnown'
    BY <1>1 DEF DialogInv, FormKnown, Form, Dialog!Fresh
<1> QED BY <1>2, <1>3 DEF DialogInv, SentKeys, OneContent, OneKey

(* A request is served or answered.                                         *)
LEMMA RequestAdvances ==
    ASSUME DialogInv, NEW n \in DOMAIN submission, NEW sub \in Submission,
           submission' = [submission EXCEPT ![n] = sub], UNCHANGED page,
           sub.key = submission[n].key, sub.content = submission[n].content,
           sub.attempt = submission[n].attempt,
           payment' \subseteq Dialog!Key \X Content
    PROVE  DialogInv'
PROOF
<1>1. /\ submission \in Seq(Submission) /\ Len(submission) \in Nat
      /\ DOMAIN submission = 1 .. Len(submission)
    BY DialogTypes DEF DialogInv
<1>2. /\ submission' \in Seq(Submission) /\ Len(submission') = Len(submission)
      /\ DOMAIN submission' = DOMAIN submission
      /\ submission'[n] = sub /\ \A m \in DOMAIN submission : m # n => submission'[m] = submission[m]
    BY <1>1
<1>3. \A m \in DOMAIN submission : /\ submission'[m].key = submission[m].key
                                   /\ submission'[m].content = submission[m].content
                                   /\ submission'[m].attempt = submission[m].attempt
    BY <1>2
<1>4. Dialog!TypeOK'
    BY <1>2 DEF DialogInv, Dialog!TypeOK, Submission
<1>5. SentKeys' /\ OneContent' /\ OneKey'
    <2>1. SentKeys'
        BY <1>2, <1>3 DEF DialogInv, SentKeys
    <2>2. OneContent'
        BY <1>2, <1>3 DEF DialogInv, OneContent
    <2>3. OneKey'
        BY <1>2, <1>3 DEF DialogInv, OneKey
    <2> QED BY <2>1, <2>2, <2>3
<1>6. FormKnown'
    <2>1. page.open /\ page.attempt # 0 => Len(submission) \in DOMAIN submission
        BY <1>1 DEF DialogInv, FormKnown
    <2> QED BY <1>2, <1>3, <2>1 DEF DialogInv, FormKnown
<1> QED BY <1>4, <1>5, <1>6 DEF DialogInv

LEMMA SubmitInv ==
    ASSUME DialogInv, NEW content \in Content, Dialog!Submit(content)
    PROVE  DialogInv'
PROOF
<1> DEFINE n == Len(submission)
           attempt == IF page.attempt # 0 /\ submission[n].content = content
                      THEN page.attempt ELSE n + 1
           key == Dialog!KeyFor(content)
           sub == [key |-> key, content |-> content, attempt |-> attempt,
                   served |-> FALSE, paid |-> FALSE, answered |-> FALSE]
<1>1. /\ page.open /\ n < MaxSubmissions /\ UNCHANGED payment
      /\ page' = [page EXCEPT !.key = key, !.last = content, !.attempt = attempt]
      /\ submission' = Append(submission, sub)
    BY DEF Dialog!Submit, Dialog!Next1
<1>2. /\ page \in Form /\ submission \in Seq(Submission) /\ n \in Nat
      /\ DOMAIN submission = 1 .. n /\ MaxSubmissions \in Nat
      /\ Dialog!Key = 0 .. MaxSubmissions /\ Nothing \notin Content
    BY DialogTypes DEF DialogInv
<1>3. /\ page.key \in Dialog!Key /\ page.attempt \in Dialog!Key
      /\ page.key <= n /\ page.attempt <= n
    BY <1>2 DEF DialogInv, FormKnown, Form
<1>4. \/ key = page.key /\ key # 0 /\ page.last \in {Nothing, content}
      \/ key = n + 1 /\ (page.attempt # 0 /\ page.open => page.last # content)
    BY DEF Dialog!KeyFor, Dialog!Next1, Dialog!Fresh, DialogInv, FormKnown
<1>5. \/ /\ attempt = page.attempt /\ page.attempt # 0 /\ n # 0
         /\ submission[n].content = content /\ key = page.key /\ key # 0
         /\ submission[n].attempt = attempt /\ submission[n].key = key
      \/ attempt = n + 1
    BY <1>1, <1>4 DEF DialogInv, FormKnown
<1>6. key \in 1 .. n + 1 /\ attempt \in 1 .. n + 1
    BY <1>2, <1>3, <1>4, <1>5
<1> HIDE DEF attempt, key
<1>7. key \in Dialog!Key /\ attempt \in Dialog!Key
    BY <1>1, <1>2, <1>6
<1>8. sub \in Submission /\ sub.key = key /\ sub.content = content /\ sub.attempt = attempt
    BY <1>7 DEF Submission
<1>9. /\ page' \in Form /\ page'.key = key /\ page'.last = content /\ page'.attempt = attempt
      /\ page'.open
    BY <1>1, <1>2, <1>7 DEF Form
<1> HIDE DEF sub
<1>10. /\ submission' \in Seq(Submission) /\ Len(submission') = n + 1
       /\ DOMAIN submission' = 1 .. n + 1 /\ submission'[n + 1] = sub
       /\ \A m \in 1 .. n : submission'[m] = submission[m]
    BY <1>1, <1>2, <1>8
<1>11. Dialog!TypeOK'
    BY <1>1, <1>9, <1>10 DEF DialogInv, Dialog!TypeOK, Form, Submission
<1>12. SentKeys'
    <2> SUFFICES ASSUME NEW m \in 1 .. n + 1
                 PROVE  submission'[m].key \in 1 .. m /\ submission'[m].attempt \in 1 .. m
        BY <1>1, <1>2, <1>10 DEF SentKeys
    <2>1. CASE m = n + 1
        BY <1>6, <1>8, <1>10, <2>1
    <2>2. CASE m # n + 1
        <3>1. m \in 1 .. n
            BY <1>2, <2>2
        <3> QED BY <1>2, <1>10, <3>1 DEF DialogInv, SentKeys
    <2> QED BY <2>1, <2>2
(* The key was sent with this content only, or never.                       *)
<1>13. \A m \in 1 .. n : submission[m].key = key => submission[m].content = content
    <2> SUFFICES ASSUME NEW m \in 1 .. n, submission[m].key = key
                 PROVE  submission[m].content = content
        OBVIOUS
    <2>1. submission[m].key \in 1 .. m
        BY <1>2 DEF DialogInv, SentKeys
    <2>2. key = page.key /\ key # 0 /\ page.last \in {Nothing, content}
        BY <1>2, <1>4, <2>1
    <2>3. submission[m].content = page.last
        BY <1>2, <2>2 DEF DialogInv, FormKnown, Dialog!Fresh
    <2>4. submission[m] \in Submission
        BY <1>2
    <2> QED BY <1>2, <2>2, <2>3, <2>4 DEF Submission
<1>14. OneContent'
    BY <1>2, <1>8, <1>10, <1>13 DEF DialogInv, OneContent
<1>15. \A m \in 1 .. n : submission[m].attempt = attempt =>
            submission[m].key = key /\ submission[m].content = content
    <2> SUFFICES ASSUME NEW m \in 1 .. n, submission[m].attempt = attempt
                 PROVE  submission[m].key = key /\ submission[m].content = content
        OBVIOUS
    <2>1. submission[m].attempt \in 1 .. m
        BY <1>2 DEF DialogInv, SentKeys
    <2>2. /\ submission[n].content = content /\ submission[n].attempt = attempt
          /\ submission[n].key = key
        BY <1>2, <1>5, <2>1
    <2> QED BY <1>2, <2>2 DEF DialogInv, OneKey
<1>16. OneKey'
    BY <1>2, <1>8, <1>10, <1>15 DEF DialogInv, OneKey
<1>17. FormKnown'
    <2>1. \A m \in 1 .. n + 1 : submission'[m].key = key => submission'[m].content = content
        BY <1>2, <1>8, <1>10, <1>13
    <2>2. key <= n + 1 /\ attempt <= n + 1 /\ key # 0 /\ n + 1 # 0
        BY <1>2, <1>6
    <2> QED BY <1>8, <1>9, <1>10, <2>1, <2>2 DEF FormKnown, Dialog!Fresh
<1> QED BY <1>11, <1>12, <1>14, <1>16, <1>17 DEF DialogInv

LEMMA OnSuccessInv ==
    ASSUME DialogInv, NEW n \in DOMAIN submission, Dialog!OnSuccess(n)
    PROVE  DialogInv'
PROOF
<1> DEFINE sub == [submission[n] EXCEPT !.answered = TRUE]
<1>1. page \in Form /\ submission \in Seq(Submission) /\ submission[n] \in Submission
      /\ Len(submission) \in Nat /\ DOMAIN submission = 1 .. Len(submission)
    BY DialogTypes DEF DialogInv
<1>2. submission' = [submission EXCEPT ![n] = sub] /\ UNCHANGED payment
    BY DEF Dialog!OnSuccess
<1>3. /\ sub \in Submission /\ sub.key = submission[n].key
      /\ sub.content = submission[n].content /\ sub.attempt = submission[n].attempt
    BY <1>1 DEF Submission
<1> HIDE DEF sub
<1>4. /\ submission' \in Seq(Submission) /\ Len(submission') = Len(submission)
      /\ DOMAIN submission' = DOMAIN submission
      /\ submission'[n] = sub /\ \A m \in DOMAIN submission : m # n => submission'[m] = submission[m]
    BY <1>1, <1>2, <1>3
<1>5. \A m \in DOMAIN submission : /\ submission'[m].key = submission[m].key
                                   /\ submission'[m].content = submission[m].content
                                   /\ submission'[m].attempt = submission[m].attempt
    BY <1>3, <1>4
<1>6. page' \in Form /\ (page' = page \/ (page'.key = 0 /\ page'.attempt = 0))
    <2> DEFINE retired == [page EXCEPT !.key = 0, !.last = Nothing]
               closed == [retired EXCEPT !.open = FALSE, !.attempt = 0]
               emptied == [retired EXCEPT !.attempt = 0]
    <2>1. retired \in Form /\ retired.key = 0
        <3>1. 0 \in Dialog!Key
            BY DialogTypes DEF DialogInv
        <3> QED BY <1>1, <3>1 DEF Form
    <2> HIDE DEF retired
    <2>2. closed \in Form /\ closed.key = 0 /\ closed.attempt = 0
        BY <2>1 DEF Form
    <2>3. emptied \in Form /\ emptied.key = 0 /\ emptied.attempt = 0
        BY <2>1 DEF Form
    <2>4. page' = closed \/ page' = emptied \/ page' = page
        BY DEF Dialog!OnSuccess, Dialog!Retired, Dialog!Fresh, retired
    <2> QED BY <1>1, <2>2, <2>3, <2>4
<1>7. Dialog!TypeOK'
    BY <1>2, <1>4, <1>6 DEF DialogInv, Dialog!TypeOK, Submission, Form
<1>8. SentKeys' /\ OneContent' /\ OneKey'
    BY <1>4, <1>5 DEF DialogInv, SentKeys, OneContent, OneKey
<1>9. FormKnown'
    <2>1. page.open /\ page.attempt # 0 => Len(submission) \in DOMAIN submission
        BY <1>1 DEF DialogInv, FormKnown
    <2>2. CASE page' = page
        BY <1>4, <1>5, <2>1, <2>2 DEF DialogInv, FormKnown
    <2>3. CASE page'.key = 0 /\ page'.attempt = 0
        BY <1>1, <1>4, <2>3 DEF FormKnown, Dialog!Fresh
    <2> QED BY <1>6, <2>2, <2>3
<1> QED BY <1>7, <1>8, <1>9 DEF DialogInv

LEMMA NextDialog == ASSUME DialogInv, [Dialog!Next]_(Dialog!dialogVars) PROVE DialogInv'
PROOF
<1>1. /\ page \in Form /\ submission \in Seq(Submission) /\ Len(submission) \in Nat
      /\ DOMAIN submission = 1 .. Len(submission) /\ Dialog!Key = 0 .. MaxSubmissions
      /\ MaxSubmissions \in Nat /\ Len(submission) <= MaxSubmissions
    BY DialogTypes DEF DialogInv, SentKeys
<1>2. CASE Dialog!OpenForm
    <2>1. page' = [page EXCEPT !.open = TRUE, !.attempt = 0, !.since = Len(submission)]
        BY <1>2 DEF Dialog!OpenForm
    <2>2. 0 \in Dialog!Key /\ Len(submission) \in Dialog!Key
        BY <1>1
    <2>3. /\ page' \in Form /\ page'.key = page.key /\ page'.last = page.last
          /\ page'.attempt = 0
        BY <1>1, <2>1, <2>2 DEF Form
    <2> QED BY <1>2, <2>3, FormChanges DEF Dialog!OpenForm
<1>3. CASE Dialog!CloseForm
    <2> DEFINE retired == [page EXCEPT !.key = 0, !.last = Nothing]
    <2>1. retired \in Form /\ retired.key = 0 /\ retired.attempt = page.attempt
        <3>1. 0 \in Dialog!Key
            BY <1>1
        <3> QED BY <1>1, <3>1 DEF Form
    <2>2. page' = [retired EXCEPT !.open = FALSE]
        BY <1>3 DEF Dialog!CloseForm, Dialog!Retired, Dialog!Fresh
    <2> HIDE DEF retired
    <2>3. page' \in Form /\ page'.key = 0 /\ page'.attempt = page.attempt /\ ~page'.open
        BY <2>1, <2>2 DEF Form
    <2> QED BY <1>3, <2>3, FormChanges DEF Dialog!CloseForm
<1>4. ASSUME NEW content \in Content, Dialog!Submit(content) PROVE DialogInv'
    BY <1>4, SubmitInv
<1>5. ASSUME NEW n \in DOMAIN submission, Dialog!Serve(n) PROVE DialogInv'
    <2>1. submission[n] \in Submission
        BY <1>1
    <2>2. CASE submission' = [submission EXCEPT ![n] = [@ EXCEPT !.served = TRUE, !.paid = TRUE]]
               /\ payment' = payment \cup {<<submission[n].key, submission[n].content>>}
        <3> DEFINE sub == [submission[n] EXCEPT !.served = TRUE, !.paid = TRUE]
        <3>1. /\ sub \in Submission /\ sub.key = submission[n].key
              /\ sub.content = submission[n].content /\ sub.attempt = submission[n].attempt
            BY <2>1 DEF Submission
        <3>2. submission' = [submission EXCEPT ![n] = sub]
            BY <2>2
        <3> HIDE DEF sub
        <3>3. payment' \subseteq Dialog!Key \X Content
            BY <2>1, <2>2 DEF DialogInv, Dialog!TypeOK, Submission
        <3> QED BY <1>5, <3>1, <3>2, <3>3, RequestAdvances DEF Dialog!Serve
    <2>3. CASE submission' = [submission EXCEPT ![n].served = TRUE] /\ UNCHANGED payment
        <3> DEFINE sub == [submission[n] EXCEPT !.served = TRUE]
        <3>1. /\ sub \in Submission /\ sub.key = submission[n].key
              /\ sub.content = submission[n].content /\ sub.attempt = submission[n].attempt
            BY <2>1 DEF Submission
        <3>2. submission' = [submission EXCEPT ![n] = sub]
            BY <2>3
        <3> HIDE DEF sub
        <3>3. payment' \subseteq Dialog!Key \X Content
            BY <2>3 DEF DialogInv, Dialog!TypeOK
        <3> QED BY <1>5, <3>1, <3>2, <3>3, RequestAdvances DEF Dialog!Serve
    <2> QED BY <1>5, <2>2, <2>3 DEF Dialog!Serve
<1>6. ASSUME NEW n \in DOMAIN submission, Dialog!OnSuccess(n) PROVE DialogInv'
    BY <1>6, OnSuccessInv
<1>7. ASSUME NEW n \in DOMAIN submission, Dialog!OnError(n) PROVE DialogInv'
    <2> DEFINE sub == [submission[n] EXCEPT !.answered = TRUE]
    <2>1. /\ sub \in Submission /\ sub.key = submission[n].key
          /\ sub.content = submission[n].content /\ sub.attempt = submission[n].attempt
        <3>1. submission[n] \in Submission
            BY <1>1
        <3> QED BY <3>1 DEF Submission
    <2>2. submission' = [submission EXCEPT ![n] = sub] /\ UNCHANGED <<page, payment>>
        BY <1>7 DEF Dialog!OnError
    <2> HIDE DEF sub
    <2>3. payment' \subseteq Dialog!Key \X Content
        BY <2>2 DEF DialogInv, Dialog!TypeOK
    <2> QED BY <2>1, <2>2, <2>3, RequestAdvances
<1>8. CASE UNCHANGED Dialog!dialogVars
    <2>1. UNCHANGED <<page, submission, payment>>
        BY <1>8 DEF Dialog!dialogVars
    <2> QED BY <2>1 DEF DialogInv, Dialog!TypeOK, SentKeys, FormKnown, OneContent, OneKey
<1> QED BY <1>2, <1>3, <1>4, <1>5, <1>6, <1>7, <1>8 DEF Dialog!Next, Dialog!Sent

LEMMA AttemptPaidOnce == DialogInv => Dialog!OnePaymentPerAttempt
PROOF
<1> SUFFICES ASSUME DialogInv PROVE Dialog!OnePaymentPerAttempt
    OBVIOUS
<1> DEFINE paid(a) == {p \in payment : \E n \in Dialog!Sent :
        submission[n].attempt = a /\ <<submission[n].key, submission[n].content>> = p}
<1>1. ASSUME NEW a PROVE Dialog!Cardinality(paid(a)) <= 1
    <2>1. \A p, q \in paid(a) : p = q
        BY DEF DialogInv, OneKey, Dialog!Sent
    <2> HIDE DEF paid
    <2>2. Cardinality(paid(a)) <= 1
        BY <2>1, AtMostOneMember
    <2>3. \A S : Dialog!Cardinality(S) = Cardinality(S)
        BY DEF Dialog!Cardinality, Cardinality
    <2> QED BY <2>2, <2>3
<1> QED BY <1>1 DEF Dialog!OnePaymentPerAttempt, DialogInv, OneContent, Dialog!Sent

(* For any number of submissions: an intent that is submitted again and     *)
(* again while its form stays open is paid once, whatever is lost, late or  *)
(* answered after the form was closed, and a key has one content.           *)
THEOREM AttemptsPaidOnce ==
    /\ Dialog!Spec => []Dialog!OnePaymentPerAttempt
    /\ AdministrationSpec => []OnePaymentPerAttempt
PROOF
<1>1. DialogInv /\ [Dialog!Next]_(Dialog!dialogVars) => DialogInv'
    BY NextDialog
<1>2. DialogInv => Dialog!OnePaymentPerAttempt /\ OnePaymentPerAttempt
    BY AttemptPaidOnce DEF OnePaymentPerAttempt
<1> QED BY <1>1, <1>2, InitDialog, BehavesAsEach, PTL DEF Dialog!Spec

---------------------------------------------------------------------------
(* Backups, for any number of runs: a run deletes only what KeepCount       *)
(* finished backups are newer than, an unfinished file has an owner, and a  *)
(* restore that runs or is done has the database.                           *)

Newer(s) == {t \in finished : t > s}
Holding == {"dump", "verify", "rename", "dead"}

FinalFinished == \A s \in Backups!Second : final[s] # Nobody => s \in finished
OldOutdated == \A b \in BackupRun : \A s \in backup[b].old : Cardinality(Newer(s)) >= KeepCount
NewestKept == \A s \in finished : Cardinality(Newer(s)) < KeepCount => final[s] # Nobody
PartialOwned ==
    \A s \in Backups!Second : partial[s] =>
        \E b \in BackupRun : backup[b].second = s /\ backup[b].pc \in Holding
RestorerHasDatabase ==
    \A r \in RestoreRun : restore[r].pc \in {"restore", "done"} => database = r

BackupInv ==
    /\ Backups!TypeOK /\ FinalFinished /\ OldOutdated /\ NewestKept
    /\ PartialOwned /\ RestorerHasDatabase

BackupRow == [pc : {"idle", "open", "dump", "verify", "rename", "retain", "delete"} \cup Backups!Ended,
              second : Backups!Second, flushed : BOOLEAN, old : SUBSET Backups!Second]
RestoreRow == [pc : {"idle", "exists", "create", "restore"} \cup Backups!Ended,
               second : Backups!Second]

LEMMA BackupTypes ==
    ASSUME Backups!TypeOK
    PROVE  /\ clock \in Backups!Second /\ partial \in [Backups!Second -> BOOLEAN]
           /\ final \in [Backups!Second -> BackupRun \cup {Earlier, Nobody}]
           /\ backup \in [BackupRun -> BackupRow] /\ restore \in [RestoreRun -> RestoreRow]
           /\ database \in RestoreRun \cup {Nobody} /\ finished \subseteq Backups!Second
BY DEF Backups!TypeOK, BackupRow, RestoreRow

LEMMA BackupNumbers ==
    /\ LastSecond \in Nat \ {0} /\ KeepCount \in Nat \ {0}
    /\ Existing \subseteq 1 .. LastSecond - 1
    /\ Nobody \notin BackupRun \cup RestoreRun \cup {Earlier}
    /\ Backups!Second = 1 .. LastSecond
BY BackupsAssumed DEF Backups!BackupAssumption, Backups!Second

LEMMA SecondsAreFinite == \A S \in SUBSET Backups!Second : IsFiniteSet(S) /\ Cardinality(S) \in Nat
PROOF
<1>1. IsFiniteSet(Backups!Second)
    <2>1. 1 \in Int /\ LastSecond \in Int
        BY BackupNumbers
    <2>2. IsFiniteSet(1 .. LastSecond)
        BY <2>1, FS_Interval
    <2> QED BY <2>2, BackupNumbers
<1> QED BY <1>1, FS_Subset, FS_CardinalityType

LEMMA MaxIsGreatest ==
    ASSUME NEW S \in SUBSET Nat, S # {}, NEW bound \in Nat, \A k \in S : k <= bound
    PROVE  Backups!Max(S) \in S /\ \A k \in S : k <= Backups!Max(S)
PROOF
<1>1. PICK m \in S : \A k \in S : m >= k
    BY GreatestNumber
<1> QED BY <1>1 DEF Backups!Max

LEMMA InitBackup == Backups!Init => BackupInv
PROOF
<1> SUFFICES ASSUME Backups!Init PROVE BackupInv
    OBVIOUS
<1>1. Backups!Max(Existing \cup {0}) \in Existing \cup {0}
    <2> DEFINE S == Existing \cup {0}
    <2>1. S \in SUBSET Nat /\ S # {} /\ LastSecond \in Nat /\ \A k \in S : k <= LastSecond
        BY BackupNumbers
    <2> HIDE DEF S
    <2>2. Backups!Max(S) \in S
        BY <2>1, MaxIsGreatest
    <2> QED BY <2>2 DEF S
<1>2. /\ clock = Backups!Max(Existing \cup {0}) + 1 /\ database = Nobody /\ finished = Existing
      /\ partial = [s \in Backups!Second |-> FALSE]
      /\ final = [s \in Backups!Second |-> IF s \in Existing THEN Earlier ELSE Nobody]
      /\ backup = [b \in BackupRun |-> [pc |-> "idle", second |-> 1, flushed |-> FALSE, old |-> {}]]
      /\ restore = [r \in RestoreRun |-> [pc |-> "idle", second |-> 1]]
    BY DEF Backups!Init
<1>3. clock \in Backups!Second /\ Existing \subseteq Backups!Second /\ 1 \in Backups!Second
    <2>1. \A e \in Existing \cup {0} : e + 1 \in 1 .. LastSecond
        BY BackupNumbers
    <2>2. clock \in 1 .. LastSecond
        BY <1>1, <1>2, <2>1
    <2> QED BY <2>2, BackupNumbers
<1>4. Backups!TypeOK
    BY <1>2, <1>3 DEF Backups!TypeOK
<1>5. /\ FinalFinished /\ OldOutdated /\ PartialOwned /\ RestorerHasDatabase
    BY <1>2 DEF FinalFinished, OldOutdated, PartialOwned, RestorerHasDatabase
<1>6. NewestKept
    BY <1>2, <1>3, BackupNumbers DEF NewestKept
<1> QED BY <1>4, <1>5, <1>6 DEF BackupInv

(* A run of runBackup goes on; a file it leaves behind it still owns, and   *)
(* what it wants to delete is outdated.                                     *)
LEMMA BackupGoesOn ==
    ASSUME BackupInv, NEW b \in BackupRun, NEW run \in BackupRow,
           backup' = [backup EXCEPT ![b] = run], UNCHANGED <<clock, restore, database>>,
           partial' \in [Backups!Second -> BOOLEAN],
           final' \in [Backups!Second -> BackupRun \cup {Earlier, Nobody}],
           finished' \subseteq Backups!Second, finished \subseteq finished',
           \A s \in Backups!Second : partial'[s] /\ ~partial[s] =>
                run.second = s /\ run.pc \in Holding,
           backup[b].pc \in Holding /\ partial'[backup[b].second] =>
                run.second = backup[b].second /\ run.pc \in Holding,
           \A s \in run.old : s \in backup[b].old \/ Cardinality(Newer(s)) >= KeepCount,
           FinalFinished', NewestKept'
    PROVE  BackupInv'
PROOF
<1>1. backup \in [BackupRun -> BackupRow] /\ finished \subseteq Backups!Second
    BY BackupTypes DEF BackupInv
<1>2. /\ backup'[b] = run /\ \A c \in BackupRun : c # b => backup'[c] = backup[c]
      /\ backup' \in [BackupRun -> BackupRow]
    BY <1>1
<1>3. Backups!TypeOK'
    BY <1>2 DEF BackupInv, Backups!TypeOK, BackupRow
<1>4. \A s : Cardinality(Newer(s)) >= KeepCount => Cardinality(Newer(s)') >= KeepCount
    <2> TAKE s
    <2>1. Newer(s) \subseteq Newer(s)' /\ Newer(s)' \subseteq Backups!Second
        BY DEF Newer
    <2>2. IsFiniteSet(Newer(s)') /\ Cardinality(Newer(s)') \in Nat /\ Cardinality(Newer(s)) \in Nat
        BY <1>1, <2>1, SecondsAreFinite
    <2>3. Cardinality(Newer(s)) <= Cardinality(Newer(s)')
        BY <2>1, <2>2, FS_Subset
    <2> QED BY <2>2, <2>3, BackupNumbers
<1>5. OldOutdated'
    <2> SUFFICES ASSUME NEW c \in BackupRun, NEW s \in backup'[c].old
                 PROVE  Cardinality(Newer(s)') >= KeepCount
        BY DEF OldOutdated
    <2>1. s \in backup[c].old \/ Cardinality(Newer(s)) >= KeepCount
        BY <1>2
    <2> QED BY <1>4, <2>1 DEF BackupInv, OldOutdated
<1>6. PartialOwned'
    <2> SUFFICES ASSUME NEW s \in Backups!Second, partial'[s]
                 PROVE  \E c \in BackupRun : backup'[c].second = s /\ backup'[c].pc \in Holding
        BY DEF PartialOwned
    <2>1. CASE ~partial[s]
        BY <1>2, <2>1
    <2>2. CASE partial[s]
        <3>1. PICK c \in BackupRun : backup[c].second = s /\ backup[c].pc \in Holding
            BY <2>2 DEF BackupInv, PartialOwned
        <3> QED BY <1>2, <3>1
    <2> QED BY <2>1, <2>2
<1>7. RestorerHasDatabase'
    BY DEF BackupInv, RestorerHasDatabase
<1> QED BY <1>3, <1>5, <1>6, <1>7 DEF BackupInv

(* ... and leaves the finished backups alone.                               *)
LEMMA BackupStays ==
    ASSUME BackupInv, NEW b \in BackupRun, NEW run \in BackupRow,
           backup' = [backup EXCEPT ![b] = run],
           UNCHANGED <<clock, final, restore, database, finished>>,
           partial' \in [Backups!Second -> BOOLEAN],
           \A s \in Backups!Second : partial'[s] /\ ~partial[s] =>
                run.second = s /\ run.pc \in Holding,
           backup[b].pc \in Holding /\ partial'[backup[b].second] =>
                run.second = backup[b].second /\ run.pc \in Holding,
           \A s \in run.old : s \in backup[b].old \/ Cardinality(Newer(s)) >= KeepCount
    PROVE  BackupInv'
PROOF
<1>1. FinalFinished'
    BY DEF BackupInv, FinalFinished
<1>2. NewestKept'
    BY DEF BackupInv, NewestKept, Newer
<1> QED BY <1>1, <1>2, BackupTypes, BackupGoesOn DEF BackupInv

LEMMA RenameInv ==
    ASSUME BackupInv, NEW b \in BackupRun, Backups!RenamePartial(b)
    PROVE  BackupInv'
PROOF
<1> DEFINE s == backup[b].second
           run == [backup[b] EXCEPT !.pc = "retain"]
<1>1. /\ backup[b] \in BackupRow /\ finished \subseteq Backups!Second /\ s \in Backups!Second
      /\ partial \in [Backups!Second -> BOOLEAN]
      /\ final \in [Backups!Second -> BackupRun \cup {Earlier, Nobody}]
    BY BackupTypes DEF BackupInv, BackupRow
<1>2. /\ run \in BackupRow /\ run.old = backup[b].old /\ backup' = [backup EXCEPT ![b] = run]
    BY <1>1 DEF BackupRow, Backups!RenamePartial, Backups!Continue
<1>3. /\ partial' = [partial EXCEPT ![s] = FALSE] /\ final' = [final EXCEPT ![s] = b]
      /\ finished' = finished \cup {s} /\ UNCHANGED <<clock, restore, database>>
    BY DEF Backups!RenamePartial, Backups!Own
<1> HIDE DEF run
<1>4. /\ partial' \in [Backups!Second -> BOOLEAN] /\ ~partial'[s]
      /\ \A t \in Backups!Second : partial'[t] => partial[t]
      /\ final' \in [Backups!Second -> BackupRun \cup {Earlier, Nobody}] /\ final'[s] # Nobody
      /\ \A t \in Backups!Second : t # s => final'[t] = final[t]
    BY <1>1, <1>3, BackupNumbers
<1> HIDE DEF s
<1>5. FinalFinished'
    BY <1>3, <1>4 DEF BackupInv, FinalFinished
<1>6. NewestKept'
    <2> SUFFICES ASSUME NEW t \in finished \cup {s}, Cardinality(Newer(t)') < KeepCount, t # s
                 PROVE  final'[t] # Nobody
        BY <1>3, <1>4 DEF NewestKept
    <2>1. Newer(t) \subseteq Newer(t)' /\ Newer(t)' \subseteq Backups!Second
        BY <1>1, <1>3 DEF Newer
    <2>2. IsFiniteSet(Newer(t)') /\ Cardinality(Newer(t)') \in Nat /\ Cardinality(Newer(t)) \in Nat
        BY <2>1, SecondsAreFinite
    <2>3. Cardinality(Newer(t)) <= Cardinality(Newer(t)')
        BY <2>1, <2>2, FS_Subset
    <2>4. Cardinality(Newer(t)) < KeepCount
        BY <2>2, <2>3, BackupNumbers
    <2> QED BY <1>1, <1>4, <2>4 DEF BackupInv, NewestKept
<1>7. finished' \subseteq Backups!Second /\ finished \subseteq finished'
    BY <1>1, <1>3
<1>8. backup[b].second = s
    BY DEF s
<1> QED BY <1>2, <1>3, <1>4, <1>5, <1>6, <1>7, <1>8, BackupGoesOn

LEMMA DeleteInv ==
    ASSUME BackupInv, NEW b \in BackupRun, Backups!DeleteOld(b)
    PROVE  BackupInv'
PROOF
<1> DEFINE old == backup[b].old
           s == Backups!Max(old)
           run == [backup[b] EXCEPT !.old = old \ {s}]
<1>1. /\ backup[b] \in BackupRow /\ finished \subseteq Backups!Second /\ old \subseteq Backups!Second
      /\ partial \in [Backups!Second -> BOOLEAN]
      /\ final \in [Backups!Second -> BackupRun \cup {Earlier, Nobody}]
    BY BackupTypes DEF BackupInv, BackupRow
<1>2. s \in old
    <2>1. old \in SUBSET Nat /\ LastSecond \in Nat /\ \A k \in old : k <= LastSecond
        BY <1>1, BackupNumbers
    <2>2. old # {}
        BY DEF Backups!DeleteOld
    <2> HIDE DEF old
    <2> QED BY <2>1, <2>2, MaxIsGreatest
<1>3. /\ backup[b].pc = "delete" /\ final' = [final EXCEPT ![s] = Nobody]
      /\ backup' = [backup EXCEPT ![b].old = old \ {s}]
      /\ UNCHANGED <<clock, partial, restore, database, finished>>
    BY DEF Backups!DeleteOld
<1> HIDE DEF s
<1>4. /\ run \in BackupRow /\ run.old \subseteq old /\ run.pc = "delete"
      /\ backup' = [backup EXCEPT ![b] = run]
    BY <1>1, <1>3 DEF BackupRow
<1> HIDE DEF run
<1>5. /\ final' \in [Backups!Second -> BackupRun \cup {Earlier, Nobody}] /\ final'[s] = Nobody
      /\ \A t \in Backups!Second : t # s => final'[t] = final[t]
    BY <1>1, <1>2, <1>3
<1>6. FinalFinished'
    BY <1>3, <1>5 DEF BackupInv, FinalFinished
<1>7. NewestKept'
    <2>1. Cardinality(Newer(s)) >= KeepCount /\ Cardinality(Newer(s)) \in Nat
        <3>1. Newer(s) \subseteq Backups!Second
            BY <1>1 DEF Newer
        <3> QED BY <1>2, <3>1, SecondsAreFinite DEF BackupInv, OldOutdated
    <2>2. \A t \in finished : Cardinality(Newer(t)) < KeepCount => t # s
        BY <2>1, BackupNumbers
    <2>3. \A t : Newer(t)' = Newer(t)
        BY <1>3 DEF Newer
    <2> QED BY <1>1, <1>3, <1>5, <2>2, <2>3 DEF BackupInv, NewestKept
<1>8. backup[b].pc \notin Holding
    BY <1>3 DEF Holding
<1>9. /\ UNCHANGED <<clock, restore, database>> /\ partial' \in [Backups!Second -> BOOLEAN]
      /\ finished' \subseteq Backups!Second /\ finished \subseteq finished'
      /\ \A t \in Backups!Second : ~(partial'[t] /\ ~partial[t])
      /\ \A t \in run.old : t \in backup[b].old
    BY <1>1, <1>3, <1>4
<1> HIDE DEF old
<1> QED BY <1>4, <1>5, <1>6, <1>7, <1>8, <1>9, BackupGoesOn

LEMMA ReadDirectoryInv ==
    ASSUME BackupInv, NEW b \in BackupRun, Backups!ReadDirectory(b)
    PROVE  BackupInv'
PROOF
<1> DEFINE old == Backups!Candidates \ Backups!Newest(Backups!Candidates)
           run == [backup[b] EXCEPT !.pc = "delete", !.old = old]
<1>1. backup[b] \in BackupRow /\ partial \in [Backups!Second -> BOOLEAN]
      /\ finished \subseteq Backups!Second
    BY BackupTypes DEF BackupInv
<1>2. old \subseteq Backups!Second /\ Backups!Candidates \subseteq finished
    BY DEF Backups!Candidates, BackupInv, FinalFinished
<1>3. ASSUME NEW s \in old PROVE Cardinality(Newer(s)) >= KeepCount
    <2> DEFINE among == {t \in Backups!Candidates : t > s}
    <2>1. ~(Backups!Cardinality(among) < KeepCount)
        BY DEF Backups!Newest
    <2>2. Backups!Cardinality(among) = Cardinality(among)
        BY DEF Backups!Cardinality, Cardinality
    <2>3. among \subseteq Newer(s) /\ Newer(s) \subseteq Backups!Second
        BY <1>1, <1>2 DEF Newer
    <2> HIDE DEF among
    <2>4. /\ IsFiniteSet(Newer(s)) /\ Cardinality(Newer(s)) \in Nat /\ Cardinality(among) \in Nat
        BY <2>3, SecondsAreFinite
    <2>5. Cardinality(among) <= Cardinality(Newer(s))
        BY <2>3, <2>4, FS_Subset
    <2> QED BY <2>1, <2>2, <2>4, <2>5, BackupNumbers
<1>4. /\ backup[b].pc = "retain" /\ backup' = [backup EXCEPT ![b] = run]
      /\ UNCHANGED <<clock, partial, final, restore, database, finished>>
    BY DEF Backups!ReadDirectory
<1> HIDE DEF old
<1>5. run \in BackupRow /\ run.old = old
    BY <1>1, <1>2 DEF BackupRow
<1> HIDE DEF run
<1>6. backup[b].pc \notin Holding
    BY <1>4 DEF Holding
<1> QED BY <1>1, <1>3, <1>4, <1>5, <1>6, BackupStays

(* A step of a run that only moves it on, or takes its file away.           *)
LEMMA RunContinues ==
    ASSUME BackupInv, NEW b \in BackupRun,
           NEW step \in {"open", "dump", "verify", "rename", "delete"} \cup Backups!Ended,
           backup' = [backup EXCEPT ![b].pc = step],
           UNCHANGED <<clock, final, restore, database, finished>>,
           \/ UNCHANGED partial /\ (backup[b].pc \in Holding => step \in Holding)
           \/ partial' = [partial EXCEPT ![backup[b].second] = FALSE]
           \/ partial' = [partial EXCEPT ![backup[b].second] = TRUE] /\ step \in Holding
    PROVE  BackupInv'
PROOF
<1> DEFINE run == [backup[b] EXCEPT !.pc = step]
<1>1. backup[b] \in BackupRow /\ partial \in [Backups!Second -> BOOLEAN]
      /\ backup[b].second \in Backups!Second
    BY BackupTypes DEF BackupInv, BackupRow
<1>2. /\ run \in BackupRow /\ run.pc = step /\ run.old = backup[b].old
      /\ run.second = backup[b].second
    BY <1>1 DEF BackupRow
<1>3. backup' = [backup EXCEPT ![b] = run]
    OBVIOUS
<1> HIDE DEF run
<1>4. /\ partial' \in [Backups!Second -> BOOLEAN]
      /\ \A s \in Backups!Second : partial'[s] /\ ~partial[s] => run.second = s /\ run.pc \in Holding
      /\ backup[b].pc \in Holding /\ partial'[backup[b].second] =>
            run.second = backup[b].second /\ run.pc \in Holding
    BY <1>1, <1>2
<1> QED BY <1>2, <1>3, <1>4, BackupStays

LEMMA BackupStepInv ==
    ASSUME BackupInv, NEW b \in BackupRun, Backups!BackupStep(b)
    PROVE  BackupInv'
PROOF
<1>1. /\ backup[b] \in BackupRow /\ partial \in [Backups!Second -> BOOLEAN]
      /\ clock \in Backups!Second
    BY BackupTypes DEF BackupInv
<1>2. CASE Backups!StartBackup(b)
    <2> DEFINE step == IF final[clock] = Nobody THEN "open" ELSE "failed"
               run == [backup[b] EXCEPT !.second = clock, !.pc = step]
    <2>1. /\ backup[b].pc = "idle" /\ backup' = [backup EXCEPT ![b] = run]
          /\ UNCHANGED <<clock, partial, final, restore, database, finished>>
        BY <1>2 DEF Backups!StartBackup
    <2>2. step \in {"open", "failed"}
        OBVIOUS
    <2> HIDE DEF step
    <2>3. run \in BackupRow /\ run.old = backup[b].old
        BY <1>1, <2>2 DEF BackupRow, Backups!Ended
    <2> HIDE DEF run
    <2>4. backup[b].pc \notin Holding
        BY <2>1 DEF Holding
    <2> QED BY <1>1, <2>1, <2>3, <2>4, BackupStays
<1>3. CASE Backups!OpenPartial(b)
    BY <1>1, <1>3, RunContinues DEF Backups!OpenPartial, Backups!Continue, Backups!Own, Holding, Backups!Ended
<1>4. CASE Backups!DumpExits(b)
    BY <1>4, RunContinues DEF Backups!DumpExits, Backups!Continue, Holding
<1>5. CASE Backups!Flush(b)
    <2> DEFINE run == [backup[b] EXCEPT !.flushed = TRUE]
    <2>1. /\ run \in BackupRow /\ run.old = backup[b].old /\ run.pc = backup[b].pc
          /\ run.second = backup[b].second
        BY <1>1 DEF BackupRow
    <2>2. /\ backup' = [backup EXCEPT ![b] = run]
          /\ UNCHANGED <<clock, partial, final, restore, database, finished>>
        BY <1>5 DEF Backups!Flush
    <2> HIDE DEF run
    <2> QED BY <1>1, <2>1, <2>2, BackupStays
<1>6. CASE Backups!Verified(b)
    BY <1>6, RunContinues DEF Backups!Verified, Backups!Continue, Holding
<1>7. CASE Backups!Discard(b)
    BY <1>7, RunContinues DEF Backups!Discard, Backups!Continue, Backups!Own, Backups!Ended
<1>8. CASE Backups!RenamePartial(b)
    BY <1>8, RenameInv
<1>9. CASE Backups!ReadDirectory(b)
    BY <1>9, ReadDirectoryInv
<1>10. CASE Backups!DeleteOld(b)
    BY <1>10, DeleteInv
<1>11. CASE Backups!FinishBackup(b)
    BY <1>11, RunContinues DEF Backups!FinishBackup, Backups!Continue, Holding, Backups!Ended
<1>12. CASE Backups!BackupDies(b)
    BY <1>12, RunContinues DEF Backups!BackupDies, Backups!Continue, Holding, Backups!Ended
<1> QED BY <1>2, <1>3, <1>4, <1>5, <1>6, <1>7, <1>8, <1>9, <1>10, <1>11, <1>12
        DEF Backups!BackupStep

(* A restore goes on; it runs only once it has created the database.        *)
LEMMA RestoreGoesOn ==
    ASSUME BackupInv, NEW r \in RestoreRun, NEW entry \in RestoreRow,
           restore' = [restore EXCEPT ![r] = entry],
           UNCHANGED <<clock, partial, final, backup, finished>>,
           database' \in RestoreRun \cup {Nobody},
           \A q \in RestoreRun : q # r /\ database = q => database' = q,
           entry.pc \in {"restore", "done"} => database' = r
    PROVE  BackupInv'
PROOF
<1>1. restore \in [RestoreRun -> RestoreRow]
    BY BackupTypes DEF BackupInv
<1>2. /\ restore'[r] = entry /\ \A q \in RestoreRun : q # r => restore'[q] = restore[q]
      /\ restore' \in [RestoreRun -> RestoreRow]
    BY <1>1
<1>3. Backups!TypeOK'
    BY <1>2 DEF BackupInv, Backups!TypeOK, RestoreRow
<1>4. RestorerHasDatabase'
    BY <1>2 DEF BackupInv, RestorerHasDatabase
<1> QED BY <1>3, <1>4
        DEF BackupInv, FinalFinished, OldOutdated, NewestKept, PartialOwned, Newer

LEMMA RestoreStepInv ==
    ASSUME BackupInv, NEW r \in RestoreRun, Backups!RestoreStep(r)
    PROVE  BackupInv'
PROOF
<1>1. restore[r] \in RestoreRow /\ database \in RestoreRun \cup {Nobody} /\ Nobody \notin RestoreRun
    BY BackupTypes, BackupNumbers DEF BackupInv
<1>2. ASSUME NEW step \in {"create", "restore"} \cup Backups!Ended,
             restore' = [restore EXCEPT ![r].pc = step],
             UNCHANGED <<clock, partial, final, backup, finished>>,
             database' \in RestoreRun \cup {Nobody},
             \A q \in RestoreRun : q # r /\ database = q => database' = q,
             step \in {"restore", "done"} => database' = r
      PROVE  BackupInv'
    <2> DEFINE entry == [restore[r] EXCEPT !.pc = step]
    <2>1. entry \in RestoreRow /\ entry.pc = step
        BY <1>1 DEF RestoreRow
    <2>2. restore' = [restore EXCEPT ![r] = entry]
        BY <1>2
    <2> HIDE DEF entry
    <2> QED BY <1>2, <2>1, <2>2, RestoreGoesOn
<1>3. CASE Backups!TargetExists(r)
    <2>1. PICK step \in {"create", "failed"} : restore' = [restore EXCEPT ![r].pc = step]
        BY <1>3 DEF Backups!TargetExists, Backups!Advance
    <2> QED BY <1>1, <1>2, <1>3, <2>1 DEF Backups!TargetExists, Backups!Ended
<1>4. CASE Backups!CreateDatabase(r)
    BY <1>1, <1>2, <1>4 DEF Backups!CreateDatabase, Backups!Advance, Backups!Ended
<1>5. CASE Backups!Restored(r)
    <2>1. database = r
        BY <1>5 DEF Backups!Restored, BackupInv, RestorerHasDatabase
    <2> QED BY <1>1, <1>2, <1>5, <2>1 DEF Backups!Restored, Backups!Advance, Backups!Ended
<1>6. CASE Backups!RestoreFails(r)
    <2>1. database = r
        BY <1>6 DEF Backups!RestoreFails, BackupInv, RestorerHasDatabase
    <2> QED BY <1>1, <1>2, <1>6, <2>1 DEF Backups!RestoreFails, Backups!Advance, Backups!Ended
<1>7. CASE Backups!RestoreDies(r)
    BY <1>1, <1>2, <1>7 DEF Backups!RestoreDies, Backups!Advance, Backups!Ended
<1> QED BY <1>3, <1>4, <1>5, <1>6, <1>7 DEF Backups!RestoreStep

LEMMA NextBackup == ASSUME BackupInv, [Backups!Next]_(Backups!backupVars) PROVE BackupInv'
PROOF
<1>1. CASE Backups!Tick
    <2>1. clock' \in Backups!Second
        BY <1>1, BackupTypes, BackupNumbers DEF BackupInv, Backups!Tick
    <2>2. UNCHANGED <<partial, final, backup, restore, database, finished>>
        BY <1>1 DEF Backups!Tick
    <2> QED BY <2>1, <2>2 DEF BackupInv, Backups!TypeOK, FinalFinished, OldOutdated, NewestKept,
            PartialOwned, RestorerHasDatabase, Newer
<1>2. ASSUME NEW b \in BackupRun, Backups!BackupStep(b) PROVE BackupInv'
    BY <1>2, BackupStepInv
<1>3. ASSUME NEW r \in RestoreRun, NEW s \in Backups!Second, Backups!StartRestore(r, s)
      PROVE  BackupInv'
    <2> DEFINE entry == [pc |-> "exists", second |-> s]
    <2>1. entry \in RestoreRow /\ entry.pc = "exists"
        BY DEF RestoreRow
    <2>2. /\ restore' = [restore EXCEPT ![r] = entry]
          /\ UNCHANGED <<clock, partial, final, backup, database, finished>>
        BY <1>3 DEF Backups!StartRestore
    <2>3. database \in RestoreRun \cup {Nobody}
        BY BackupTypes DEF BackupInv
    <2> HIDE DEF entry
    <2> QED BY <2>1, <2>2, <2>3, RestoreGoesOn
<1>4. ASSUME NEW r \in RestoreRun, Backups!RestoreStep(r) PROVE BackupInv'
    BY <1>4, RestoreStepInv
<1>5. CASE UNCHANGED Backups!backupVars
    <2>1. UNCHANGED <<clock, partial, final, backup, restore, database, finished>>
        BY <1>5 DEF Backups!backupVars
    <2> QED BY <2>1 DEF BackupInv, Backups!TypeOK, FinalFinished, OldOutdated, NewestKept,
            PartialOwned, RestorerHasDatabase, Newer
<1> QED BY <1>1, <1>2, <1>3, <1>4, <1>5 DEF Backups!Next

LEMMA NewestBackups == BackupInv => Backups!BackupsKept
PROOF
<1> SUFFICES ASSUME BackupInv PROVE Backups!BackupsKept
    OBVIOUS
<1>1. \A S : Backups!Cardinality(S) = Cardinality(S)
    BY DEF Backups!Cardinality, Cardinality
<1>2. \A s \in Backups!Newest(finished) : final[s] # Nobody
    BY <1>1 DEF Backups!Newest, BackupInv, NewestKept, Newer
<1> QED BY <1>2 DEF Backups!BackupsKept, Backups!Own, BackupInv, PartialOwned,
        RestorerHasDatabase, Holding

(* However many runs and restores overlap, fail or die, and whatever        *)
(* KeepCount is: the newest backups are kept, an unfinished file belongs to *)
(* a run, and no restore drops what another has restored.                   *)
THEOREM NewestBackupsKept ==
    /\ Backups!Spec => []Backups!BackupsKept
    /\ AdministrationSpec => []BackupsKept
PROOF
<1>1. BackupInv /\ [Backups!Next]_(Backups!backupVars) => BackupInv'
    BY NextBackup
<1>2. BackupInv => Backups!BackupsKept /\ BackupsKept
    BY NewestBackups DEF BackupsKept
<1> QED BY <1>1, <1>2, InitBackup, BehavesAsEach, PTL DEF Backups!Spec

---------------------------------------------------------------------------
(* Roles and tokens: while a change has still to raise the version of a     *)
(* user, it threatens the tokens that carry the current one.                *)

(* Change a is going to raise the version of user u. *)
Raises(a, u) ==
    \/ admin[a].pc = "holders" /\ admin[a].role \in Grants!RolesOf(u)
    \/ admin[a].pc = "bump" /\ u \in admin[a].bumps

Threatened(u) == \E a \in Admin : Raises(a, u)

(* Login l holds what its user does not have (any more). *)
Outdated(l) ==
    \/ token[l].pc = "roles" /\ ~(token[l].roles \subseteq Grants!RolesOf(token[l].user))
    \/ token[l].pc \in {"codes", "issued"} /\ ~(token[l].codes \subseteq Grants!Granted(token[l].user))

Current(l) == token[l].pc # "idle" /\ token[l].version = version[token[l].user]

Carried == \A a \in Admin : admin[a].pc # "dead"

(* A replacement deletes rows of its own role. *)
SeenInv ==
    \A a \in Admin : admin[a].pc = "replace" => \A entry \in admin[a].seen : entry[1] = admin[a].role

VersionInv ==
    \A l \in Login : token[l].pc # "idle" => token[l].version <= version[token[l].user]

TokenInv ==
    Carried => \A l \in Login : Current(l) /\ Outdated(l) => Threatened(token[l].user)

GrantsInv == Grants!TypeOK /\ SeenInv /\ VersionInv /\ TokenInv
---------------------------------------------------------------------------
LEMMA InitGrants == ASSUME Grants!AccessAssumption PROVE Grants!Init => GrantsInv
<1> SUFFICES ASSUME Grants!Init PROVE GrantsInv
  OBVIOUS
<1> USE DEF Grants!AccessAssumption, Grants!Init
<1>1. (CHOOSE role \in Role : TRUE) \in Role
  OBVIOUS
<1>2. Grants!TypeOK
  BY <1>1 DEF Grants!TypeOK, Grants!AdminCall, Grants!Token, Grants!Operation
<1>3. SeenInv /\ VersionInv /\ TokenInv
  BY DEF SeenInv, VersionInv, TokenInv, Current, Outdated
<1> QED
  BY <1>2, <1>3 DEF GrantsInv

(* A step of one call of RbacService writes its own memory.                 *)
LEMMA SetAdmin ==
    ASSUME Grants!TypeOK, NEW a \in Admin, NEW c \in Grants!AdminCall, admin' = [admin EXCEPT ![a] = c]
    PROVE  /\ admin' \in [Admin -> Grants!AdminCall]
           /\ admin'[a] = c
           /\ \A b \in Admin \ {a} : admin'[b] = admin[b]
BY DEF Grants!TypeOK

(* What a new call of RbacService holds. *)
LEMMA StartAdminFacts ==
    ASSUME Grants!TypeOK, NEW a \in Admin, NEW op \in Grants!Operation, NEW user \in User, NEW role \in Role,
           NEW codes \in SUBSET Permission, Grants!StartAdmin(a, op, user, role, codes)
    PROVE  /\ admin' \in [Admin -> Grants!AdminCall]
           /\ admin[a].pc = "idle" /\ admin'[a].pc \in {"write", "check"}
           /\ \A b \in Admin \ {a} : admin'[b] = admin[b]
           /\ UNCHANGED <<rolePermission, userRole, version, token>>
<1> DEFINE c == [admin[a] EXCEPT !.pc = IF op = "assign role" THEN "write" ELSE "check",
                                 !.op = op, !.user = user, !.role = role, !.codes = codes]
<1>1. c \in Grants!AdminCall /\ c.pc \in {"write", "check"}
  BY ZenonT(40) DEF Grants!TypeOK, Grants!AdminCall
<1>2. admin' = [admin EXCEPT ![a] = c]
  BY DEF Grants!StartAdmin
<1> HIDE DEF c
<1>3. /\ admin' \in [Admin -> Grants!AdminCall] /\ admin'[a] = c
      /\ \A b \in Admin \ {a} : admin'[b] = admin[b]
  BY <1>1, <1>2, SetAdmin
<1> QED
  BY <1>1, <1>3 DEF Grants!StartAdmin

LEMMA SetAdminPc ==
    ASSUME Grants!TypeOK, NEW a \in Admin, admin' = [admin EXCEPT ![a].pc = admin'[a].pc],
           admin'[a].pc \in {"refused", "write", "holders", "done", "dead"}
    PROVE  /\ admin' \in [Admin -> Grants!AdminCall]
           /\ admin'[a].role = admin[a].role /\ admin'[a].seen = admin[a].seen
           /\ \A b \in Admin \ {a} : admin'[b] = admin[b]
<1> DEFINE step == admin'[a].pc
           c == [admin[a] EXCEPT !.pc = step]
<1> HIDE DEF step
<1>1. admin[a] \in Grants!AdminCall
  BY DEF Grants!TypeOK
<1>2. step \in {"refused", "write", "holders", "done", "dead"}
  BY DEF step
<1>3. c \in Grants!AdminCall /\ c.role = admin[a].role /\ c.seen = admin[a].seen
  BY <1>1, <1>2 DEF Grants!AdminCall
<1>4. admin' = [admin EXCEPT ![a] = c]
  BY DEF step
<1> HIDE DEF c
<1> QED
  BY <1>3, <1>4, SetAdmin

LEMMA SetBumps ==
    ASSUME Grants!TypeOK, NEW a \in Admin, NEW users \in SUBSET User,
           admin' = [admin EXCEPT ![a] = [admin[a] EXCEPT !.pc = "bump", !.bumps = users]]
    PROVE  /\ admin' \in [Admin -> Grants!AdminCall]
           /\ admin'[a].pc = "bump" /\ admin'[a].bumps = users
           /\ \A b \in Admin \ {a} : admin'[b] = admin[b]
<1> DEFINE c == [admin[a] EXCEPT !.pc = "bump", !.bumps = users]
<1>1. admin[a] \in Grants!AdminCall
  BY DEF Grants!TypeOK
<1>2. c \in Grants!AdminCall /\ c.pc = "bump" /\ c.bumps = users
  BY <1>1 DEF Grants!AdminCall
<1> HIDE DEF c
<1>3. admin' = [admin EXCEPT ![a] = c]
  BY DEF c
<1> QED
  BY <1>2, <1>3, SetAdmin

(* What each of the later steps writes there. *)
LEMMA CheckOwnerFacts ==
    ASSUME Grants!TypeOK, NEW a \in Admin, Grants!CheckOwner(a)
    PROVE  /\ admin' \in [Admin -> Grants!AdminCall]
           /\ admin[a].pc = "check" /\ admin'[a].pc \in {"write", "refused"}
           /\ \A b \in Admin \ {a} : admin'[b] = admin[b]
           /\ UNCHANGED <<rolePermission, userRole, version, token>>
<1>1. /\ admin' = [admin EXCEPT ![a].pc = admin'[a].pc]
      /\ admin'[a].pc \in {"write", "refused"}
  BY DEF Grants!TypeOK, Grants!AdminCall, Grants!CheckOwner, Grants!Continue
<1> QED
  BY <1>1, SetAdminPc DEF Grants!CheckOwner

LEMMA BeginReplaceFacts ==
    ASSUME Grants!TypeOK, NEW a \in Admin, Grants!BeginReplace(a)
    PROVE  /\ admin' \in [Admin -> Grants!AdminCall]
           /\ admin[a].pc = "write" /\ admin'[a].pc = "replace" /\ admin'[a].role = admin[a].role
           /\ admin'[a].seen = {entry \in rolePermission : entry[1] = admin[a].role}
           /\ \A b \in Admin \ {a} : admin'[b] = admin[b]
           /\ UNCHANGED <<rolePermission, userRole, version, token>>
<1> DEFINE rows == {entry \in rolePermission : entry[1] = admin[a].role}
           c == [admin[a] EXCEPT !.pc = "replace", !.seen = rows]
<1>1. rows \in SUBSET (Role \X Permission \X (Admin \cup {Seed}))
  BY DEF Grants!TypeOK
<1>2. admin[a] \in Grants!AdminCall
  BY DEF Grants!TypeOK
<1> HIDE DEF rows
<1>3. c \in Grants!AdminCall /\ c.role = admin[a].role /\ c.seen = rows /\ c.pc = "replace"
  BY <1>1, <1>2 DEF Grants!AdminCall
<1>4. admin' = [admin EXCEPT ![a] = c]
  BY DEF Grants!BeginReplace, rows
<1> HIDE DEF c
<1> QED
  BY <1>3, <1>4, SetAdmin DEF Grants!BeginReplace, Grants!Doing, rows

LEMMA ReplaceFacts ==
    ASSUME Grants!TypeOK, NEW a \in Admin, Grants!Replace(a)
    PROVE  /\ admin' \in [Admin -> Grants!AdminCall]
           /\ admin[a].pc = "replace" /\ admin'[a].pc = "holders" /\ admin'[a].role = admin[a].role
           /\ \A b \in Admin \ {a} : admin'[b] = admin[b]
           /\ UNCHANGED <<userRole, version, token>>
<1>1. admin' = [admin EXCEPT ![a].pc = admin'[a].pc] /\ admin'[a].pc = "holders"
  BY DEF Grants!TypeOK, Grants!AdminCall, Grants!Replace, Grants!Continue
<1> QED
  BY <1>1, SetAdminPc DEF Grants!Replace, Grants!Doing

LEMMA FindHoldersFacts ==
    ASSUME Grants!TypeOK, NEW a \in Admin, Grants!FindHolders(a)
    PROVE  /\ admin' \in [Admin -> Grants!AdminCall]
           /\ admin[a].pc = "holders" /\ admin'[a].pc = "bump"
           /\ admin'[a].bumps = {u \in User : admin[a].role \in Grants!RolesOf(u)}
           /\ \A b \in Admin \ {a} : admin'[b] = admin[b]
           /\ UNCHANGED <<rolePermission, userRole, version, token>>
<1> DEFINE users == {u \in User : admin[a].role \in Grants!RolesOf(u)}
<1>1. users \in SUBSET User
  OBVIOUS
<1>2. admin' = [admin EXCEPT ![a] = [admin[a] EXCEPT !.pc = "bump", !.bumps = users]]
  BY DEF Grants!FindHolders
<1> HIDE DEF users
<1>3. /\ admin' \in [Admin -> Grants!AdminCall] /\ admin'[a].pc = "bump" /\ admin'[a].bumps = users
      /\ \A b \in Admin \ {a} : admin'[b] = admin[b]
  BY <1>1, <1>2, SetBumps
<1> QED
  BY <1>3 DEF Grants!FindHolders, users

LEMMA MembershipFacts ==
    ASSUME Grants!TypeOK, NEW a \in Admin, Grants!AssignRole(a) \/ Grants!RemoveRole(a)
    PROVE  /\ admin' \in [Admin -> Grants!AdminCall]
           /\ admin[a].pc = "write" /\ admin[a].user \in User /\ admin[a].role \in Role
           /\ admin'[a].pc = "bump" /\ admin'[a].bumps = {admin[a].user}
           /\ \A b \in Admin \ {a} : admin'[b] = admin[b]
           /\ UNCHANGED <<rolePermission, version, token>>
<1> DEFINE users == {admin[a].user}
<1>1. users \in SUBSET User /\ admin[a].user \in User /\ admin[a].role \in Role
  BY DEF Grants!TypeOK, Grants!AdminCall
<1>2. admin' = [admin EXCEPT ![a] = [admin[a] EXCEPT !.pc = "bump", !.bumps = users]]
  BY DEF Grants!AssignRole, Grants!RemoveRole
<1> HIDE DEF users
<1>3. /\ admin' \in [Admin -> Grants!AdminCall] /\ admin'[a].pc = "bump" /\ admin'[a].bumps = users
      /\ \A b \in Admin \ {a} : admin'[b] = admin[b]
  BY <1>1, <1>2, SetBumps
<1> QED
  BY <1>1, <1>3 DEF Grants!AssignRole, Grants!RemoveRole, Grants!Doing, users

LEMMA IncrementVersionFacts ==
    ASSUME Grants!TypeOK, NEW a \in Admin, Grants!IncrementVersion(a)
    PROVE  /\ admin' \in [Admin -> Grants!AdminCall]
           /\ admin[a].pc = "bump" /\ admin'[a].pc = "done"
           /\ \A b \in Admin \ {a} : admin'[b] = admin[b]
           /\ version' \in [User -> Nat]
           /\ \A u \in User : version'[u] = IF u \in admin[a].bumps THEN version[u] + 1 ELSE version[u]
           /\ UNCHANGED <<rolePermission, userRole, token>>
<1>1. admin' = [admin EXCEPT ![a].pc = admin'[a].pc] /\ admin'[a].pc = "done"
  BY DEF Grants!TypeOK, Grants!AdminCall, Grants!IncrementVersion, Grants!Continue
<1>2. \A u \in User : version[u] \in Nat
  BY DEF Grants!TypeOK
<1>3. /\ version' \in [User -> Nat]
      /\ \A u \in User : version'[u] = IF u \in admin[a].bumps THEN version[u] + 1 ELSE version[u]
  BY <1>2 DEF Grants!IncrementVersion
<1> QED
  BY <1>1, <1>3, SetAdminPc DEF Grants!IncrementVersion

LEMMA DieFacts ==
    ASSUME Grants!TypeOK, NEW a \in Admin, Grants!Die(a)
    PROVE  /\ admin' \in [Admin -> Grants!AdminCall]
           /\ admin[a].pc # "dead"
           /\ admin'[a].pc = IF admin[a].pc \in {"holders", "bump"} THEN "dead" ELSE "refused"
           /\ \A b \in Admin \ {a} : admin'[b] = admin[b]
           /\ UNCHANGED <<rolePermission, userRole, version, token>>
<1>1. /\ admin' = [admin EXCEPT ![a].pc = admin'[a].pc]
      /\ admin'[a].pc = IF admin[a].pc \in {"holders", "bump"} THEN "dead" ELSE "refused"
  BY DEF Grants!TypeOK, Grants!AdminCall, Grants!Die
<1> QED
  BY <1>1, SetAdminPc DEF Grants!Die

(* A login writes its own token. *)
LEMMA LoginFacts ==
    ASSUME Grants!TypeOK, NEW l \in Login, Grants!LoginStep(l) \/ \E user \in User : Grants!FindUser(l, user)
    PROVE  /\ token' \in [Login -> Grants!Token]
           /\ \A m \in Login \ {l} : token'[m] = token[m]
           /\ \/ \E user \in User : /\ token'[l].pc = "user" /\ token'[l].user = user
                                    /\ token'[l].version = version[user]
              \/ /\ token[l].pc # "idle" /\ token'[l].pc # "idle"
                 /\ token'[l].user = token[l].user /\ token'[l].version = token[l].version
                 /\ \/ token'[l].pc = "roles" /\ token'[l].roles = Grants!RolesOf(token[l].user)
                    \/ /\ token[l].pc = "roles" /\ token'[l].pc = "codes"
                       /\ token'[l].codes = Grants!CodesOfAll(token[l].roles)
                    \/ /\ token[l].pc = "codes" /\ token'[l].pc = "issued"
                       /\ token'[l].codes = token[l].codes
           /\ UNCHANGED <<rolePermission, userRole, version, admin>>
<1>1. token[l] \in Grants!Token /\ token \in [Login -> Grants!Token]
  BY DEF Grants!TypeOK
<1>2. \A user \in User : version[user] \in Nat
  BY DEF Grants!TypeOK
<1>3. ASSUME NEW user \in User, Grants!FindUser(l, user)
      PROVE  /\ token' \in [Login -> Grants!Token]
             /\ token'[l].pc = "user" /\ token'[l].user = user /\ token'[l].version = version[user]
  <2> DEFINE c == [token[l] EXCEPT !.pc = "user", !.user = user, !.version = version[user]]
  <2>1. c \in Grants!Token /\ c.pc = "user" /\ c.user = user /\ c.version = version[user]
    BY <1>1, <1>2 DEF Grants!Token
  <2>2. token' = [token EXCEPT ![l] = c]
    BY <1>3 DEF Grants!FindUser
  <2> HIDE DEF c
  <2> QED
    BY <1>1, <2>1, <2>2
<1>4. CASE Grants!ReadRoles(l)
  <2> DEFINE c == [token[l] EXCEPT !.pc = "roles", !.roles = Grants!RolesOf(token[l].user)]
  <2>1. Grants!RolesOf(token[l].user) \in SUBSET Role
    BY DEF Grants!RolesOf
  <2>2. /\ c \in Grants!Token /\ c.pc = "roles" /\ c.roles = Grants!RolesOf(token[l].user)
        /\ c.user = token[l].user /\ c.version = token[l].version
    BY <1>1, <2>1 DEF Grants!Token
  <2>3. token' = [token EXCEPT ![l] = c] /\ token[l].pc = "user"
    BY <1>4 DEF Grants!ReadRoles
  <2> HIDE DEF c
  <2> QED
    BY <1>1, <1>4, <2>2, <2>3 DEF Grants!ReadRoles
<1>5. CASE Grants!ReadCodes(l)
  <2> DEFINE c == [token[l] EXCEPT !.pc = "codes", !.codes = Grants!CodesOfAll(token[l].roles)]
  <2>1. Grants!CodesOfAll(token[l].roles) \in SUBSET Permission
    BY DEF Grants!CodesOfAll
  <2>2. /\ c \in Grants!Token /\ c.pc = "codes" /\ c.codes = Grants!CodesOfAll(token[l].roles)
        /\ c.user = token[l].user /\ c.version = token[l].version
    BY <1>1, <2>1 DEF Grants!Token
  <2>3. token' = [token EXCEPT ![l] = c] /\ token[l].pc = "roles"
    BY <1>5 DEF Grants!ReadCodes
  <2> HIDE DEF c
  <2> QED
    BY <1>1, <1>5, <2>2, <2>3 DEF Grants!ReadCodes
<1>6. CASE Grants!SignToken(l)
  <2> DEFINE c == [token[l] EXCEPT !.pc = "issued"]
  <2>1. /\ c \in Grants!Token /\ c.pc = "issued" /\ c.codes = token[l].codes
        /\ c.user = token[l].user /\ c.version = token[l].version
    BY <1>1 DEF Grants!Token
  <2>2. token' = [token EXCEPT ![l] = c] /\ token[l].pc = "codes"
    BY <1>6 DEF Grants!SignToken
  <2> HIDE DEF c
  <2> QED
    BY <1>1, <1>6, <2>1, <2>2 DEF Grants!SignToken
<1>7. CASE \E user \in User : Grants!FindUser(l, user)
  BY <1>1, <1>3, <1>7 DEF Grants!FindUser
<1> QED
  BY <1>4, <1>5, <1>6, <1>7 DEF Grants!LoginStep
---------------------------------------------------------------------------
LEMMA NextGrantsType == ASSUME Grants!AccessAssumption, Grants!TypeOK, [Grants!Next]_(Grants!accessVars) PROVE Grants!TypeOK'
<1>1. CASE UNCHANGED Grants!accessVars
  BY <1>1 DEF Grants!accessVars, Grants!TypeOK
<1>2. ASSUME NEW a \in Admin, NEW op \in Grants!Operation, NEW user \in User, NEW role \in Role,
             NEW codes \in SUBSET Permission, Grants!StartAdmin(a, op, user, role, codes)
      PROVE  Grants!TypeOK'
  BY <1>2, StartAdminFacts DEF Grants!TypeOK
<1>3. ASSUME NEW a \in Admin, Grants!AdminStep(a) PROVE Grants!TypeOK'
  <2>1. CASE Grants!CheckOwner(a)
    BY <2>1, CheckOwnerFacts DEF Grants!TypeOK
  <2>2. CASE Grants!BeginReplace(a)
    BY <2>2, BeginReplaceFacts DEF Grants!TypeOK
  <2>3. CASE Grants!Replace(a)
    <3>1. admin[a].role \in Role /\ admin[a].codes \subseteq Permission
      BY DEF Grants!TypeOK, Grants!AdminCall
    <3>2. rolePermission' \subseteq Role \X Permission \X (Admin \cup {Seed})
      BY <2>3, <3>1 DEF Grants!Replace, Grants!TypeOK
    <3> QED
      BY <2>3, <3>2, ReplaceFacts DEF Grants!TypeOK
  <2>4. CASE Grants!FindHolders(a)
    BY <2>4, FindHoldersFacts DEF Grants!TypeOK
  <2>5. CASE Grants!AssignRole(a) \/ Grants!RemoveRole(a)
    <3>1. userRole \subseteq User \X Role /\ admin[a].user \in User /\ admin[a].role \in Role
      BY DEF Grants!TypeOK, Grants!AdminCall
    <3>2. \/ userRole' = userRole \cup {<<admin[a].user, admin[a].role>>}
          \/ userRole' = userRole \ {<<admin[a].user, admin[a].role>>}
      BY <2>5 DEF Grants!AssignRole, Grants!RemoveRole
    <3>3. userRole' \subseteq User \X Role
      BY <3>1, <3>2
    <3> QED
      BY <2>5, <3>3, MembershipFacts DEF Grants!TypeOK
  <2>6. CASE Grants!IncrementVersion(a)
    BY <2>6, IncrementVersionFacts DEF Grants!TypeOK
  <2>7. CASE Grants!Die(a)
    BY <2>7, DieFacts DEF Grants!TypeOK
  <2> QED
    BY <1>3, <2>1, <2>2, <2>3, <2>4, <2>5, <2>6, <2>7 DEF Grants!AdminStep
<1>4. ASSUME NEW l \in Login, Grants!LoginStep(l) \/ \E user \in User : Grants!FindUser(l, user) PROVE Grants!TypeOK'
  BY <1>4, LoginFacts DEF Grants!TypeOK
<1> QED
  BY <1>1, <1>2, <1>3, <1>4 DEF Grants!Next

LEMMA NextSeen == ASSUME Grants!TypeOK, SeenInv, [Grants!Next]_(Grants!accessVars) PROVE SeenInv'
<1>1. CASE UNCHANGED admin
  BY <1>1 DEF SeenInv
<1>2. ASSUME NEW a \in Admin, admin'[a].pc # "replace", \A b \in Admin \ {a} : admin'[b] = admin[b]
      PROVE  SeenInv'
  BY <1>2 DEF SeenInv
<1>3. ASSUME NEW a \in Admin, NEW op \in Grants!Operation, NEW user \in User, NEW role \in Role,
             NEW codes \in SUBSET Permission, Grants!StartAdmin(a, op, user, role, codes)
      PROVE  SeenInv'
  BY <1>2, <1>3, StartAdminFacts
<1>4. ASSUME NEW a \in Admin, Grants!AdminStep(a) PROVE SeenInv'
  <2>1. CASE Grants!BeginReplace(a)
    BY <2>1, BeginReplaceFacts DEF SeenInv
  <2>2. CASE Grants!CheckOwner(a)
    BY <1>2, <2>2, CheckOwnerFacts
  <2>3. CASE Grants!Replace(a)
    BY <1>2, <2>3, ReplaceFacts
  <2>4. CASE Grants!FindHolders(a)
    BY <1>2, <2>4, FindHoldersFacts
  <2>5. CASE Grants!AssignRole(a) \/ Grants!RemoveRole(a)
    BY <1>2, <2>5, MembershipFacts
  <2>6. CASE Grants!IncrementVersion(a)
    BY <1>2, <2>6, IncrementVersionFacts
  <2>7. CASE Grants!Die(a)
    BY <1>2, <2>7, DieFacts
  <2> QED
    BY <1>4, <2>1, <2>2, <2>3, <2>4, <2>5, <2>6, <2>7 DEF Grants!AdminStep
<1>5. ASSUME NEW l \in Login, Grants!LoginStep(l) \/ \E user \in User : Grants!FindUser(l, user)
      PROVE  UNCHANGED admin
  BY <1>5, LoginFacts
<1> QED
  BY <1>1, <1>3, <1>4, <1>5 DEF Grants!Next, Grants!accessVars

LEMMA NextVersion == ASSUME Grants!TypeOK, VersionInv, [Grants!Next]_(Grants!accessVars) PROVE VersionInv'
<1>1. CASE UNCHANGED <<version, token>>
  BY <1>1 DEF VersionInv
<1>2. ASSUME NEW a \in Admin, Grants!IncrementVersion(a) PROVE VersionInv'
  <2>1. \A u \in User : version[u] \in Nat /\ version'[u] \in Nat /\ version'[u] >= version[u]
    BY <1>2, IncrementVersionFacts DEF Grants!TypeOK
  <2>2. token' = token
    BY <1>2, IncrementVersionFacts
  <2>3. \A l \in Login : token[l].user \in User /\ token[l].version \in Nat
    BY DEF Grants!TypeOK, Grants!Token
  <2>4. ASSUME NEW l \in Login, token[l].pc # "idle" PROVE token[l].version <= version'[token[l].user]
    <3>1. token[l].version <= version[token[l].user]
      BY <2>4 DEF VersionInv
    <3> QED
      BY <2>1, <2>3, <3>1
  <2> QED
    BY <2>2, <2>4 DEF VersionInv
<1>3. ASSUME NEW a \in Admin,
             \/ Grants!AdminStep(a) /\ ~Grants!IncrementVersion(a)
             \/ \E op \in Grants!Operation, user \in User, role \in Role, codes \in SUBSET Permission :
                    Grants!StartAdmin(a, op, user, role, codes)
      PROVE  UNCHANGED <<version, token>>
  BY <1>3 DEF Grants!AdminStep, Grants!StartAdmin, Grants!CheckOwner, Grants!BeginReplace, Grants!Replace, Grants!FindHolders, Grants!AssignRole,
              Grants!RemoveRole, Grants!Die
<1>4. ASSUME NEW l \in Login, Grants!LoginStep(l) \/ \E user \in User : Grants!FindUser(l, user)
      PROVE  VersionInv'
  <2>1. \A u \in User : version[u] \in Nat /\ version'[u] = version[u]
    BY <1>4, LoginFacts DEF Grants!TypeOK
  <2>2. ASSUME NEW m \in Login \ {l} PROVE token'[m] = token[m] /\ token[m].user \in User
    BY <1>4, LoginFacts DEF Grants!TypeOK, Grants!Token
  <2>3. /\ token[l].user \in User
        /\ \/ \E user \in User : token'[l].user = user /\ token'[l].version = version[user]
           \/ /\ token[l].pc # "idle"
              /\ token'[l].user = token[l].user /\ token'[l].version = token[l].version
    BY <1>4, LoginFacts DEF Grants!TypeOK, Grants!Token
  <2> QED
    BY <2>1, <2>2, <2>3 DEF VersionInv
<1> QED
  BY <1>1, <1>2, <1>3, <1>4 DEF Grants!Next, Grants!accessVars

(* A change is safe for every user it threatens, raises, or leaves with     *)
(* what it had.                                                             *)
LEMMA TokenKept ==
    ASSUME Grants!TypeOK, VersionInv, TokenInv, token' = token, Carried' => Carried,
           version' \in [User -> Nat],
           Carried' => \A u \in User :
                \/ Threatened(u)'
                \/ version'[u] > version[u]
                \/ /\ Grants!RolesOf(u) \subseteq Grants!RolesOf(u)' /\ Grants!Granted(u) \subseteq Grants!Granted(u)'
                   /\ version'[u] = version[u]
                   /\ Threatened(u) => Threatened(u)'
    PROVE  TokenInv'
<1>1. ASSUME Carried', NEW l \in Login, NEW u \in User, u = token[l].user,
             Current(l)', Outdated(l)'
      PROVE  Threatened(u)'
  <2>1. token[l].pc # "idle" /\ token[l].version = version'[u]
    BY <1>1 DEF Current
  <2>2. token[l].version <= version[u] /\ version[u] \in Nat /\ version'[u] \in Nat
    BY <1>1, <2>1 DEF VersionInv, Grants!TypeOK
  <2>3. ~(version'[u] > version[u])
    BY <2>1, <2>2
  <2>4. CASE /\ Grants!RolesOf(u) \subseteq Grants!RolesOf(u)' /\ Grants!Granted(u) \subseteq Grants!Granted(u)'
             /\ version'[u] = version[u]
             /\ Threatened(u) => Threatened(u)'
    <3>1. Current(l)
      BY <1>1, <2>1, <2>4 DEF Current
    <3>2. \/ token[l].pc = "roles" /\ ~(token[l].roles \subseteq Grants!RolesOf(u)')
          \/ token[l].pc \in {"codes", "issued"} /\ ~(token[l].codes \subseteq Grants!Granted(u)')
      BY <1>1 DEF Outdated, Grants!Granted, Grants!CodesOfAll, Grants!CodesOf, Grants!RolesOf
    <3>3. Outdated(l)
      BY <1>1, <2>4, <3>2 DEF Outdated
    <3>4. Threatened(u)
      BY <1>1, <3>1, <3>3 DEF TokenInv
    <3> QED
      BY <2>4, <3>4
  <2> QED
    BY <1>1, <2>3, <2>4
<1>2. \A l \in Login : token[l].user \in User
  BY DEF Grants!TypeOK, Grants!Token
<1> QED
  BY <1>1, <1>2 DEF TokenInv, Threatened, Raises, Grants!RolesOf

LEMMA NextToken ==
    ASSUME Grants!TypeOK, SeenInv, VersionInv, TokenInv, [Grants!Next]_(Grants!accessVars)
    PROVE  TokenInv'
<1> USE DEF Carried
<1>0. \A u \in User : version[u] \in Nat
  BY DEF Grants!TypeOK
(* Where rows and versions stay, no threat may go. *)
<1>1. ASSUME UNCHANGED <<rolePermission, userRole, version, token>>, Carried' => Carried,
             Carried' => \A u \in User : Threatened(u) => Threatened(u)'
      PROVE  TokenInv'
  <2>1. \A u \in User : Grants!RolesOf(u)' = Grants!RolesOf(u) /\ Grants!Granted(u)' = Grants!Granted(u)
    BY <1>1 DEF Grants!RolesOf, Grants!Granted, Grants!CodesOfAll, Grants!CodesOf
  <2>2. version' \in [User -> Nat]
    BY <1>1 DEF Grants!TypeOK
  <2> QED
    BY <1>1, <2>1, <2>2, TokenKept
<1>2. CASE UNCHANGED Grants!accessVars
  <2>1. UNCHANGED <<rolePermission, userRole, version, admin, token>>
    BY <1>2 DEF Grants!accessVars
  <2>2. \A u \in User : Threatened(u) => Threatened(u)'
    BY <2>1 DEF Threatened, Raises, Grants!RolesOf
  <2> QED
    BY <1>1, <2>1, <2>2
(* A call that threatened nobody and was not dead leaves the threats of the others. *)
<1>3. ASSUME NEW a \in Admin, admin[a].pc \notin {"holders", "bump"},
             \A b \in Admin \ {a} : admin'[b] = admin[b], userRole \subseteq userRole'
      PROVE  \A u \in User : Threatened(u) => Threatened(u)'
  BY <1>3 DEF Threatened, Raises, Grants!RolesOf
<1>4. ASSUME NEW a \in Admin, admin[a].pc # "dead", \A b \in Admin \ {a} : admin'[b] = admin[b]
      PROVE  Carried' => Carried
  BY <1>4
<1>5. ASSUME NEW a \in Admin, NEW op \in Grants!Operation, NEW user \in User, NEW role \in Role,
             NEW codes \in SUBSET Permission, Grants!StartAdmin(a, op, user, role, codes)
      PROVE  TokenInv'
  BY <1>1, <1>3, <1>4, <1>5, StartAdminFacts
<1>6. ASSUME NEW a \in Admin, Grants!AdminStep(a) PROVE TokenInv'
  <2>1. CASE Grants!CheckOwner(a)
    BY <1>1, <1>3, <1>4, <2>1, CheckOwnerFacts
  <2>2. CASE Grants!BeginReplace(a)
    BY <1>1, <1>3, <1>4, <2>2, BeginReplaceFacts
  <2>3. CASE Grants!Replace(a)
    <3> USE <2>3
    <3>1. /\ admin[a].pc = "replace" /\ admin'[a].pc = "holders" /\ admin'[a].role = admin[a].role
          /\ \A b \in Admin \ {a} : admin'[b] = admin[b]
          /\ UNCHANGED <<userRole, version, token>>
      BY ReplaceFacts
    <3>2. \A entry \in rolePermission : entry[1] # admin[a].role => entry \in rolePermission'
      BY <3>1 DEF Grants!Replace, SeenInv
    <3>3. \A r \in Role : r # admin[a].role => Grants!CodesOf(r) \subseteq Grants!CodesOf(r)'
      BY <3>2 DEF Grants!CodesOf
    <3>4. ASSUME NEW u \in User
          PROVE  \/ Threatened(u)'
                 \/ /\ Grants!RolesOf(u) \subseteq Grants!RolesOf(u)' /\ Grants!Granted(u) \subseteq Grants!Granted(u)'
                    /\ version'[u] = version[u]
                    /\ Threatened(u) => Threatened(u)'
      <4>1. Grants!RolesOf(u)' = Grants!RolesOf(u) /\ Grants!RolesOf(u) \subseteq Role
        BY <3>1 DEF Grants!RolesOf
      <4>2. CASE admin[a].role \in Grants!RolesOf(u)
        BY <3>1, <4>1, <4>2 DEF Threatened, Raises
      <4>3. CASE admin[a].role \notin Grants!RolesOf(u)
        <5>1. Grants!Granted(u) \subseteq Grants!Granted(u)'
          BY <3>3, <4>1, <4>3 DEF Grants!Granted, Grants!CodesOfAll
        <5> QED
          BY <1>3, <3>1, <4>1, <5>1
      <4> QED
        BY <4>2, <4>3
    <3>5. version' \in [User -> Nat]
      BY <3>1 DEF Grants!TypeOK
    <3>6. Carried' => Carried
      BY <1>4, <3>1
    <3> QED
      BY <3>1, <3>4, <3>5, <3>6, TokenKept
  <2>4. CASE Grants!FindHolders(a)
    <3> USE <2>4
    <3>1. /\ UNCHANGED <<rolePermission, userRole, version, token>>
          /\ admin[a].pc = "holders" /\ admin'[a].pc = "bump"
          /\ admin'[a].bumps = {u \in User : admin[a].role \in Grants!RolesOf(u)}
          /\ \A b \in Admin \ {a} : admin'[b] = admin[b]
      BY FindHoldersFacts
    <3>2. \A u \in User : Threatened(u) => Threatened(u)'
      BY <3>1 DEF Threatened, Raises, Grants!RolesOf
    <3>3. Carried' => Carried
      BY <1>4, <3>1
    <3> QED
      BY <1>1, <3>1, <3>2, <3>3
  <2>5. CASE Grants!AssignRole(a) \/ Grants!RemoveRole(a)
    <3>1. /\ admin[a].pc = "write"
          /\ admin'[a].pc = "bump" /\ admin'[a].bumps = {admin[a].user}
          /\ \A b \in Admin \ {a} : admin'[b] = admin[b]
          /\ UNCHANGED <<rolePermission, version, token>>
      BY <2>5, MembershipFacts
    <3>2. ASSUME NEW u \in User
          PROVE  \/ Threatened(u)'
                 \/ /\ Grants!RolesOf(u) \subseteq Grants!RolesOf(u)' /\ Grants!Granted(u) \subseteq Grants!Granted(u)'
                    /\ version'[u] = version[u]
                    /\ Threatened(u) => Threatened(u)'
      <4>1. CASE u = admin[a].user
        BY <3>1, <4>1 DEF Threatened, Raises
      <4>2. CASE u # admin[a].user
        <5>1. \A r \in Role : <<u, r>> \in userRole <=> <<u, r>> \in userRole'
          BY <2>5, <4>2 DEF Grants!AssignRole, Grants!RemoveRole
        <5>2. Grants!RolesOf(u)' = Grants!RolesOf(u)
          BY <5>1 DEF Grants!RolesOf
        <5>3. Grants!Granted(u)' = Grants!Granted(u)
          BY <3>1, <5>2 DEF Grants!Granted, Grants!CodesOfAll, Grants!CodesOf
        <5>4. Threatened(u) => Threatened(u)'
          BY <3>1, <5>2 DEF Threatened, Raises
        <5> QED
          BY <3>1, <5>2, <5>3, <5>4
      <4> QED
        BY <4>1, <4>2
    <3>3. version' \in [User -> Nat]
      BY <3>1 DEF Grants!TypeOK
    <3>4. Carried' => Carried
      BY <1>4, <3>1
    <3> QED
      BY <3>1, <3>2, <3>3, <3>4, TokenKept
  <2>6. CASE Grants!IncrementVersion(a)
    <3>1. /\ admin[a].pc = "bump"
          /\ \A b \in Admin \ {a} : admin'[b] = admin[b]
          /\ version' \in [User -> Nat]
          /\ \A u \in User : version'[u] = IF u \in admin[a].bumps THEN version[u] + 1 ELSE version[u]
          /\ UNCHANGED <<rolePermission, userRole, token>>
      BY <2>6, IncrementVersionFacts
    <3>2. ASSUME NEW u \in User
          PROVE  \/ version'[u] > version[u]
                 \/ /\ Grants!RolesOf(u) \subseteq Grants!RolesOf(u)' /\ Grants!Granted(u) \subseteq Grants!Granted(u)'
                    /\ version'[u] = version[u]
                    /\ Threatened(u) => Threatened(u)'
      <4>1. CASE u \in admin[a].bumps
        BY <1>0, <3>1, <4>1
      <4>2. CASE u \notin admin[a].bumps
        <5>1. Grants!RolesOf(u)' = Grants!RolesOf(u) /\ Grants!Granted(u)' = Grants!Granted(u)
          BY <3>1 DEF Grants!RolesOf, Grants!Granted, Grants!CodesOfAll, Grants!CodesOf
        <5>2. Threatened(u) => Threatened(u)'
          BY <3>1, <4>2 DEF Threatened, Raises, Grants!RolesOf
        <5> QED
          BY <3>1, <4>2, <5>1, <5>2
      <4> QED
        BY <4>1, <4>2
    <3>3. Carried' => Carried
      BY <1>4, <3>1
    <3> QED
      BY <3>1, <3>2, <3>3, TokenKept
  <2>7. CASE Grants!Die(a)
    <3>1. /\ admin[a].pc # "dead"
          /\ admin'[a].pc = IF admin[a].pc \in {"holders", "bump"} THEN "dead" ELSE "refused"
          /\ \A b \in Admin \ {a} : admin'[b] = admin[b]
          /\ UNCHANGED <<rolePermission, userRole, version, token>>
      BY <2>7, DieFacts
    <3>2. Carried' => admin[a].pc \notin {"holders", "bump"}
      BY <3>1
    <3>3. Carried' => \A u \in User : Threatened(u) => Threatened(u)'
      BY <1>3, <3>1, <3>2
    <3>4. Carried' => Carried
      BY <1>4, <3>1
    <3> QED
      BY <1>1, <3>1, <3>3, <3>4
  <2> QED
    BY <1>6, <2>1, <2>2, <2>3, <2>4, <2>5, <2>6, <2>7 DEF Grants!AdminStep
<1>7. ASSUME NEW l \in Login, Grants!LoginStep(l) \/ \E user \in User : Grants!FindUser(l, user)
      PROVE  TokenInv'
  <2>1. /\ UNCHANGED <<rolePermission, userRole, version, admin>>
        /\ \A m \in Login \ {l} : token'[m] = token[m]
    BY <1>7, LoginFacts
  <2>2. \A u \in User : /\ Grants!RolesOf(u)' = Grants!RolesOf(u) /\ Grants!Granted(u)' = Grants!Granted(u)
                        /\ Threatened(u)' = Threatened(u)
    BY <2>1 DEF Grants!RolesOf, Grants!Granted, Grants!CodesOfAll, Grants!CodesOf, Threatened, Raises
  <2>3. ASSUME Carried, NEW m \in Login, NEW u \in User, u = token'[m].user, Current(m)', Outdated(m)'
        PROVE  Threatened(u)
    <3>1. /\ token'[m].pc # "idle" /\ token'[m].version = version[u]
          /\ \/ token'[m].pc = "roles" /\ ~(token'[m].roles \subseteq Grants!RolesOf(u))
             \/ token'[m].pc \in {"codes", "issued"} /\ ~(token'[m].codes \subseteq Grants!Granted(u))
      BY <2>1, <2>3 DEF Current, Outdated, Grants!RolesOf, Grants!Granted, Grants!CodesOfAll, Grants!CodesOf
    <3>2. token[m].user = u /\ Current(m) /\ Outdated(m)
      <4>1. CASE m # l
        BY <2>1, <2>3, <3>1, <4>1 DEF Current, Outdated
      <4>2. CASE m = l
        <5>1. /\ token[l].pc # "idle"
              /\ token'[l].user = token[l].user /\ token'[l].version = token[l].version
              /\ \/ token'[l].pc = "roles" /\ token'[l].roles = Grants!RolesOf(token[l].user)
                 \/ /\ token[l].pc = "roles" /\ token'[l].pc = "codes"
                    /\ token'[l].codes = Grants!CodesOfAll(token[l].roles)
                 \/ /\ token[l].pc = "codes" /\ token'[l].pc = "issued"
                    /\ token'[l].codes = token[l].codes
          BY <1>7, <3>1, <4>2, LoginFacts
        <5>2. token[l].user = u /\ Current(l)
          BY <2>3, <3>1, <4>2, <5>1 DEF Current
        <5>3. \/ /\ token[l].pc = "roles" /\ ~(Grants!CodesOfAll(token[l].roles) \subseteq Grants!Granted(u))
              \/ token[l].pc = "codes" /\ ~(token[l].codes \subseteq Grants!Granted(u))
          BY <3>1, <4>2, <5>1, <5>2
        <5>4. token[l].roles \subseteq Grants!RolesOf(u) => Grants!CodesOfAll(token[l].roles) \subseteq Grants!Granted(u)
          BY DEF Grants!CodesOfAll, Grants!Granted
        <5> QED
          BY <4>2, <5>2, <5>3, <5>4 DEF Outdated
      <4> QED
        BY <4>1, <4>2
    <3> QED
      BY <2>3, <3>2 DEF TokenInv
  <2>4. \A m \in Login : token'[m].user \in User
    BY <1>7, LoginFacts DEF Grants!Token
  <2>5. Carried' => Carried
    BY <2>1
  <2>6. ASSUME Carried', NEW m \in Login, NEW u \in User, u = token'[m].user, Current(m)', Outdated(m)'
        PROVE  Threatened(u)'
    BY <2>2, <2>3, <2>5, <2>6
  <2> QED
    BY <2>4, <2>6 DEF TokenInv, Threatened, Raises, Grants!RolesOf
<1> QED
  BY <1>2, <1>5, <1>6, <1>7 DEF Grants!Next

LEMMA GrantsInductive == ASSUME Grants!AccessAssumption PROVE Grants!Spec => []GrantsInv
<1>1. Grants!Init => GrantsInv
  BY InitGrants
<1>2. GrantsInv /\ [Grants!Next]_(Grants!accessVars) => GrantsInv'
  BY NextGrantsType, NextSeen, NextVersion, NextToken DEF GrantsInv
<1> QED
  BY <1>1, <1>2, PTL DEF Grants!Spec
---------------------------------------------------------------------------
(* For any number of users, roles, changes and logins: once every change    *)
(* has raised the versions it has to, no accepted token grants what its     *)
(* user has lost (rbac.service.ts:104; jwt-access.strategy.ts:26).          *)
THEOREM NoStaleGrant ==
    /\ Grants!Spec => []Grants!StaleGrantRejected
    /\ AdministrationSpec => []StaleGrantRejected
PROOF
<1>1. GrantsInv => Grants!StaleGrantRejected /\ StaleGrantRejected
  BY DEF GrantsInv, TokenInv, Grants!StaleGrantRejected, Grants!Unfinished, Grants!Accepted,
         Current, Outdated, Carried, Threatened, Raises, StaleGrantRejected
<1> QED
  BY <1>1, GrantsAssumed, GrantsInductive, BehavesAsEach, PTL

---------------------------------------------------------------------------
(* The trial signup: who owns the record of a finalization, and which code  *)
(* can still be proved.                                                     *)

(* The code in Redis has not been proved, and was compared as often as its  *)
(* record says; a code that was not mailed yet has not been compared.       *)
CodeInv ==
    /\ \A o \in Otp : guesses[o] <= MaxAttempts
    /\ otp.code # None =>
        /\ request[otp.code] = "mailed"
        /\ guesses[otp.code] = otp.attempts
        /\ \A v \in VerifyCall : proofOf[v] # otp.code
    /\ \A o \in Otp : request[o] # "mailed" =>
        guesses[o] = 0 /\ \A v \in VerifyCall : proofOf[v] # o
    /\ \A v, w \in VerifyCall : proofOf[v] # None /\ proofOf[v] = proofOf[w] => v = w

Owns(f) == finalize[f].pc \in {"provision", "fail"}

RowInv ==
    /\ \A f \in FinalizeCall : finalize[f].pc # "idle" =>
        finalize[f].proof \in VerifyCall /\ finalize[f].intent \in Intent
    /\ \A f \in FinalizeCall : Owns(f) =>
        /\ Signup!RowOf(f).status = "PROCESSING"
        /\ Signup!RowOf(f).intent = finalize[f].intent
    /\ \A f, g \in FinalizeCall : Owns(f) /\ Owns(g) /\ finalize[f].proof = finalize[g].proof => f = g
    /\ \A v \in VerifyCall : finalization[v].status = "COMPLETED" =>
        [proof |-> v, intent |-> finalization[v].intent, user |-> finalization[v].user]
            \in organization
    /\ \A o \in organization : finalization[o.proof].status = "COMPLETED"
    /\ \A o1, o2 \in organization : o1.proof = o2.proof => o1 = o2
    /\ \A f \in FinalizeCall : finalize[f].pc \in {"session", "answered"} =>
        [proof |-> finalize[f].proof, intent |-> finalize[f].intent, user |-> finalize[f].user]
            \in organization

SignupInv == Signup!TypeOK /\ CodeInv /\ RowInv
---------------------------------------------------------------------------
LEMMA InitSignup == ASSUME Signup!TrialSignupAssumption PROVE Signup!Init => SignupInv
BY DEF Signup!TrialSignupAssumption, Signup!Init, SignupInv, Signup!TypeOK, CodeInv, RowInv, Owns, Signup!NoOtp, Signup!RowOf

(* Where the code that is mailed and the record in Redis may be.            *)
LEMMA RequestType ==
    ASSUME Signup!TypeOK, NEW o \in Otp, Signup!RequestStep(o)
    PROVE  Signup!TypeOK'
<1>1. UNCHANGED <<proofOf, guesses, finalization, finalize, organization>>
  BY DEF Signup!RequestStep, Signup!CheckCooldown, Signup!IncrementSendCount, Signup!StartCooldown, Signup!SaveOtp, Signup!finalizeVars
<1>2. /\ request' \in [Otp -> {"idle", "count", "cooldown", "save", "mailed", "stopped"}]
      /\ sent' \in [cooldown : BOOLEAN, count : Nat]
      /\ otp' \in [code : Otp \cup {None}, attempts : Nat]
  <2>1. CASE Signup!CheckCooldown(o)
    BY <2>1 DEF Signup!CheckCooldown, Signup!TypeOK
  <2>2. CASE Signup!IncrementSendCount(o)
    BY <2>2 DEF Signup!IncrementSendCount, Signup!TypeOK
  <2>3. CASE Signup!StartCooldown(o)
    BY <2>3 DEF Signup!StartCooldown, Signup!TypeOK
  <2>4. CASE Signup!SaveOtp(o)
    BY <2>4 DEF Signup!SaveOtp, Signup!TypeOK
  <2> QED
    BY <2>1, <2>2, <2>3, <2>4 DEF Signup!RequestStep
<1> QED
  BY <1>1, <1>2 DEF Signup!TypeOK

LEMMA KeysExpireType == ASSUME Signup!TypeOK, Signup!KeysExpire PROVE Signup!TypeOK'
<1>1. UNCHANGED <<request, proofOf, guesses, finalization, finalize, organization>>
  BY DEF Signup!KeysExpire, Signup!finalizeVars
<1>2. sent' \in [cooldown : BOOLEAN, count : Nat]
  <2>1. CASE sent' = [sent EXCEPT !.cooldown = FALSE]
    BY <2>1 DEF Signup!TypeOK
  <2>2. CASE sent' = [sent EXCEPT !.count = 0]
    BY <2>2 DEF Signup!TypeOK
  <2> QED
    BY <2>1, <2>2 DEF Signup!KeysExpire, Signup!TypeOK
<1>3. otp' \in [code : Otp \cup {None}, attempts : Nat]
  BY DEF Signup!KeysExpire, Signup!NoOtp, Signup!TypeOK
<1> QED
  BY <1>1, <1>2, <1>3 DEF Signup!TypeOK

LEMMA VerifyType ==
    ASSUME Signup!TypeOK, NEW v \in VerifyCall, NEW o \in Otp, Signup!VerifyOtp(v, o)
    PROVE  Signup!TypeOK'
<1>1. UNCHANGED <<request, sent, finalization, finalize, organization>>
  BY DEF Signup!VerifyOtp, Signup!finalizeVars
<1>2. otp' \in [code : Otp \cup {None}, attempts : Nat]
  BY DEF Signup!VerifyOtp, Signup!Consumed, Signup!NoOtp, Signup!TypeOK
<1>3. proofOf' \in [VerifyCall -> Otp \cup {None}]
  BY DEF Signup!VerifyOtp, Signup!TypeOK
<1>4. guesses' \in [Otp -> Nat]
  <2> DEFINE n == IF otp.attempts < MaxAttempts THEN guesses[otp.code] + 1 ELSE guesses[otp.code]
  <2>1. guesses' = [guesses EXCEPT ![otp.code] = n]
    BY DEF Signup!VerifyOtp
  <2>2. otp.code \in Otp => n \in Nat
    BY DEF Signup!TypeOK
  <2> HIDE DEF n
  <2> QED
    BY <2>1, <2>2 DEF Signup!TypeOK
<1> QED
  BY <1>1, <1>2, <1>3, <1>4 DEF Signup!TypeOK

FinalizationRow == [status : {"none", "PROCESSING", "COMPLETED", "FAILED"},
        intent : Intent \cup {None}, user : FinalizeCall \cup {None}]

Finalize == [pc : {"idle", "find", "create", "reclaim", "provision", "fail", "session",
                   "answered", "refused", "dead"},
             proof : VerifyCall \cup {None}, intent : Intent \cup {None},
             user : FinalizeCall \cup {None}]

(* The writes of a call of finalize keep the types: of its own memory, and  *)
(* of the row of its proof.                                                 *)
LEMMA SetFinalize ==
    ASSUME Signup!TypeOK, NEW f \in FinalizeCall, NEW c \in Finalize, finalize' = [finalize EXCEPT ![f] = c]
    PROVE  finalize' \in [FinalizeCall -> Finalize]
BY DEF Signup!TypeOK, Finalize

LEMMA ContinueType ==
    ASSUME Signup!TypeOK, NEW f \in FinalizeCall, NEW step, Signup!Continue(f, step),
           step \in {"create", "reclaim", "provision", "fail", "answered", "refused", "dead"}
    PROVE  finalize' \in [FinalizeCall -> Finalize]
<1> DEFINE c == [finalize[f] EXCEPT !.pc = step]
<1>1. c \in Finalize
  BY DEF Signup!TypeOK, Finalize
<1>2. finalize' = [finalize EXCEPT ![f] = c]
  BY DEF Signup!Continue
<1> HIDE DEF c
<1> QED
  BY <1>1, <1>2, SetFinalize

LEMMA SetRow ==
    ASSUME Signup!TypeOK, NEW v, NEW r \in FinalizationRow, finalization' = [finalization EXCEPT ![v] = r]
    PROVE  finalization' \in [VerifyCall -> FinalizationRow]
BY DEF Signup!TypeOK, FinalizationRow

LEMMA ReservedType ==
    ASSUME Signup!TypeOK, NEW f \in FinalizeCall, Signup!Reserved(f)
    PROVE  finalization' \in [VerifyCall -> FinalizationRow]
<1> DEFINE r == [status |-> "PROCESSING", intent |-> finalize[f].intent, user |-> None]
<1>1. r \in FinalizationRow
  BY DEF Signup!TypeOK, FinalizationRow
<1>2. finalization' = [finalization EXCEPT ![finalize[f].proof] = r]
  BY DEF Signup!Reserved
<1> HIDE DEF r
<1> QED
  BY <1>1, <1>2, SetRow

LEMMA FinalizeType ==
    ASSUME Signup!TypeOK, RowInv, NEW f \in FinalizeCall, Signup!FinalizeStep(f)
    PROVE  /\ finalization' \in [VerifyCall -> FinalizationRow]
           /\ finalize' \in [FinalizeCall -> Finalize]
           /\ organization' \subseteq [proof : VerifyCall, intent : Intent, user : FinalizeCall]
           /\ UNCHANGED Signup!otpVars
<1> DEFINE v == finalize[f].proof
<1>1. finalize[f].pc # "idle" => v \in VerifyCall /\ finalize[f].intent \in Intent
  BY DEF RowInv
<1>2. /\ finalization \in [VerifyCall -> FinalizationRow] /\ finalize[f] \in Finalize
      /\ organization \subseteq [proof : VerifyCall, intent : Intent, user : FinalizeCall]
  BY DEF Signup!TypeOK, FinalizationRow, Finalize
<1>3. CASE Signup!FindFinalization(f)
  <2>1. UNCHANGED <<finalization, organization, Signup!otpVars>>
    BY <1>3 DEF Signup!FindFinalization
  <2>2. CASE \E step \in {"create", "refused", "reclaim"} : Signup!Continue(f, step)
    BY <1>2, <2>1, <2>2, ContinueType
  <2>3. CASE finalize' = [finalize EXCEPT ![f] = [@ EXCEPT !.pc = "session", !.user = Signup!RowOf(f).user]]
    <3> DEFINE c == [finalize[f] EXCEPT !.pc = "session", !.user = Signup!RowOf(f).user]
    <3>1. v \in VerifyCall
      BY <1>1, <1>3 DEF Signup!FindFinalization
    <3>2. finalization[v] \in FinalizationRow
      BY <1>2, <3>1
    <3>3. Signup!RowOf(f).user \in FinalizeCall \cup {None}
      BY <3>2 DEF FinalizationRow, Signup!RowOf
    <3>4. c \in Finalize
      BY <1>2, <3>3 DEF Finalize
    <3>5. finalize' = [finalize EXCEPT ![f] = c]
      BY <2>3
    <3> HIDE DEF c
    <3> QED
      BY <1>2, <2>1, <3>4, <3>5, SetFinalize
  <2> QED
    BY <1>3, <2>2, <2>3 DEF Signup!FindFinalization
<1>4. CASE Signup!CreateFinalization(f) \/ Signup!TryReclaimFailed(f)
  <2>1. UNCHANGED <<organization, Signup!otpVars>>
    BY <1>4 DEF Signup!CreateFinalization, Signup!TryReclaimFailed
  <2>2. Signup!Reserved(f) \/ UNCHANGED finalization
    BY <1>4 DEF Signup!CreateFinalization, Signup!TryReclaimFailed
  <2>3. \E step \in {"provision", "refused"} : Signup!Continue(f, step)
    BY <1>4 DEF Signup!CreateFinalization, Signup!TryReclaimFailed
  <2> QED
    BY <1>2, <2>1, <2>2, <2>3, ReservedType, ContinueType
<1>5. CASE Signup!Provision(f)
  <2> DEFINE r == [finalization[v] EXCEPT !.status = "COMPLETED", !.user = f]
             c == [finalize[f] EXCEPT !.pc = "session", !.user = f]
             o == [proof |-> v, intent |-> finalize[f].intent, user |-> f]
  <2>1. v \in VerifyCall /\ finalize[f].intent \in Intent
    BY <1>1, <1>5 DEF Signup!Provision
  <2>2. r \in FinalizationRow
    BY <1>2, <2>1 DEF FinalizationRow
  <2>3. c \in Finalize
    BY <1>2 DEF Finalize
  <2>4. o \in [proof : VerifyCall, intent : Intent, user : FinalizeCall]
    BY <2>1
  <2>5. /\ finalization' = [finalization EXCEPT ![v] = r]
        /\ finalize' = [finalize EXCEPT ![f] = c]
        /\ organization' = organization \cup {o}
        /\ UNCHANGED Signup!otpVars
    BY <1>5 DEF Signup!Provision
  <2> HIDE DEF r, c, o
  <2> QED
    BY <1>2, <2>2, <2>3, <2>4, <2>5, SetRow, SetFinalize
<1>6. CASE Signup!MarkFailed(f)
  <2> DEFINE r == [finalization[v] EXCEPT !.status = "FAILED"]
  <2>1. v \in VerifyCall
    BY <1>1, <1>6 DEF Signup!MarkFailed
  <2>2. r \in FinalizationRow
    BY <1>2, <2>1 DEF FinalizationRow
  <2>3. finalization' = [finalization EXCEPT ![v] = r] \/ UNCHANGED finalization
    BY <1>6 DEF Signup!MarkFailed
  <2>4. Signup!Continue(f, "refused") /\ UNCHANGED <<organization, Signup!otpVars>>
    BY <1>6 DEF Signup!MarkFailed
  <2> HIDE DEF r
  <2> QED
    BY <1>2, <2>2, <2>3, <2>4, SetRow, ContinueType
<1>7. CASE Signup!ProvisionFails(f) \/ Signup!IssueSession(f) \/ Signup!Die(f)
  <2>1. UNCHANGED <<finalization, organization, Signup!otpVars>>
    BY <1>7 DEF Signup!ProvisionFails, Signup!IssueSession, Signup!Die
  <2>2. \E step \in {"fail", "answered", "dead"} : Signup!Continue(f, step)
    BY <1>7 DEF Signup!ProvisionFails, Signup!IssueSession, Signup!Die
  <2> QED
    BY <1>2, <2>1, <2>2, ContinueType
<1> QED
  BY <1>3, <1>4, <1>5, <1>6, <1>7 DEF Signup!FinalizeStep

LEMMA NextSignupType == ASSUME Signup!TypeOK, RowInv, [Signup!Next]_(Signup!signupVars) PROVE Signup!TypeOK'
<1>1. CASE UNCHANGED Signup!signupVars
  BY <1>1 DEF Signup!signupVars, Signup!TypeOK
<1>2. ASSUME NEW o \in Otp, Signup!RequestStep(o) PROVE Signup!TypeOK'
  BY <1>2, RequestType
<1>3. CASE Signup!KeysExpire
  BY <1>3, KeysExpireType
<1>4. ASSUME NEW v \in VerifyCall, NEW o \in Otp, Signup!VerifyOtp(v, o) PROVE Signup!TypeOK'
  BY <1>4, VerifyType
<1>5. ASSUME NEW f \in FinalizeCall, NEW v \in VerifyCall, NEW intent \in Intent,
             Signup!StartFinalize(f, v, intent)
      PROVE  Signup!TypeOK'
  <2> DEFINE c == [finalize[f] EXCEPT !.pc = "find", !.proof = v, !.intent = intent]
  <2>1. c \in Finalize
    BY ZenonT(40) DEF Signup!TypeOK, Finalize
  <2>2. finalize' = [finalize EXCEPT ![f] = c] /\ UNCHANGED <<finalization, organization, Signup!otpVars>>
    BY <1>5 DEF Signup!StartFinalize
  <2> HIDE DEF c
  <2>3. finalize' \in [FinalizeCall -> Finalize]
    BY <2>1, <2>2, SetFinalize
  <2> QED
    BY <2>2, <2>3 DEF Signup!TypeOK, Finalize, Signup!otpVars
<1>6. ASSUME NEW f \in FinalizeCall, Signup!FinalizeStep(f) PROVE Signup!TypeOK'
  BY <1>6, FinalizeType DEF Signup!TypeOK, FinalizationRow, Finalize, Signup!otpVars
<1> QED
  BY <1>1, <1>2, <1>3, <1>4, <1>5, <1>6 DEF Signup!Next

LEMMA NextCode == ASSUME Signup!TrialSignupAssumption, Signup!TypeOK, CodeInv, [Signup!Next]_(Signup!signupVars) PROVE CodeInv'
<1> USE DEF Signup!TypeOK
<1>1. CASE UNCHANGED Signup!otpVars
  BY <1>1 DEF Signup!otpVars, CodeInv
<1>2. ASSUME NEW o \in Otp, Signup!RequestStep(o) PROVE CodeInv'
  <2>1. CASE Signup!CheckCooldown(o) \/ Signup!IncrementSendCount(o) \/ Signup!StartCooldown(o)
    BY <2>1 DEF Signup!CheckCooldown, Signup!IncrementSendCount, Signup!StartCooldown, CodeInv
  <2>2. CASE Signup!SaveOtp(o)
    BY <2>2 DEF Signup!SaveOtp, CodeInv, Signup!TrialSignupAssumption
  <2> QED
    BY <1>2, <2>1, <2>2 DEF Signup!RequestStep
<1>3. CASE Signup!KeysExpire
  BY <1>3 DEF Signup!KeysExpire, Signup!NoOtp, CodeInv
<1>4. ASSUME NEW v \in VerifyCall, NEW o \in Otp, Signup!VerifyOtp(v, o) PROVE CodeInv'
  <2>1. otp.code \in Otp \/ otp.code = None
    OBVIOUS
  <2>2. CASE otp.code = None
    BY <1>4, <2>2 DEF Signup!VerifyOtp, Signup!Consumed, Signup!Matches, Signup!NoOtp, CodeInv, Signup!TrialSignupAssumption
  <2>3. CASE otp.code \in Otp
    <3>1. \A p \in Otp : guesses'[p] <= MaxAttempts
      BY <1>4, <2>3 DEF Signup!VerifyOtp, CodeInv, Signup!TrialSignupAssumption
    <3>2. otp'.code # None => otp'.code = otp.code /\ otp.code # o /\ otp.attempts < MaxAttempts
                              /\ otp'.attempts = otp.attempts + 1
      BY <1>4, <2>3 DEF Signup!VerifyOtp, Signup!Consumed, Signup!NoOtp, Signup!TrialSignupAssumption
    <3>3. \A w \in VerifyCall : proofOf'[w] = proofOf[w]
              \/ (w = v /\ o = otp.code /\ proofOf'[w] = o)
      BY <1>4 DEF Signup!VerifyOtp, Signup!Matches
    <3>4. otp'.code # None =>
            /\ request'[otp'.code] = "mailed"
            /\ guesses'[otp'.code] = otp'.attempts
            /\ \A w \in VerifyCall : proofOf'[w] # otp'.code
      BY <1>4, <2>3, <3>2, <3>3 DEF Signup!VerifyOtp, CodeInv, Signup!TrialSignupAssumption
    <3>5. \A p \in Otp : request'[p] # "mailed" =>
            guesses'[p] = 0 /\ \A w \in VerifyCall : proofOf'[w] # p
      BY <1>4, <2>3, <3>3 DEF Signup!VerifyOtp, CodeInv, Signup!TrialSignupAssumption
    <3>6. \A w, x \in VerifyCall : proofOf'[w] # None /\ proofOf'[w] = proofOf'[x] => w = x
      BY <2>3, <3>3 DEF CodeInv, Signup!TrialSignupAssumption
    <3> QED
      BY <3>1, <3>4, <3>5, <3>6 DEF CodeInv
  <2> QED
    BY <2>1, <2>2, <2>3
<1>5. ASSUME NEW f \in FinalizeCall, NEW v \in VerifyCall, NEW intent \in Intent,
             Signup!StartFinalize(f, v, intent)
      PROVE  UNCHANGED Signup!otpVars
  BY <1>5 DEF Signup!StartFinalize
<1>6. ASSUME NEW f \in FinalizeCall, Signup!FinalizeStep(f) PROVE UNCHANGED Signup!otpVars
  BY <1>6 DEF Signup!FinalizeStep, Signup!FindFinalization, Signup!CreateFinalization, Signup!TryReclaimFailed, Signup!Provision,
              Signup!ProvisionFails, Signup!MarkFailed, Signup!IssueSession, Signup!Die
<1>7. CASE UNCHANGED Signup!signupVars
  BY <1>1, <1>7 DEF Signup!signupVars, Signup!otpVars
<1> QED
  BY <1>1, <1>2, <1>3, <1>4, <1>5, <1>6, <1>7 DEF Signup!Next

(* Nobody owns the row of a proof whose row is not PROCESSING.              *)
LEMMA FreeRow ==
    ASSUME RowInv, NEW v \in VerifyCall, finalization[v].status # "PROCESSING"
    PROVE  \A f \in FinalizeCall : Owns(f) => finalize[f].proof # v
BY DEF RowInv, Signup!RowOf

LEMMA NextRowInv == ASSUME Signup!TrialSignupAssumption, Signup!TypeOK, RowInv, [Signup!Next]_(Signup!signupVars) PROVE RowInv'
<1> USE DEF Signup!TypeOK
<1>1. CASE UNCHANGED Signup!finalizeVars
  BY <1>1 DEF Signup!finalizeVars, RowInv, Owns, Signup!RowOf
<1>2. ASSUME NEW o \in Otp, Signup!RequestStep(o) PROVE UNCHANGED Signup!finalizeVars
  BY <1>2 DEF Signup!RequestStep, Signup!CheckCooldown, Signup!IncrementSendCount, Signup!StartCooldown, Signup!SaveOtp
<1>3. CASE Signup!KeysExpire
  BY <1>1, <1>3 DEF Signup!KeysExpire
<1>4. ASSUME NEW v \in VerifyCall, NEW o \in Otp, Signup!VerifyOtp(v, o) PROVE UNCHANGED Signup!finalizeVars
  BY <1>4 DEF Signup!VerifyOtp
<1>5. ASSUME NEW f \in FinalizeCall, NEW v \in VerifyCall, NEW intent \in Intent,
             Signup!StartFinalize(f, v, intent)
      PROVE  RowInv'
  BY <1>5 DEF Signup!StartFinalize, RowInv, Owns, Signup!RowOf
<1>6. ASSUME NEW f \in FinalizeCall, Signup!FinalizeStep(f) PROVE RowInv'
  <2> DEFINE v == finalize[f].proof
  <2>1. finalize[f].pc # "idle" => v \in VerifyCall /\ finalize[f].intent \in Intent
    BY DEF RowInv
  <2>2. CASE Signup!FindFinalization(f)
    <3>1. v \in VerifyCall /\ finalize[f].intent \in Intent
      BY <2>1, <2>2 DEF Signup!FindFinalization
    <3>2. CASE finalize' = [finalize EXCEPT ![f] = [@ EXCEPT !.pc = "session", !.user = Signup!RowOf(f).user]]
               /\ Signup!RowOf(f).status = "COMPLETED" /\ Signup!RowOf(f).intent = finalize[f].intent
      BY <2>2, <3>1, <3>2 DEF Signup!FindFinalization, RowInv, Owns, Signup!RowOf
    <3>3. CASE \E step \in {"create", "refused", "reclaim"} : Signup!Continue(f, step)
      <4>1. /\ \A g \in FinalizeCall : g # f => finalize'[g] = finalize[g]
            /\ finalize'[f].pc \in {"create", "refused", "reclaim"}
            /\ finalize'[f].proof = v /\ finalize'[f].intent = finalize[f].intent
        BY <3>3 DEF Signup!Continue
      <4>2. finalization' = finalization /\ organization' = organization
        BY <2>2 DEF Signup!FindFinalization
      <4>3. /\ ~ Owns(f)'
            /\ \A g \in FinalizeCall : g # f => /\ Owns(g)' = Owns(g)
                                                 /\ Signup!RowOf(g)' = Signup!RowOf(g)
        BY <4>1, <4>2 DEF Owns, Signup!RowOf
      <4>4. ASSUME NEW g \in FinalizeCall, finalize'[g].pc # "idle"
            PROVE  finalize'[g].proof \in VerifyCall /\ finalize'[g].intent \in Intent
        BY <3>1, <4>1, <4>4 DEF RowInv
      <4>5. ASSUME NEW g \in FinalizeCall, Owns(g)'
            PROVE  /\ g # f /\ Owns(g) /\ finalize'[g] = finalize[g]
                   /\ (Signup!RowOf(g).status)' = "PROCESSING"
                   /\ (Signup!RowOf(g).intent)' = finalize'[g].intent
        BY <4>1, <4>3, <4>5 DEF RowInv
      <4>6. \A g, h \in FinalizeCall :
                Owns(g)' /\ Owns(h)' /\ finalize'[g].proof = finalize'[h].proof => g = h
        BY <4>5 DEF RowInv
      <4>7. ASSUME NEW g \in FinalizeCall, finalize'[g].pc \in {"session", "answered"}
            PROVE  [proof |-> finalize'[g].proof, intent |-> finalize'[g].intent,
                    user |-> finalize'[g].user] \in organization
        BY <4>1, <4>7 DEF RowInv
      <4> QED
        BY <4>2, <4>4, <4>5, <4>6, <4>7 DEF RowInv
    <3> QED
      BY <2>2, <3>2, <3>3 DEF Signup!FindFinalization
  <2>3. CASE (Signup!CreateFinalization(f) \/ Signup!TryReclaimFailed(f)) /\ Signup!Reserved(f) /\ Signup!Continue(f, "provision")
             /\ Signup!RowOf(f).status \in {"none", "FAILED"}
    <3>1. v \in VerifyCall /\ finalize[f].intent \in Intent
      BY <2>1, <2>3 DEF Signup!CreateFinalization, Signup!TryReclaimFailed
    <3>2. \A g \in FinalizeCall : Owns(g) => finalize[g].proof # v
      BY <2>3, <3>1, FreeRow DEF Signup!RowOf
    <3>3. organization' = organization
      BY <2>3 DEF Signup!CreateFinalization, Signup!TryReclaimFailed
    <3>4. \A o \in organization : o.proof # v
      BY <2>3 DEF RowInv, Signup!RowOf
    <3>5. finalization' = [finalization EXCEPT ![v] =
            [status |-> "PROCESSING", intent |-> finalize[f].intent, user |-> None]]
      BY <2>3 DEF Signup!Reserved
    <3>6. finalize' = [finalize EXCEPT ![f].pc = "provision"]
      BY <2>3 DEF Signup!Continue
    <3> QED
      BY <3>1, <3>2, <3>3, <3>4, <3>5, <3>6 DEF RowInv, Owns, Signup!RowOf
  <2>4. CASE (Signup!CreateFinalization(f) \/ Signup!TryReclaimFailed(f)) /\ Signup!Continue(f, "refused")
             /\ UNCHANGED finalization
    BY <2>1, <2>4 DEF Signup!CreateFinalization, Signup!TryReclaimFailed, Signup!Continue, RowInv, Owns, Signup!RowOf
  <2>5. CASE Signup!Provision(f)
    <3> DEFINE new == [proof |-> v, intent |-> finalize[f].intent, user |-> f]
    <3>1. v \in VerifyCall /\ finalize[f].intent \in Intent /\ Owns(f)
      BY <2>1, <2>5 DEF Signup!Provision, Owns
    <3>2. finalization[v].status = "PROCESSING" /\ finalization[v].intent = finalize[f].intent
      BY <3>1 DEF RowInv, Signup!RowOf
    <3>3. \A o \in organization : o.proof # v
      BY <3>2 DEF RowInv
    <3>4. \A g \in FinalizeCall \ {f} : Owns(g) => finalize[g].proof # v
      BY <3>1 DEF RowInv
    <3>5. organization' = organization \cup {new}
      BY <2>5 DEF Signup!Provision
    <3>6. finalization' = [finalization EXCEPT ![v] = [@ EXCEPT !.status = "COMPLETED", !.user = f]]
      BY <2>5 DEF Signup!Provision
    <3>7. finalize' = [finalize EXCEPT ![f] = [@ EXCEPT !.pc = "session", !.user = f]]
      BY <2>5 DEF Signup!Provision
    <3>8. \A o \in organization' : finalization'[o.proof].status = "COMPLETED"
      BY <3>1, <3>3, <3>5, <3>6 DEF RowInv
    <3>9. \A o1, o2 \in organization' : o1.proof = o2.proof => o1 = o2
      BY <3>3, <3>5 DEF RowInv
    <3>10. \A w \in VerifyCall : finalization'[w].status = "COMPLETED" =>
             [proof |-> w, intent |-> finalization'[w].intent, user |-> finalization'[w].user]
                 \in organization'
      BY <3>1, <3>2, <3>5, <3>6 DEF RowInv
    <3> HIDE DEF new
    <3>11. \A g \in FinalizeCall : finalize'[g].pc \in {"session", "answered"} =>
             [proof |-> finalize'[g].proof, intent |-> finalize'[g].intent,
              user |-> finalize'[g].user] \in organization'
      BY <3>1, <3>5, <3>7 DEF RowInv, new
    <3>12. \A g \in FinalizeCall : Owns(g)' => g # f /\ Owns(g) /\ finalize'[g] = finalize[g]
                                                /\ finalization'[finalize[g].proof] = finalization[finalize[g].proof]
      BY <3>1, <3>4, <3>6, <3>7 DEF Owns
    <3> QED
      BY <3>1, <3>7, <3>8, <3>9, <3>10, <3>11, <3>12 DEF RowInv, Signup!RowOf, Owns
  <2>6. CASE Signup!ProvisionFails(f)
    BY <2>6 DEF Signup!ProvisionFails, Signup!Continue, RowInv, Owns, Signup!RowOf
  <2>7. CASE Signup!MarkFailed(f)
    <3>1. v \in VerifyCall /\ finalize[f].intent \in Intent /\ Owns(f)
      BY <2>1, <2>7 DEF Signup!MarkFailed, Owns
    <3>2. finalization[v].status = "PROCESSING"
      BY <3>1 DEF RowInv, Signup!RowOf
    <3>3. \A o \in organization : o.proof # v
      BY <3>2 DEF RowInv
    <3>4. \A g \in FinalizeCall \ {f} : Owns(g) => finalize[g].proof # v
      BY <3>1 DEF RowInv
    <3>5. organization' = organization /\ finalize' = [finalize EXCEPT ![f].pc = "refused"]
      BY <2>7 DEF Signup!MarkFailed, Signup!Continue
    <3>6. \/ finalization' = [finalization EXCEPT ![v].status = "FAILED"]
          \/ finalization' = finalization
      BY <2>7 DEF Signup!MarkFailed
    <3> QED
      BY <3>1, <3>2, <3>3, <3>4, <3>5, <3>6 DEF RowInv, Owns, Signup!RowOf
  <2>8. CASE Signup!IssueSession(f)
    BY <2>8 DEF Signup!IssueSession, Signup!Continue, RowInv, Owns, Signup!RowOf
  <2>9. CASE Signup!Die(f)
    BY <2>9 DEF Signup!Die, Signup!Continue, RowInv, Owns, Signup!RowOf
  <2>10. Signup!CreateFinalization(f) \/ Signup!TryReclaimFailed(f) =>
            \/ Signup!Reserved(f) /\ Signup!Continue(f, "provision") /\ Signup!RowOf(f).status \in {"none", "FAILED"}
            \/ Signup!Continue(f, "refused") /\ UNCHANGED finalization
    BY DEF Signup!CreateFinalization, Signup!TryReclaimFailed
  <2> QED
    BY <1>6, <2>2, <2>3, <2>4, <2>5, <2>6, <2>7, <2>8, <2>9, <2>10 DEF Signup!FinalizeStep
<1>7. CASE UNCHANGED Signup!signupVars
  BY <1>1, <1>7 DEF Signup!signupVars, Signup!finalizeVars
<1> QED
  BY <1>1, <1>2, <1>3, <1>4, <1>5, <1>6, <1>7 DEF Signup!Next

LEMMA SignupInductive == ASSUME Signup!TrialSignupAssumption PROVE Signup!Spec => []SignupInv
<1>1. Signup!Init => SignupInv
  BY InitSignup
<1>2. SignupInv /\ [Signup!Next]_(Signup!signupVars) => SignupInv'
  BY NextSignupType, NextCode, NextRowInv DEF SignupInv
<1> QED
  BY <1>1, <1>2, PTL DEF Signup!Spec
---------------------------------------------------------------------------
(* For any number of codes, verifications and retries: a code is tried at   *)
(* most MaxAttempts times and proved once, a proof makes one organization,  *)
(* and a session is opened only for the owner of the organization that its  *)
(* proof and intent have made (trial-signup.service.ts:154).                *)
THEOREM OneOrganization ==
    /\ Signup!Spec => []Signup!OneOrganizationPerOtp
    /\ AdministrationSpec => []OneOrganizationPerOtp
PROOF
<1>1. SignupInv => Signup!OneOrganizationPerOtp
  <2> SUFFICES ASSUME SignupInv PROVE Signup!OneOrganizationPerOtp
    OBVIOUS
  <2>1. ASSUME NEW o \in Otp PROVE Cardinality({v \in VerifyCall : proofOf[v] = o}) <= 1
    <3> DEFINE S == {v \in VerifyCall : proofOf[v] = o}
    <3>1. \A v, w \in S : v = w
      BY SignupAssumed DEF SignupInv, CodeInv, Signup!TrialSignupAssumption
    <3> HIDE DEF S
    <3>2. Cardinality(S) <= 1
      BY <3>1, AtMostOneMember
    <3> QED
      BY <3>2 DEF S
  <2>2. \A S : Signup!Cardinality(S) = Cardinality(S)
    BY DEF Signup!Cardinality, Cardinality
  <2> QED
    BY <2>1, <2>2 DEF SignupInv, CodeInv, RowInv, Signup!OneOrganizationPerOtp
<1>2. SignupInv => OneOrganizationPerOtp
  BY <1>1 DEF OneOrganizationPerOtp
<1> QED
  BY <1>1, <1>2, SignupAssumed, SignupInductive, BehavesAsEach, PTL


---------------------------------------------------------------------------
(* The limits of a plan: the types first, then who holds which resource and *)
(* what there is room for.                                                  *)

USE SizeAssumption, RowAssumption, PlanAssumption, ActorAssumption DEF Resource

(* What a step writes into the record of a call or of a change of plan.     *)
LEMMA CallLimited ==
    ASSUME NEW c \in WriteCall, NEW pc \in {"write", "count"}, NEW limit \in Limit
    PROVE  [c EXCEPT !.pc = pc, !.limit = limit] \in WriteCall
BY DEF WriteCall

LEMMA RunStarted ==
    ASSUME NEW run \in ChangeRun, NEW plan \in Plan, NEW commits \in BOOLEAN
    PROVE  [run EXCEPT !.pc = "locking", !.plan = plan, !.commits = commits] \in ChangeRun
BY DEF ChangeRun

LEMMA RunLocked ==
    ASSUME NEW run \in ChangeRun, NEW pc \in {"locking", "read"}, NEW n \in Resource
    PROVE  [run EXCEPT !.pc = pc, !.next = n] \in ChangeRun
BY DEF ChangeRun

LEMMA RunCounted ==
    ASSUME NEW run \in ChangeRun, NEW pc \in {"counting", "decide"}, NEW n \in Resource,
           NEW allowed \in BOOLEAN
    PROVE  [run EXCEPT !.pc = pc, !.allowed = allowed, !.next = n] \in ChangeRun
BY DEF ChangeRun

(* Every variable keeps its type: in particular the loops over the kinds    *)
(* (subscription-plan-changer.ts:254, 298) never leave them.                *)
THEOREM TypeCorrect == Spec => []TypeOK
<1>1. Init => TypeOK
  BY DEF Init, TypeOK, SubscriptionRow, WriteCall, ChangeRun, NoWrite, NoChange, Limit,
         DefaultExpiry
<1>2. TypeOK /\ [Next]_vars => TypeOK'
  <2> SUFFICES ASSUME TypeOK, [Next]_vars
               PROVE  TypeOK'
    OBVIOUS
  <2> USE DEF TypeOK
  <2>a. \A w \in Writer : write[w] \in WriteCall
    OBVIOUS
  <2>b. \A c \in Changer : change[c] \in ChangeRun
    OBVIOUS
  <2>1. ASSUME NEW w \in Writer, NEW kind \in Resource, StartCreate(w, kind)
        PROVE  TypeOK'
    <3>1. [write[w] EXCEPT !.pc = "lock", !.kind = kind] \in WriteCall
      BY <2>a DEF WriteCall
    <3> QED
      BY <2>1, <3>1 DEF StartCreate
  <2>2. ASSUME NEW w \in Writer, NEW x \in Row, StartRestore(w, x)
        PROVE  TypeOK'
    <3>1. [write[w] EXCEPT !.pc = "lock", !.kind = KindOf[x], !.row = x] \in WriteCall
      BY <2>a DEF WriteCall
    <3> QED
      BY <2>2, <3>1 DEF StartRestore
  <2>3. ASSUME NEW w \in Writer, Lock(w)
        PROVE  TypeOK'
    <3>1. [write[w] EXCEPT !.pc = "limit"] \in WriteCall /\ write[w].kind \in Resource
      BY <2>a DEF WriteCall
    <3> QED
      BY <2>3, <3>1 DEF Lock
  <2>4. ASSUME NEW w \in Writer, ReadLimit(w)
        PROVE  TypeOK'
    <3> DEFINE limit == subscription.limit[write[w].kind]
    <3>1. limit \in Limit
      BY <2>a DEF SubscriptionRow, WriteCall
    <3>2. [write[w] EXCEPT !.pc = IF limit = Unlimited THEN "write" ELSE "count",
                           !.limit = limit] \in WriteCall
      <4> DEFINE pc == IF limit = Unlimited THEN "write" ELSE "count"
      <4>1. pc \in {"write", "count"}
        OBVIOUS
      <4> HIDE DEF pc, limit
      <4> QED
        BY <2>a, <3>1, <4>1, CallLimited
    <3> QED
      BY <2>4, <3>2 DEF ReadLimit
  <2>5. ASSUME NEW w \in Writer, Count(w)
        PROVE  TypeOK'
    <3>1. [write[w] EXCEPT !.pc = "write"] \in WriteCall
      BY <2>a DEF WriteCall
    <3> QED
      BY <2>5, <3>1 DEF Count
  <2>6. ASSUME NEW w \in Writer, End(w), subscription' = subscription,
               row' \in [Row -> {"absent", "live", "deleted"}], late' \in [Resource -> Nat]
        PROVE  TypeOK'
    <3>1. [NoWrite EXCEPT !.pc = "done"] \in WriteCall
      BY DEF NoWrite, Limit, WriteCall
    <3>2. write' \in [Writer -> WriteCall]
      BY <2>6, <3>1 DEF End
    <3>3. holder' \in [Resource -> Writer \cup Changer \cup {None}]
      BY <2>6 DEF End, Released
    <3> QED
      BY <2>6, <3>2, <3>3 DEF End
  <2>7. ASSUME NEW w \in Writer, Refused(w) \/ WriteFails(w)
        PROVE  TypeOK'
    BY <2>6, <2>7 DEF Refused, WriteFails, End
  <2>8. ASSUME NEW w \in Writer, Write(w)
        PROVE  TypeOK'
    <3>1. row' \in [Row -> {"absent", "live", "deleted"}]
      BY <2>8 DEF Write
    <3>2. late' \in [Resource -> Nat]
      <4>1. write[w].kind \in Resource
        BY <2>a DEF WriteCall
      <4> QED
        BY <2>8, <4>1 DEF Write
    <3> QED
      BY <2>6, <2>8, <3>1, <3>2 DEF Write, End
  <2>9. ASSUME NEW c \in Changer, NEW plan \in Plan, NEW commits \in BOOLEAN,
               StartChange(c, plan, commits)
        PROVE  TypeOK'
    <3>1. [change[c] EXCEPT !.pc = "locking", !.plan = plan, !.commits = commits]
             \in ChangeRun
      BY <2>b, RunStarted
    <3> QED
      BY <2>9, <3>1 DEF StartChange
  <2>10. ASSUME NEW c \in Changer, LockNext(c)
         PROVE  TypeOK'
    <3>1. change[c].next \in Resource /\ Following(change[c].next) \in Resource
      BY <2>b DEF Following, ChangeRun
    <3>2. [change[c] EXCEPT
              !.pc = IF change[c].next = NumResources THEN "read" ELSE "locking",
              !.next = Following(change[c].next)] \in ChangeRun
      <4> DEFINE pc == IF change[c].next = NumResources THEN "read" ELSE "locking"
                 n == Following(change[c].next)
      <4>1. pc \in {"locking", "read"}
        OBVIOUS
      <4> HIDE DEF pc, n
      <4> QED
        BY <2>b, <3>1, <4>1, RunLocked DEF n
    <3> QED
      BY <2>10, <3>1, <3>2 DEF LockNext, Wanted
  <2>11. ASSUME NEW c \in Changer, ReadSubscription(c)
         PROVE  TypeOK'
    <3>1. \A b \in BOOLEAN :
            [change[c] EXCEPT !.pc = "counting", !.allowed = TRUE, !.noOp = b] \in ChangeRun
      BY ZenonT(40), <2>b DEF ChangeRun
    <3>2. (subscription = Target(change[c].plan)) \in BOOLEAN
      OBVIOUS
    <3>3. change' \in [Changer -> ChangeRun]
      <4>1. PICK b \in BOOLEAN : b = (subscription = Target(change[c].plan))
        BY <3>2
      <4>2. change' = [change EXCEPT ![c] =
                [change[c] EXCEPT !.pc = "counting", !.allowed = TRUE, !.noOp = b]]
        BY <2>11, <4>1, Zenon DEF ReadSubscription
      <4> QED
        BY <3>1, <4>2
    <3> QED
      BY <2>11, <3>3 DEF ReadSubscription
  <2>12. ASSUME NEW c \in Changer, CountNext(c)
         PROVE  TypeOK'
    <3>1. Following(change[c].next) \in Resource
      BY <2>b DEF Following, ChangeRun
    <3>2. (change[c].allowed
            /\ Within(Usage(change[c].next), LimitsOf[change[c].plan][change[c].next])) \in BOOLEAN
      OBVIOUS
    <3>3. [change[c] EXCEPT
              !.pc = IF change[c].next = NumResources THEN "decide" ELSE "counting",
              !.allowed = change[c].allowed
                  /\ Within(Usage(change[c].next), LimitsOf[change[c].plan][change[c].next]),
              !.next = Following(change[c].next)] \in ChangeRun
      <4> DEFINE pc == IF change[c].next = NumResources THEN "decide" ELSE "counting"
                 n == Following(change[c].next)
                 b == change[c].allowed
                        /\ Within(Usage(change[c].next), LimitsOf[change[c].plan][change[c].next])
      <4>1. pc \in {"counting", "decide"} /\ n \in Resource /\ b \in BOOLEAN
        BY <3>1, <3>2
      <4> HIDE DEF pc, n, b
      <4>2. [change[c] EXCEPT !.pc = pc, !.allowed = b, !.next = n] \in ChangeRun
        BY <2>b, <4>1, RunCounted
      <4> QED
        BY <4>2 DEF pc, n, b
    <3> QED
      BY <2>12, <3>3 DEF CountNext
  <2>13. ASSUME NEW c \in Changer, EndChange(c),
                subscription' \in SubscriptionRow, late' \in [Resource -> Nat]
         PROVE  TypeOK'
    <3>1. [NoChange EXCEPT !.pc = "done"] \in ChangeRun
      <4>1. 1 \in Resource
        BY SizeAssumption
      <4>2. NoChange \in ChangeRun
        BY <4>1, PlanAssumption DEF NoChange, ChangeRun
      <4> QED
        BY <4>2 DEF ChangeRun
    <3>2. change' \in [Changer -> ChangeRun]
      BY <2>13, <3>1 DEF EndChange
    <3>3. holder' \in [Resource -> Writer \cup Changer \cup {None}]
      BY <2>13 DEF EndChange, Released
    <3> QED
      BY <2>13, <3>2, <3>3 DEF EndChange
  <2>14. ASSUME NEW c \in Changer, ChangePlan(c)
         PROVE  TypeOK'
    <3>1. Target(change[c].plan) \in SubscriptionRow
      BY <2>b DEF Target, SubscriptionRow, DefaultExpiry, ChangeRun
    <3> QED
      BY <2>13, <2>14, <3>1 DEF ChangePlan
  <2>15. ASSUME NEW c \in Changer, ChangeNothing(c) \/ ChangeFails(c)
         PROVE  TypeOK'
    BY <2>13, <2>15 DEF ChangeNothing, ChangeFails
  <2>16. ASSUME NEW x \in Row, Remove(x)
         PROVE  TypeOK'
    BY <2>16 DEF Remove
  <2>17. CASE TrialEnds \/ ExpireDueTrials
    BY <2>17 DEF TrialEnds, ExpireDueTrials, SubscriptionRow
  <2>18. CASE UNCHANGED vars
    BY <2>18 DEF vars
  <2> QED
    BY <2>1, <2>2, <2>3, <2>4, <2>5, <2>7, <2>8, <2>9, <2>10, <2>11, <2>12, <2>14, <2>15,
       <2>16, <2>17, <2>18 DEF Next, WriterStep, ChangerStep
<1> QED
  BY <1>1, <1>2, PTL DEF Spec

---------------------------------------------------------------------------
(* Locks *)

LEMMA CallTypes ==
    ASSUME TypeOK
    PROVE  /\ \A w \in Writer : write[w] \in WriteCall
           /\ \A c \in Changer : change[c] \in ChangeRun /\ change[c].next \in Resource
BY DEF TypeOK, ChangeRun

LEMMA Distinct ==
    /\ \A w \in Writer, c \in Changer : w # c
    /\ \A w \in Writer : w # None
    /\ \A c \in Changer : c # None
BY ActorAssumption

(* The end of a writer's transaction takes its lock away and nothing else.  *)
LEMMA WriterEnds ==
    ASSUME TypeOK, LockInv, NEW w \in Writer, End(w)
    PROVE  LockInv'
<1>1. write' = [write EXCEPT ![w] = [NoWrite EXCEPT !.pc = "done"]]
      /\ write'[w].pc = "done" /\ UNCHANGED change
  BY DEF End, TypeOK, NoWrite
<1>2. \A r \in Resource : holder'[r] = IF holder[r] = w THEN None ELSE holder[r]
  BY DEF End, Released, TypeOK
<1>3. WritersHold'
  <2> SUFFICES ASSUME NEW v \in Writer
               PROVE  /\ write'[v].pc \in {"limit", "count", "write"} =>
                            holder'[write'[v].kind] = v
                      /\ \A r \in Resource : holder'[r] = v =>
                            write'[v].pc \in {"limit", "count", "write"}
    BY DEF WritersHold
  <2>1. CASE v = w
    BY <1>1, <1>2, <2>1
  <2>2. CASE v # w
    <3>1. write'[v] = write[v] /\ write[v].kind \in Resource
      BY <1>1, <2>2, CallTypes DEF TypeOK, WriteCall
    <3>2. write[v].pc \in {"limit", "count", "write"} => holder'[write[v].kind] = v
      BY <1>2, <2>2, <3>1 DEF LockInv, WritersHold
    <3>3. ASSUME NEW r \in Resource, holder'[r] = v
          PROVE  write[v].pc \in {"limit", "count", "write"}
      BY <1>2, <3>3, Distinct DEF LockInv, WritersHold
    <3> QED
      BY <3>1, <3>2, <3>3
  <2> QED
    BY <2>1, <2>2
<1>4. ChangersHold'
  BY <1>1, <1>2 DEF LockInv, ChangersHold
<1> QED
  BY <1>3, <1>4 DEF LockInv

(* The same for a change of plan and all its locks. *)
LEMMA ChangerEnds ==
    ASSUME TypeOK, LockInv, NEW c \in Changer, EndChange(c)
    PROVE  LockInv'
<1>1. UNCHANGED write /\ \A d \in Changer : change'[d] =
            IF d = c THEN [NoChange EXCEPT !.pc = "done"] ELSE change[d]
  BY DEF EndChange, TypeOK
<1>2. change'[c].pc = "done"
  BY <1>1 DEF NoChange
<1>3. \A r \in Resource : holder'[r] = IF holder[r] = c THEN None ELSE holder[r]
  BY DEF EndChange, Released, TypeOK
<1>4. WritersHold'
  <2>1. \A w \in Writer : write[w].kind \in Resource
    BY CallTypes DEF WriteCall
  <2> SUFFICES ASSUME NEW v \in Writer
               PROVE  /\ write[v].pc \in {"limit", "count", "write"} =>
                            holder'[write[v].kind] = v
                      /\ \A r \in Resource : holder'[r] = v =>
                            write[v].pc \in {"limit", "count", "write"}
    BY <1>1 DEF WritersHold
  <2>2. v # c /\ v # None
    BY Distinct
  <2>3. write[v].pc \in {"limit", "count", "write"} => holder'[write[v].kind] = v
    BY <1>3, <2>1, <2>2 DEF LockInv, WritersHold
  <2>4. ASSUME NEW r \in Resource, holder'[r] = v
        PROVE  write[v].pc \in {"limit", "count", "write"}
    BY <1>3, <2>2, <2>4 DEF LockInv, WritersHold
  <2> QED
    BY <2>3, <2>4
<1>5. ChangersHold'
  <2> SUFFICES ASSUME NEW d \in Changer, NEW r \in Resource
               PROVE  /\ change'[d].pc = "locking" =>
                            (holder'[r] = d <=> r < change'[d].next)
                      /\ change'[d].pc \in {"read", "counting", "decide"} => holder'[r] = d
                      /\ change'[d].pc = "idle" => holder'[r] # d
                      /\ change'[d].pc \in {"idle", "read"} => change'[d].next = 1
    BY DEF ChangersHold
  <2>1. CASE d = c
    BY <1>2, <2>1
  <2>2. CASE d # c
    BY <1>1, <1>3, <2>2 DEF LockInv, ChangersHold
  <2> QED
    BY <2>1, <2>2
<1> QED
  BY <1>4, <1>5 DEF LockInv

LEMMA LockStep ==
    ASSUME TypeOK, LockInv, [Next]_vars
    PROVE  LockInv'
<1> USE DEF LockInv, WritersHold, ChangersHold
<1>a. /\ \A w \in Writer : write[w].kind \in Resource
      /\ \A c \in Changer : change[c].next \in Resource
  BY CallTypes DEF WriteCall
<1>1. ASSUME NEW w \in Writer, NEW kind \in Resource, StartCreate(w, kind)
      PROVE  LockInv'
  BY <1>1 DEF StartCreate, TypeOK, WriteCall
<1>2. ASSUME NEW w \in Writer, NEW x \in Row, StartRestore(w, x)
      PROVE  LockInv'
  BY <1>2 DEF StartRestore, TypeOK, WriteCall
<1>3. ASSUME NEW w \in Writer, Lock(w)
      PROVE  LockInv'
  BY <1>3, <1>a DEF Lock, TypeOK, WriteCall
<1>4. ASSUME NEW w \in Writer, ReadLimit(w)
      PROVE  LockInv'
  BY <1>4, <1>a DEF ReadLimit, TypeOK, WriteCall
<1>5. ASSUME NEW w \in Writer, Count(w)
      PROVE  LockInv'
  BY <1>5, <1>a DEF Count, TypeOK, WriteCall
<1>6. ASSUME NEW w \in Writer, Refused(w) \/ Write(w) \/ WriteFails(w)
      PROVE  LockInv'
  BY <1>6, WriterEnds DEF Refused, Write, WriteFails
<1>7. ASSUME NEW c \in Changer, NEW plan \in Plan, NEW commits \in BOOLEAN,
             StartChange(c, plan, commits)
      PROVE  LockInv'
  BY <1>7, <1>a DEF StartChange, TypeOK, ChangeRun
<1>8. ASSUME NEW c \in Changer, LockNext(c)
      PROVE  LockInv'
  BY <1>8, <1>a DEF LockNext, Wanted, Following, TypeOK, ChangeRun
<1>9. ASSUME NEW c \in Changer, ReadSubscription(c)
      PROVE  LockInv'
  BY <1>9, <1>a DEF ReadSubscription, TypeOK, ChangeRun
<1>10. ASSUME NEW c \in Changer, CountNext(c)
       PROVE  LockInv'
  BY <1>10, <1>a DEF CountNext, Following, TypeOK, ChangeRun
<1>11. ASSUME NEW c \in Changer, ChangePlan(c) \/ ChangeNothing(c) \/ ChangeFails(c)
       PROVE  LockInv'
  BY <1>11, ChangerEnds DEF ChangePlan, ChangeNothing, ChangeFails
<1>12. CASE (\E x \in Row : Remove(x)) \/ TrialEnds \/ ExpireDueTrials
  BY <1>12 DEF Remove, TrialEnds, ExpireDueTrials
<1>13. CASE UNCHANGED vars
  BY <1>13 DEF vars
<1> QED
  BY <1>1, <1>2, <1>3, <1>4, <1>5, <1>6, <1>7, <1>8, <1>9, <1>10, <1>11, <1>12, <1>13
     DEF Next, WriterStep, ChangerStep

---------------------------------------------------------------------------
(* Usage *)

LEMMA WithinLess ==
    ASSUME NEW limit \in Limit, NEW m \in Nat, NEW n \in Nat, m <= n, Within(n, limit)
    PROVE  Within(m, limit)
BY DEF Within, Limit

LEMMA UsageTypes ==
    \A r \in Resource : /\ IsFiniteSet(Live(r)) /\ Usage(r) \in Nat
                        /\ IsFiniteSet(Live(r)') /\ Usage(r)' \in Nat
<1> SUFFICES ASSUME NEW r \in Resource
             PROVE  /\ IsFiniteSet(Live(r)) /\ Usage(r) \in Nat
                    /\ IsFiniteSet(Live(r)') /\ Usage(r)' \in Nat
  OBVIOUS
<1>1. Live(r) \subseteq Row /\ Live(r)' \subseteq Row
  BY DEF Live
<1>2. IsFiniteSet(Live(r)) /\ IsFiniteSet(Live(r)')
  BY <1>1, SizeAssumption, FS_Subset
<1> QED
  BY <1>2, FS_CardinalityType DEF Usage

LEMMA UsageStays ==
    ASSUME row' = row
    PROVE  \A r \in Resource : Usage(r)' <= Usage(r)
<1> SUFFICES ASSUME NEW r \in Resource
             PROVE  Usage(r)' <= Usage(r)
  OBVIOUS
<1>1. Usage(r)' = Usage(r)
  BY DEF Usage, Live
<1> QED
  BY <1>1, UsageTypes

(* A removal lowers the usage of one kind at most. *)
LEMMA UsageFalls ==
    ASSUME TypeOK, NEW x \in Row, Remove(x)
    PROVE  \A r \in Resource : Usage(r)' <= Usage(r)
<1> SUFFICES ASSUME NEW r \in Resource
             PROVE  Usage(r)' <= Usage(r)
  OBVIOUS
<1>1. Live(r)' \subseteq Live(r)
  BY DEF Remove, Live, TypeOK
<1> QED
  BY <1>1, UsageTypes, FS_Subset DEF Usage

(* A row that becomes live uses one unit of its own kind. *)
LEMMA UsageRises ==
    ASSUME TypeOK, NEW x \in Row, row' = [row EXCEPT ![x] = "live"],
           NEW kind \in Resource, KindOf[x] = kind
    PROVE  /\ Usage(kind)' <= Usage(kind) + 1
           /\ \A r \in Resource \ {kind} : Usage(r)' <= Usage(r)
<1>1. Usage(kind)' <= Usage(kind) + 1
  <2>1. Live(kind)' \subseteq Live(kind) \cup {x}
    BY DEF Live, TypeOK
  <2>2. IsFiniteSet(Live(kind) \cup {x})
        /\ Cardinality(Live(kind) \cup {x}) <= Usage(kind) + 1
    <3>1. IsFiniteSet(Live(kind)) /\ Cardinality(Live(kind)) \in Nat
      BY UsageTypes DEF Usage
    <3>2. /\ IsFiniteSet(Live(kind) \cup {x})
          /\ Cardinality(Live(kind) \cup {x}) =
                IF x \in Live(kind) THEN Cardinality(Live(kind)) ELSE Cardinality(Live(kind)) + 1
      BY <3>1, FS_AddElement, Zenon
    <3> QED
      BY <3>1, <3>2 DEF Usage
  <2>3. Usage(kind)' <= Cardinality(Live(kind) \cup {x})
    BY <2>1, <2>2, FS_Subset DEF Usage
  <2> QED
    BY <2>2, <2>3, UsageTypes, FS_CardinalityType, SMTT(30)
<1>2. ASSUME NEW r \in Resource \ {kind}
      PROVE  Usage(r)' <= Usage(r)
  <2>1. Live(r)' \subseteq Live(r)
    BY DEF Live, TypeOK
  <2> QED
    BY <2>1, UsageTypes, FS_Subset DEF Usage
<1> QED
  BY <1>1, <1>2

---------------------------------------------------------------------------
(* Room under the limit *)

LEMMA LimitTypes ==
    ASSUME TypeOK
    PROVE  /\ \A r \in Resource : subscription.limit[r] \in Limit
           /\ \A w \in Writer : write[w].limit \in Limit /\ write[w].kind \in Resource
           /\ \A plan \in Plan, r \in Resource : LimitsOf[plan][r] \in Limit
           /\ \A c \in Changer : change[c].plan \in Plan
BY PlanAssumption DEF TypeOK, SubscriptionRow, WriteCall, ChangeRun

(* What writers have counted survives any step that adds nothing. *)
LEMMA WritersStay ==
    ASSUME TypeOK, RoomInv, UNCHANGED <<write, late>>,
           subscription'.limit = subscription.limit,
           \A r \in Resource : Usage(r)' <= Usage(r)
    PROVE  WritersRoom'
<1> SUFFICES ASSUME NEW w \in Writer, write[w].pc = "write"
             PROVE  Within(Usage(write[w].kind)' + 1, write[w].limit)
  BY DEF RoomInv, WritersRoom
<1>1. Within(Usage(write[w].kind) + 1, write[w].limit)
  BY DEF RoomInv, WritersRoom
<1> QED
  BY <1>1, LimitTypes, UsageTypes, WithinLess

(* So does what a change of plan has counted. *)
LEMMA ChangersStay ==
    ASSUME TypeOK, RoomInv, UNCHANGED change, \A r \in Resource : Usage(r)' <= Usage(r)
    PROVE  ChangersRoom'
<1> SUFFICES ASSUME NEW c \in Changer, NEW r \in Resource, change[c].allowed,
                    \/ change[c].pc = "counting" /\ r < change[c].next
                    \/ change[c].pc = "decide"
             PROVE  Within(Usage(r)', LimitsOf[change[c].plan][r])
  BY DEF ChangersRoom
<1>1. Within(Usage(r), LimitsOf[change[c].plan][r])
  BY DEF RoomInv, ChangersRoom
<1> QED
  BY <1>1, LimitTypes, UsageTypes, WithinLess

LEMMA LimitsStay ==
    ASSUME TypeOK, RoomInv, subscription'.limit = subscription.limit,
           \A r \in Resource : Usage(r)' <= Usage(r)
    PROVE  WithinLimits'
<1> SUFFICES ASSUME NEW r \in Resource
             PROVE  Within(Usage(r)', subscription.limit[r])
  BY DEF WithinLimits
<1>1. Within(Usage(r), subscription.limit[r])
  BY DEF RoomInv, WithinLimits
<1> QED
  BY <1>1, LimitTypes, UsageTypes, WithinLess

LEMMA RoomStep ==
    ASSUME TypeOK, LockInv, RoomInv, [Next]_vars
    PROVE  RoomInv'
<1> DEFINE NothingAdded == \A r \in Resource : Usage(r)' <= Usage(r)
<1>a. UNCHANGED row => NothingAdded
  BY UsageStays
<1>b. UNCHANGED <<subscription, late>> => LateInv'
  BY DEF RoomInv, LateInv, OneLateRow, TrialOver
<1>c. UNCHANGED <<row, write, subscription, late>> => WritersRoom' /\ WithinLimits' /\ LateInv'
  BY <1>a, <1>b, WritersStay, LimitsStay
<1>d. UNCHANGED <<row, change, subscription, late>> => ChangersRoom' /\ WithinLimits' /\ LateInv'
  BY <1>a, <1>b, ChangersStay, LimitsStay
<1>e. ASSUME NEW w \in Writer, UNCHANGED <<row, change, subscription, late>>,
             \A v \in Writer \ {w} : write'[v] = write[v],
             write'[w].pc = "idle" => write'[w].row = None,
             write'[w].row # None => KindOf[write'[w].row] = write'[w].kind,
             write'[w].pc \in {"count", "write"} =>
                /\ write'[w].limit = subscription.limit[write'[w].kind]
                /\ late[write'[w].kind] = 0,
             write'[w].pc = "write" => Within(Usage(write'[w].kind) + 1, write'[w].limit)
      PROVE  RoomInv'
  <2>1. \A r : Usage(r)' = Usage(r)
    BY <1>e DEF Usage, Live
  <2>2. WritersRoom'
    BY <1>e, <2>1 DEF RoomInv, WritersRoom
  <2> QED
    BY <1>d, <1>e, <2>2 DEF RoomInv
<1>f. ASSUME NEW c \in Changer, UNCHANGED <<row, write, subscription, late>>,
             \A d \in Changer \ {c} : change'[d] = change[d],
             \A r \in Resource :
                /\ change'[c].allowed
                /\ \/ change'[c].pc = "counting" /\ r < change'[c].next
                   \/ change'[c].pc = "decide"
                => Within(Usage(r), LimitsOf[change'[c].plan][r])
      PROVE  RoomInv'
  <2>1. \A r : Usage(r)' = Usage(r)
    BY <1>f DEF Usage, Live
  <2>2. ChangersRoom'
    BY <1>f, <2>1 DEF RoomInv, ChangersRoom
  <2> QED
    BY <1>c, <1>f, <2>2 DEF RoomInv
<1>g. /\ \A w \in Writer : write[w].kind \in Resource
      /\ \A c \in Changer : change[c].next \in Resource
  BY CallTypes DEF WriteCall
<1>1. ASSUME NEW w \in Writer, NEW kind \in Resource, StartCreate(w, kind)
      PROVE  RoomInv'
  <2>1. write'[w] = [write[w] EXCEPT !.pc = "lock", !.kind = kind]
        /\ \A v \in Writer \ {w} : write'[v] = write[v]
    BY <1>1 DEF StartCreate, TypeOK
  <2>2. write[w].row = None
    BY <1>1 DEF StartCreate, RoomInv, WritersRoom
  <2>3. write'[w].pc = "lock" /\ write'[w].row = None
    BY <2>1, <2>2, CallTypes DEF WriteCall
  <2> QED
    BY <1>1, <1>e, <2>1, <2>3 DEF StartCreate
<1>2. ASSUME NEW w \in Writer, NEW x \in Row, StartRestore(w, x)
      PROVE  RoomInv'
  <2>1. write'[w] = [write[w] EXCEPT !.pc = "lock", !.kind = KindOf[x], !.row = x]
        /\ \A v \in Writer \ {w} : write'[v] = write[v]
    BY <1>2 DEF StartRestore, TypeOK
  <2>2. write'[w].pc = "lock" /\ KindOf[write'[w].row] = write'[w].kind
    BY <2>1, CallTypes DEF WriteCall
  <2> QED
    BY <1>2, <1>e, <2>1, <2>2 DEF StartRestore
<1>3. ASSUME NEW w \in Writer, Lock(w)
      PROVE  RoomInv'
  <2>1. write'[w] = [write[w] EXCEPT !.pc = "limit"]
        /\ \A v \in Writer \ {w} : write'[v] = write[v]
    BY <1>3 DEF Lock, TypeOK
  <2>2. write'[w].pc = "limit" /\ write'[w].kind = write[w].kind /\ write'[w].row = write[w].row
    BY <2>1, CallTypes DEF WriteCall
  <2>3. write[w].row # None => KindOf[write[w].row] = write[w].kind
    BY DEF RoomInv, WritersRoom
  <2> QED
    BY <1>3, <1>e, <2>1, <2>2, <2>3 DEF Lock
<1>4. ASSUME NEW w \in Writer, ReadLimit(w)
      PROVE  RoomInv'
  <2> DEFINE limit == subscription.limit[write[w].kind]
  <2>1. write'[w] = [write[w] EXCEPT !.pc = IF limit = Unlimited THEN "write" ELSE "count",
                                     !.limit = limit]
        /\ \A v \in Writer \ {w} : write'[v] = write[v]
    BY <1>4 DEF ReadLimit, TypeOK
  <2>2. /\ write'[w].pc = IF limit = Unlimited THEN "write" ELSE "count"
        /\ write'[w].limit = limit
        /\ write'[w].kind = write[w].kind /\ write'[w].row = write[w].row
    BY <2>1, CallTypes DEF WriteCall
  <2>3. write[w].row # None => KindOf[write[w].row] = write[w].kind
    BY DEF RoomInv, WritersRoom
  <2>4. late[write[w].kind] = 0
    <3>1. ~TrialOver
      BY <1>4 DEF ReadLimit, Expired, TrialOver, TypeOK, SubscriptionRow
    <3> QED
      BY <1>g, <3>1 DEF RoomInv, LateInv
  <2>5. write'[w].pc = "write" => Within(Usage(write'[w].kind) + 1, write'[w].limit)
    BY <2>2 DEF Within
  <2> QED
    <3>1. UNCHANGED <<row, change, subscription, late>>
      BY <1>4 DEF ReadLimit
    <3>2. /\ write'[w].pc # "idle"
          /\ write'[w].row # None => KindOf[write'[w].row] = write'[w].kind
          /\ write'[w].limit = subscription.limit[write'[w].kind]
          /\ late[write'[w].kind] = 0
      BY <2>2, <2>3, <2>4
    <3> HIDE DEF limit, NothingAdded
    <3> QED
      BY <1>e, <2>1, <2>5, <3>1, <3>2
<1>5. ASSUME NEW w \in Writer, Count(w)
      PROVE  RoomInv'
  <2>1. write'[w] = [write[w] EXCEPT !.pc = "write"]
        /\ \A v \in Writer \ {w} : write'[v] = write[v]
    BY <1>5 DEF Count, TypeOK
  <2>2. /\ write'[w].pc = "write" /\ write'[w].limit = write[w].limit
        /\ write'[w].kind = write[w].kind /\ write'[w].row = write[w].row
    BY <2>1, CallTypes DEF WriteCall
  <2>3. /\ write[w].row # None => KindOf[write[w].row] = write[w].kind
        /\ write[w].limit = subscription.limit[write[w].kind] /\ late[write[w].kind] = 0
        /\ Within(Usage(write[w].kind) + 1, write[w].limit)
    BY <1>5 DEF Count, RoomInv, WritersRoom
  <2> QED
    BY <1>5, <1>e, <2>1, <2>2, <2>3 DEF Count
<1>6. ASSUME NEW w \in Writer, Refused(w) \/ WriteFails(w)
      PROVE  RoomInv'
  <2>1. write'[w] = [NoWrite EXCEPT !.pc = "done"]
        /\ \A v \in Writer \ {w} : write'[v] = write[v]
    BY <1>6 DEF Refused, WriteFails, End, TypeOK
  <2>2. write'[w].pc = "done" /\ write'[w].row = None
    BY <2>1 DEF NoWrite
  <2> QED
    BY <1>6, <1>e, <2>1, <2>2 DEF Refused, WriteFails, End
<1>7. ASSUME NEW w \in Writer, Write(w)
      PROVE  RoomInv'
  <2>k. PICK kind \in Resource : kind = write[w].kind
    BY <1>g
  <2>0. /\ late' = [late EXCEPT ![kind] = IF TrialOver THEN @ + 1 ELSE @]
        /\ UNCHANGED <<subscription, change>>
        /\ write'[w].pc = "done" /\ write'[w].row = None
        /\ \A v \in Writer \ {w} : write'[v] = write[v]
    BY <1>7, <2>k DEF Write, End, NoWrite, TypeOK
  <2>1. PICK x \in Row : KindOf[x] = kind /\ row' = [row EXCEPT ![x] = "live"]
    BY <1>7, <2>k DEF Write, RoomInv, WritersRoom
  <2>2. /\ Usage(kind)' <= Usage(kind) + 1
        /\ \A r \in Resource \ {kind} : Usage(r)' <= Usage(r)
    BY <2>1, UsageRises
  <2>3. /\ holder[kind] = w /\ late[kind] = 0
        /\ Within(Usage(kind) + 1, subscription.limit[kind])
    BY <1>7, <2>k DEF Write, LockInv, WritersHold, RoomInv, WritersRoom
  <2>4. WritersRoom'
    <3>1. ASSUME NEW v \in Writer, v # w, NEW k \in Resource, write[v].kind = k,
                 write[v].pc \in {"count", "write"}
          PROVE  /\ write[v].limit = subscription.limit[k] /\ late'[k] = 0
                 /\ write[v].pc = "write" => Within(Usage(k)' + 1, write[v].limit)
      <4>1. k # kind
        BY <2>3, <3>1 DEF LockInv, WritersHold
      <4>2. /\ write[v].limit = subscription.limit[k] /\ late[k] = 0
            /\ write[v].pc = "write" => Within(Usage(k) + 1, write[v].limit)
        BY <3>1 DEF RoomInv, WritersRoom
      <4>3. late'[k] = 0
        BY <2>0, <4>1, <4>2 DEF TypeOK
      <4>4. Usage(k)' <= Usage(k)
        BY <2>2, <4>1
      <4>5. ASSUME write[v].pc = "write"
            PROVE  Within(Usage(k)' + 1, write[v].limit)
        <5>1. Usage(k)' + 1 \in Nat /\ Usage(k) + 1 \in Nat /\ Usage(k)' + 1 <= Usage(k) + 1
          BY <4>4, UsageTypes
        <5>2. write[v].limit \in Limit
          BY LimitTypes
        <5> HIDE DEF NothingAdded
        <5> QED
          BY <4>2, <4>5, <5>1, <5>2, WithinLess
      <4> QED
        BY <4>2, <4>3, <4>5
    <3>2. ASSUME NEW v \in Writer, v # w
          PROVE  /\ write'[v] = write[v] /\ write[v].kind \in Resource
                 /\ write[v].pc = "idle" => write[v].row = None
                 /\ write[v].row # None => KindOf[write[v].row] = write[v].kind
      BY <1>g, <2>0, <3>2 DEF RoomInv, WritersRoom
    <3> QED
      BY <2>0, <3>1, <3>2 DEF WritersRoom
  <2>5. ChangersRoom'
    <3>1. \A c \in Changer : change[c].pc \notin {"counting", "decide"}
      BY <2>0, <2>3, Distinct DEF LockInv, ChangersHold
    <3> QED
      BY <2>0, <3>1 DEF ChangersRoom
  <2>6. WithinLimits'
    <3> SUFFICES ASSUME NEW r \in Resource
                 PROVE  Within(Usage(r)', subscription.limit[r])
      BY <2>0 DEF WithinLimits
    <3>1. CASE r = kind
      BY SMTT(20), <2>0, <2>2, <2>3, <3>1, LimitTypes, UsageTypes, WithinLess
    <3>2. CASE r # kind
      <4>1. Within(Usage(r), subscription.limit[r]) /\ Usage(r)' <= Usage(r)
        BY <2>2, <3>2 DEF RoomInv, WithinLimits
      <4> QED
        BY <4>1, LimitTypes, UsageTypes, WithinLess
    <3> QED
      BY <3>1, <3>2
  <2>7. LateInv'
    BY <2>0, <2>3 DEF LateInv, OneLateRow, TrialOver, RoomInv, TypeOK
  <2> QED
    BY <2>4, <2>5, <2>6, <2>7 DEF RoomInv
<1>8. ASSUME NEW c \in Changer, NEW plan \in Plan, NEW commits \in BOOLEAN,
             StartChange(c, plan, commits)
      PROVE  RoomInv'
  <2>1. change'[c].pc = "locking" /\ \A d \in Changer \ {c} : change'[d] = change[d]
    BY <1>8, CallTypes DEF StartChange, TypeOK, ChangeRun
  <2> QED
    BY <1>8, <1>f, <2>1 DEF StartChange
<1>9. ASSUME NEW c \in Changer, LockNext(c)
      PROVE  RoomInv'
  <2>1. change'[c].pc \in {"locking", "read"} /\ \A d \in Changer \ {c} : change'[d] = change[d]
    BY <1>9, CallTypes DEF LockNext, TypeOK, ChangeRun
  <2> QED
    BY <1>9, <1>f, <2>1 DEF LockNext
<1>10. ASSUME NEW c \in Changer, ReadSubscription(c)
       PROVE  RoomInv'
  <2>1. /\ change'[c].pc = "counting" /\ change'[c].next = change[c].next
        /\ \A d \in Changer \ {c} : change'[d] = change[d]
    BY <1>10, CallTypes DEF ReadSubscription, TypeOK, ChangeRun
  <2>2. change[c].next = 1
    BY <1>10, SizeAssumption DEF ReadSubscription, LockInv, ChangersHold
  <2> QED
    BY <1>10, <1>f, <2>1, <2>2 DEF ReadSubscription
<1>11. ASSUME NEW c \in Changer, CountNext(c)
       PROVE  RoomInv'
  <2> DEFINE n == change[c].next
             fits(r) == Within(Usage(r), LimitsOf[change[c].plan][r])
  <2>1. /\ change'[c].pc = IF n = NumResources THEN "decide" ELSE "counting"
        /\ change'[c].plan = change[c].plan
        /\ change'[c].next = Following(n)
        /\ change'[c].allowed = (change[c].allowed /\ fits(n))
        /\ \A d \in Changer \ {c} : change'[d] = change[d]
    BY <1>11, CallTypes DEF CountNext, TypeOK, ChangeRun
  <2>2. change[c].allowed => \A r \in Resource : r < n => fits(r)
    BY <1>11 DEF CountNext, RoomInv, ChangersRoom
  <2>3. change'[c].allowed => \A r \in Resource : r <= n => fits(r)
    <3>1. change'[c].allowed => change[c].allowed /\ fits(n)
      BY <2>1, Zenon
    <3>2. \A r \in Resource : r <= n => r < n \/ r = n
      BY <1>g
    <3> HIDE DEF fits, n
    <3> QED
      BY <2>2, <3>1, <3>2, Zenon
  <2>4. ASSUME NEW r \in Resource, change'[c].allowed,
               \/ change'[c].pc = "counting" /\ r < change'[c].next
               \/ change'[c].pc = "decide"
        PROVE  fits(r)
    <3>1. r <= n
      BY <1>g, <2>1, <2>4 DEF Following
    <3> QED
      BY <2>3, <2>4, <3>1
  <2> QED
    BY <1>11, <1>f, <2>1, <2>4 DEF CountNext
<1>12. ASSUME NEW c \in Changer, ChangeNothing(c) \/ ChangeFails(c)
       PROVE  RoomInv'
  <2>1. change'[c].pc = "done" /\ \A d \in Changer \ {c} : change'[d] = change[d]
    BY <1>12 DEF ChangeNothing, ChangeFails, EndChange, NoChange, TypeOK
  <2> QED
    BY <1>12, <1>f, <2>1 DEF ChangeNothing, ChangeFails, EndChange
<1>13. ASSUME NEW c \in Changer, ChangePlan(c)
       PROVE  RoomInv'
  <2>1. /\ subscription' = Target(change[c].plan) /\ late' = [r \in Resource |-> 0]
        /\ UNCHANGED <<row, write>>
        /\ change'[c].pc = "done" /\ \A d \in Changer \ {c} : change'[d] = change[d]
    BY <1>13 DEF ChangePlan, EndChange, NoChange, TypeOK
  <2>2. \A r \in Resource : holder[r] = c
    BY <1>13 DEF ChangePlan, LockInv, ChangersHold
  <2>3. WritersRoom'
    <3>1. \A w \in Writer : write[w].pc \notin {"count", "write"}
      BY <1>g, <2>2, Distinct DEF LockInv, WritersHold
    <3> QED
      BY <2>1, <3>1 DEF WritersRoom, RoomInv
  <2>4. ChangersRoom'
    <3>1. \A d \in Changer \ {c} : change[d].pc \notin {"counting", "decide"}
      BY <2>2, SizeAssumption DEF LockInv, ChangersHold
    <3> QED
      BY <2>1, <3>1 DEF ChangersRoom
  <2>5. WithinLimits'
    <3>1. \A r \in Resource : Within(Usage(r), LimitsOf[change[c].plan][r])
      BY <1>13 DEF ChangePlan, RoomInv, ChangersRoom
    <3>2. \A r : Usage(r)' = Usage(r)
      BY <2>1 DEF Usage, Live
    <3>3. subscription'.limit = LimitsOf[change[c].plan]
      BY <2>1 DEF Target
    <3> QED
      BY <3>1, <3>2, <3>3 DEF WithinLimits
  <2>6. LateInv'
    BY <2>1 DEF LateInv, OneLateRow
  <2> QED
    BY <2>3, <2>4, <2>5, <2>6 DEF RoomInv
<1>14. ASSUME NEW x \in Row, Remove(x)
       PROVE  RoomInv'
  <2>1. NothingAdded
    BY <1>14, UsageFalls
  <2> QED
    BY <1>14, <1>b, <2>1, WritersStay, ChangersStay, LimitsStay DEF Remove, RoomInv
<1>15. CASE TrialEnds \/ ExpireDueTrials
  <2>1. /\ UNCHANGED <<row, holder, write, change, late>>
        /\ subscription'.limit = subscription.limit
        /\ TrialOver => TrialOver'
    BY <1>15 DEF TrialEnds, ExpireDueTrials, TrialOver, TypeOK, SubscriptionRow
  <2>2. NothingAdded
    BY <1>a, <2>1
  <2>3. LateInv'
    BY <2>1 DEF RoomInv, LateInv, OneLateRow
  <2> QED
    BY <2>1, <2>2, <2>3, WritersStay, ChangersStay, LimitsStay DEF RoomInv
<1>16. CASE UNCHANGED vars
  BY <1>16, <1>c, <1>d DEF vars, RoomInv
<1> QED
  BY <1>1, <1>2, <1>3, <1>4, <1>5, <1>6, <1>7, <1>8, <1>9, <1>10, <1>11, <1>12, <1>13, <1>14,
     <1>15, <1>16 DEF Next, WriterStep, ChangerStep

---------------------------------------------------------------------------
(* The status of the subscription *)

LEMMA PaidStep ==
    ASSUME TypeOK, PaidNeverExpires, [Next]_vars
    PROVE  PaidNeverExpires'
<1>1. ASSUME NEW c \in Changer, ChangePlan(c)
      PROVE  PaidNeverExpires'
  BY <1>1 DEF ChangePlan, Target, DefaultExpiry, PaidNeverExpires
<1>2. CASE TrialEnds \/ ExpireDueTrials
  BY <1>2 DEF TrialEnds, ExpireDueTrials, PaidNeverExpires, TypeOK, SubscriptionRow
<1>3. CASE UNCHANGED subscription
  BY <1>3 DEF PaidNeverExpires
<1> QED
  BY <1>1, <1>2, <1>3 DEF Next, WriterStep, ChangerStep, vars, StartCreate, StartRestore, Lock,
     ReadLimit, Count, Refused, Write, WriteFails, End, StartChange, LockNext, ReadSubscription,
     CountNext, ChangeNothing, ChangeFails, Remove

---------------------------------------------------------------------------
(* The invariant and what follows from it *)

LEMMA Initially == Init => IInv
<1> SUFFICES ASSUME Init
             PROVE  IInv
  OBVIOUS
<1>1. TypeOK
  BY DEF Init, TypeOK, SubscriptionRow, WriteCall, ChangeRun, NoWrite, NoChange, Limit,
         DefaultExpiry
<1>2. LockInv
  BY Distinct DEF Init, LockInv, WritersHold, ChangersHold, NoWrite, NoChange
<1>3. RoomInv
  BY DEF Init, RoomInv, WritersRoom, ChangersRoom, WithinLimits, LateInv, OneLateRow,
         NoWrite, NoChange
<1>4. PaidNeverExpires
  BY DEF Init, PaidNeverExpires, DefaultExpiry
<1> QED
  BY <1>1, <1>2, <1>3, <1>4 DEF IInv

LEMMA Inductive == Spec => []IInv
<1>1. IInv /\ TypeOK' /\ [Next]_vars => IInv'
  BY LockStep, RoomStep, PaidStep DEF IInv
<1> QED
  BY <1>1, Initially, TypeCorrect, PTL DEF Spec

(* For every plan, every number of kinds and any calls at once, nobody is   *)
(* over the limit in force (usage-limit.service.ts:30).                     *)
THEOREM NeverOverLimit == Spec => []WithinLimits
<1>1. IInv => WithinLimits
  BY DEF IInv, RoomInv
<1> QED
  BY <1>1, Inductive, PTL

(* Of each kind at most one row is added after a trial has run out          *)
(* (subscription-lifecycle-policy.ts:24).                                   *)
THEOREM AtMostOneLateRow == Spec => []OneLateRow
<1>1. IInv => OneLateRow
  BY DEF IInv, RoomInv, LateInv
<1> QED
  BY <1>1, Inductive, PTL

(* A plan that is not a trial is ACTIVE and has no end                      *)
(* (prisma-organization.repository.ts:365).                                 *)
THEOREM PaidStaysActive == Spec => []PaidNeverExpires
<1>1. IInv => PaidNeverExpires
  BY DEF IInv
<1> QED
  BY <1>1, Inductive, PTL

---------------------------------------------------------------------------
(* Deadlocks *)

(* A call that waits for a call which itself waits: the second waits for a  *)
(* resource further along the canonical order.                              *)
LEMMA LaterWait ==
    ASSUME TypeOK, LockInv, NEW p \in Waiting, holder[WantedBy(p)] \in Waiting
    PROVE  WantedBy(p) < WantedBy(holder[WantedBy(p)])
<1> DEFINE r == WantedBy(p)
           q == holder[r]
<1>1. r \in Resource
  BY CallTypes DEF Waiting, WantedBy, Wanted, WriteCall
<1>2. q \notin Writer
  BY <1>1 DEF Waiting, LockInv, WritersHold, TypeOK
<1>3. q \in Changer /\ change[q].pc = "locking"
  BY <1>2 DEF Waiting
<1>4. r < change[q].next
  BY <1>1, <1>3 DEF LockInv, ChangersHold
<1> QED
  BY <1>2, <1>4 DEF WantedBy, Wanted

(* However many changes of plan and writers wait, some one of them waits    *)
(* for a call that is not waiting: the canonical order of                   *)
(* subscription-plan-changer.ts:254 excludes deadlocks.                     *)
THEOREM NeverDeadlocked == Spec => []NoWaitCycle
<1>1. IInv => NoWaitCycle
  <2> SUFFICES ASSUME IInv, NEW S \in SUBSET Waiting, S # {},
                      \A p \in S : holder[WantedBy(p)] \in S
               PROVE  FALSE
    BY DEF NoWaitCycle
  <2> DEFINE distance(p) == NumResources - WantedBy(p)
  <2>1. \A p \in S : WantedBy(p) \in Resource /\ distance(p) \in Nat
    BY CallTypes, SizeAssumption DEF IInv, Waiting, WantedBy, Wanted, WriteCall
  <2>2. PICK p \in S : \A q \in S : distance(p) <= distance(q)
    <3>1. {distance(p) : p \in S} \in SUBSET Nat
      BY <2>1
    <3>2. {distance(p) : p \in S} # {}
      OBVIOUS
    <3>3. PICK m \in {distance(p) : p \in S} :
             \A k \in {distance(p) : p \in S} : m <= k
      <4> HIDE DEF distance
      <4> DEFINE Distances == {distance(p) : p \in S}
      <4> HIDE DEF Distances
      <4>1. \E m \in Distances : \A k \in Distances : m <= k
        BY <3>1, <3>2, LeastNumber DEF Distances
      <4> QED
        BY <4>1 DEF Distances
    <3> QED
      BY <3>3
  <2>3. holder[WantedBy(p)] \in S /\ WantedBy(p) < WantedBy(holder[WantedBy(p)])
    BY LaterWait DEF IInv
  <2> QED
    BY <2>1, <2>2, <2>3, SizeAssumption
<1> QED
  BY <1>1, Inductive, PTL
---------------------------------------------------------------------------
(* Everything MCAdministration names has its type, for any number of rows,  *)
(* calls, codes and runs, and any plan, sum of points or KeepCount.         *)
THEOREM TypesCorrect == AdministrationSpec => []TypesOK
PROOF
<1>1. Spec => []TypeOK
    BY TypeCorrect
<1>2. Points!Spec => []Points!TypeOK
    <2>1. PointsInv /\ [Points!Next]_(Points!pointVars) => PointsInv'
        BY NextPoints
    <2>2. PointsInv => Points!TypeOK
        BY DEF PointsInv
    <2> QED BY <2>1, <2>2, InitPoints, PTL DEF Points!Spec
<1>3. Grants!Spec => []Grants!TypeOK
    <2>1. GrantsInv => Grants!TypeOK
        BY DEF GrantsInv
    <2> QED BY <2>1, GrantsAssumed, GrantsInductive, PTL
<1>4. Signup!Spec => []Signup!TypeOK
    <2>1. SignupInv => Signup!TypeOK
        BY DEF SignupInv
    <2> QED BY <2>1, SignupAssumed, SignupInductive, PTL
<1>5. Dialog!Spec => []Dialog!TypeOK
    <2>1. DialogInv /\ [Dialog!Next]_(Dialog!dialogVars) => DialogInv'
        BY NextDialog
    <2>2. DialogInv => Dialog!TypeOK
        BY DEF DialogInv
    <2> QED BY <2>1, <2>2, InitDialog, PTL DEF Dialog!Spec
<1>6. Backups!Spec => []Backups!TypeOK
    <2>1. BackupInv /\ [Backups!Next]_(Backups!backupVars) => BackupInv'
        BY NextBackup
    <2>2. BackupInv => Backups!TypeOK
        BY DEF BackupInv
    <2> QED BY <2>1, <2>2, InitBackup, PTL DEF Backups!Spec
<1>7. TypeOK /\ Points!TypeOK /\ Grants!TypeOK /\ Signup!TypeOK /\ Dialog!TypeOK /\ Backups!TypeOK
        => TypesOK
    BY DEF TypesOK
<1> QED BY <1>1, <1>2, <1>3, <1>4, <1>5, <1>6, <1>7, BehavesAsEach, PTL
=============================================================================
