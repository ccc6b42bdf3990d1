------------------------------ MODULE SumTheorems ------------------------------
(***************************************************************************)
(* Lemmas about SumFunctionOnSet of the community modules, which quantities *)
(* and amounts are added up with: what it does to the empty set, to a set   *)
(* that gains or loses an element and to a function that changes at a       *)
(* point; and the least element of a set of numbers.                        *)
(*                                                                          *)
(* Sums over finite sets need induction.  Here it is the existence of a     *)
(* smallest counterexample: a set of finite sets that is not empty has a    *)
(* member that contains no other one.                                       *)
(***************************************************************************)
EXTENDS Integers, Functions, FiniteSetTheorems, WellFoundedInduction, TLAPS

(* Every non-empty set of natural numbers has a least element: among the    *)
(* intervals 0 .. k it spans one is contained in no other.                  *)
LEMMA LeastNumber ==
    ASSUME NEW T \in SUBSET Nat, T # {}
    PROVE  \E m \in T : \A k \in T : m <= k
PROOF
<1> DEFINE Below == {0 .. k : k \in T}
<1>1. Below \subseteq FiniteSubsetsOf(Nat)
    <2> SUFFICES ASSUME NEW k \in T
                 PROVE  0 .. k \in SUBSET Nat /\ IsFiniteSet(0 .. k)
        BY DEF FiniteSubsetsOf
    <2>1. 0 .. k \in SUBSET Nat
        OBVIOUS
    <2> QED
        BY <2>1, 0 \in Int, k \in Int, FS_Interval
<1>2. Below # {}
    <2>1. PICK k \in T : TRUE
        OBVIOUS
    <2>2. 0 .. k \in Below
        OBVIOUS
    <2> QED
        BY <2>2
<1>3. IsWellFoundedOn(StrictSubsetOrdering(Nat), FiniteSubsetsOf(Nat))
    BY FS_StrictSubsetOrderingWellFounded
<1>4. PICK I \in Below :
           \A J \in Below : ~ (<<J, I>> \in StrictSubsetOrdering(Nat))
    <2> HIDE DEF Below
    <2> QED
        BY <1>1, <1>2, <1>3, WFMin
<1>5. PICK m \in T : I = 0 .. m
    OBVIOUS
<1>6. \A k \in T : ~ (k < m)
    <2> SUFFICES ASSUME NEW k \in T, k < m
                 PROVE  FALSE
        OBVIOUS
    <2>1. 0 .. k \in SUBSET Nat /\ 0 .. m \in SUBSET Nat
        OBVIOUS
    <2>2. 0 .. k \subseteq 0 .. m /\ m \in 0 .. m /\ m \notin 0 .. k
        OBVIOUS
    <2>3. <<0 .. k, 0 .. m>> \in StrictSubsetOrdering(Nat)
        BY <2>1, <2>2 DEF StrictSubsetOrdering
    <2> QED
        BY <1>4, <1>5, <2>3
<1> QED
    BY <1>6

(* The element taken first, and what the sums over the subsets of S are.    *)
TakenFirst(s) == CHOOSE x \in s : TRUE
SumsOver(f, S, sums) ==
    sums = [s \in SUBSET S |-> IF s = {} THEN 0 ELSE f[TakenFirst(s)] + sums[s \ {TakenFirst(s)}]]
Sums(f, S) == CHOOSE sums : SumsOver(f, S, sums)

LEMMA SumIsChosen ==
    ASSUME NEW f, NEW S
    PROVE  SumFunctionOnSet(f, S) = Sums(f, S)[S]
BY DEF SumFunctionOnSet, FoldFunctionOnSet, MapThenFoldSet, Sums, SumsOver, TakenFirst

(* A set of subsets of a finite set has a smallest member. *)
LEMMA SmallestSubset ==
    ASSUME NEW S, IsFiniteSet(S), NEW Bad \in SUBSET (SUBSET S), Bad # {}
    PROVE  \E T \in Bad : \A U \in SUBSET T : U # T => U \notin Bad
PROOF
<1>1. IsWellFoundedOn(StrictSubsetOrdering(S), SUBSET S)
    BY FS_StrictSubsetOrderingWellFounded, FS_FiniteSubsetsOfFinite
<1>2. PICK T \in Bad : \A U \in Bad : <<U, T>> \notin StrictSubsetOrdering(S)
    BY <1>1, WFMin
<1>3. ASSUME NEW U \in SUBSET T, U # T, U \in Bad
      PROVE  FALSE
    BY <1>2, <1>3 DEF StrictSubsetOrdering
<1> QED BY <1>2, <1>3

LEMMA FirstIsMember ==
    ASSUME NEW s, s # {}
    PROVE  TakenFirst(s) \in s /\ s \ {TakenFirst(s)} \subseteq s /\ s \ {TakenFirst(s)} # s
BY DEF TakenFirst

LEMMA SumsUnfold ==
    ASSUME NEW f, NEW S, NEW sums, SumsOver(f, S, sums), NEW s \in SUBSET S
    PROVE  sums[s] = IF s = {} THEN 0 ELSE f[TakenFirst(s)] + sums[s \ {TakenFirst(s)}]
BY DEF SumsOver

(* What a subset sums to does not depend on the set it is taken from. *)
LEMMA SumsAgree ==
    ASSUME NEW f, NEW S, NEW T, IsFiniteSet(S), NEW g, NEW h,
           SumsOver(f, S, g), SumsOver(f, T, h)
    PROVE  \A s \in SUBSET S : s \subseteq T => g[s] = h[s]
PROOF
<1> DEFINE Bad == {s \in SUBSET S : s \subseteq T /\ g[s] # h[s]}
<1> SUFFICES ASSUME Bad # {} PROVE FALSE
    OBVIOUS
<1>1. PICK s \in Bad : \A u \in SUBSET s : u # s => u \notin Bad
    <2> HIDE DEF Bad
    <2>1. Bad \in SUBSET (SUBSET S)
        BY DEF Bad
    <2> QED BY <2>1, SmallestSubset
<1>2. s \in SUBSET S /\ s \in SUBSET T /\ g[s] # h[s]
    OBVIOUS
<1>3. s # {}
    BY <1>2, SumsUnfold
<1>4. /\ s \ {TakenFirst(s)} \in SUBSET s /\ s \ {TakenFirst(s)} # s
      /\ s \ {TakenFirst(s)} \in SUBSET S /\ s \ {TakenFirst(s)} \in SUBSET T
    BY <1>2, <1>3, FirstIsMember
<1>5. g[s \ {TakenFirst(s)}] = h[s \ {TakenFirst(s)}]
    BY <1>1, <1>4
<1> HIDE DEF Bad
<1>6. \A sums, U : SumsOver(f, U, sums) /\ s \in SUBSET U
                => sums[s] = f[TakenFirst(s)] + sums[s \ {TakenFirst(s)}]
    <2> TAKE sums, U
    <2> HAVE SumsOver(f, U, sums) /\ s \in SUBSET U
    <2>1. sums[s] = IF s = {} THEN 0 ELSE f[TakenFirst(s)] + sums[s \ {TakenFirst(s)}]
        BY SumsUnfold
    <2> QED BY <1>3, <2>1
<1>7. /\ g[s] = f[TakenFirst(s)] + g[s \ {TakenFirst(s)}]
      /\ h[s] = f[TakenFirst(s)] + h[s \ {TakenFirst(s)}]
    BY <1>2, <1>6
<1> QED BY <1>2, <1>5, <1>7

(* The sums over the subsets of S, put together from those over its strict  *)
(* subsets.                                                                 *)
LEMMA SumsExtend ==
    ASSUME NEW f, NEW S, IsFiniteSet(S),
           \A s \in SUBSET S : s # S => SumsOver(f, s, Sums(f, s))
    PROVE  \E sums : SumsOver(f, S, sums)
PROOF
<1> DEFINE rest(s) == s \ {TakenFirst(s)}
           whole == IF S = {} THEN 0 ELSE f[TakenFirst(S)] + Sums(f, rest(S))[rest(S)]
           sums == [s \in SUBSET S |-> IF s = S THEN whole ELSE Sums(f, s)[s]]
<1>1. ASSUME NEW s \in SUBSET S
      PROVE  sums[s] = IF s = {} THEN 0 ELSE f[TakenFirst(s)] + sums[rest(s)]
    <2>1. CASE s = {}
        <3>1. s # S => Sums(f, s)[s] = 0
            BY <2>1, SumsUnfold
        <3> QED BY <2>1, <3>1
    <2>2. CASE s # {}
        <3>1. rest(s) \in SUBSET s /\ rest(s) # s /\ rest(s) \in SUBSET S /\ rest(s) # S
            BY <2>2, FirstIsMember
        <3>2. sums[rest(s)] = Sums(f, rest(s))[rest(s)]
            BY <3>1
        <3>3. CASE s = S
            BY <2>2, <3>2, <3>3
        <3>4. CASE s # S
            <4>1. sums[s] = f[TakenFirst(s)] + Sums(f, s)[rest(s)]
                <5>1. SumsOver(f, s, Sums(f, s))
                    BY <3>4
                <5>2. Sums(f, s)[s] = f[TakenFirst(s)] + Sums(f, s)[rest(s)]
                    BY <2>2, <5>1, SumsUnfold
                <5> QED BY <3>4, <5>2
            <4>2. Sums(f, rest(s))[rest(s)] = Sums(f, s)[rest(s)]
                <5>1. IsFiniteSet(rest(s))
                    BY <3>1, FS_Subset
                <5>2. SumsOver(f, rest(s), Sums(f, rest(s))) /\ SumsOver(f, s, Sums(f, s))
                    BY <3>1, <3>4
                <5> HIDE DEF rest
                <5> QED BY <3>1, <5>1, <5>2, SumsAgree
            <4> QED BY <2>2, <3>2, <4>1, <4>2
        <3> QED BY <3>3, <3>4
    <2> QED BY <2>1, <2>2
<1>2. SumsOver(f, S, sums)
    <2> HIDE DEF whole
    <2>1. sums = [s \in SUBSET S |-> sums[s]]
        OBVIOUS
    <2> HIDE DEF sums
    <2> QED BY <1>1, <2>1 DEF SumsOver
<1> QED BY <1>2

LEMMA SumsExist ==
    ASSUME NEW f, NEW S, IsFiniteSet(S)
    PROVE  SumsOver(f, S, Sums(f, S))
PROOF
<1> DEFINE Bad == {s \in SUBSET S : ~SumsOver(f, s, Sums(f, s))}
<1> SUFFICES ASSUME Bad # {} PROVE FALSE
    OBVIOUS
<1>1. PICK s \in Bad : \A u \in SUBSET s : u # s => u \notin Bad
    <2> HIDE DEF Bad
    <2>1. Bad \in SUBSET (SUBSET S)
        BY DEF Bad
    <2> QED BY <2>1, SmallestSubset
<1>2. IsFiniteSet(s) /\ \A u \in SUBSET s : u # s => SumsOver(f, u, Sums(f, u))
    BY <1>1, FS_Subset
<1>3. \E sums : SumsOver(f, s, sums)
    BY <1>2, SumsExtend
<1>4. SumsOver(f, s, Sums(f, s))
    BY <1>3 DEF Sums
<1> QED BY <1>1, <1>4

---------------------------------------------------------------------------
(* The facts the other proofs cite *)

LEMMA SumEmpty ==
    ASSUME NEW f
    PROVE  SumFunctionOnSet(f, {}) = 0
BY SumIsChosen, SumsExist, SumsUnfold, FS_EmptySet

LEMMA SumFirst ==
    ASSUME NEW f, NEW S, IsFiniteSet(S), S # {}
    PROVE  SumFunctionOnSet(f, S) = f[TakenFirst(S)] + SumFunctionOnSet(f, S \ {TakenFirst(S)})
PROOF
<1> DEFINE R == S \ {TakenFirst(S)}
<1>1. R \in SUBSET S /\ IsFiniteSet(R)
    BY FS_Subset
<1>2. SumsOver(f, S, Sums(f, S)) /\ SumsOver(f, R, Sums(f, R))
    BY <1>1, SumsExist
<1>3. Sums(f, S)[S] = f[TakenFirst(S)] + Sums(f, S)[R]
    BY <1>2, SumsUnfold
<1>4. Sums(f, R)[R] = Sums(f, S)[R]
    <2> HIDE DEF R
    <2> QED BY <1>1, <1>2, SumsAgree
<1> QED BY <1>3, <1>4, SumIsChosen

(* A sum of integers is one, and of naturals too. *)
LEMMA SumType ==
    ASSUME NEW f, NEW S, IsFiniteSet(S), NEW N, N \in {Int, Nat}, \A x \in S : f[x] \in N
    PROVE  SumFunctionOnSet(f, S) \in N
PROOF
<1> DEFINE Bad == {s \in SUBSET S : SumFunctionOnSet(f, s) \notin N}
<1> SUFFICES ASSUME Bad # {} PROVE FALSE
    OBVIOUS
<1>1. PICK s \in Bad : \A u \in SUBSET s : u # s => u \notin Bad
    <2> HIDE DEF Bad
    <2>1. Bad \in SUBSET (SUBSET S)
        BY DEF Bad
    <2> QED BY <2>1, SmallestSubset
<1>2. IsFiniteSet(s) /\ s # {}
    <2>1. IsFiniteSet(s)
        BY FS_Subset
    <2> QED BY <2>1, SumEmpty
<1>3. TakenFirst(s) \in S /\ s \ {TakenFirst(s)} \in SUBSET s /\ s \ {TakenFirst(s)} # s
    BY <1>1, <1>2, FirstIsMember
<1>4. SumFunctionOnSet(f, s \ {TakenFirst(s)}) \in N /\ f[TakenFirst(s)] \in N
    BY <1>1, <1>3
<1>5. SumFunctionOnSet(f, s) \in N
    <2> HIDE DEF Bad
    <2> QED BY <1>2, <1>4, SumFirst
<1> QED BY <1>1, <1>5

(* The sum depends on the values at the elements of the set alone. *)
LEMMA SumSame ==
    ASSUME NEW f, NEW g, NEW S, IsFiniteSet(S), \A x \in S : f[x] = g[x]
    PROVE  SumFunctionOnSet(f, S) = SumFunctionOnSet(g, S)
PROOF
<1> DEFINE Bad == {s \in SUBSET S : SumFunctionOnSet(f, s) # SumFunctionOnSet(g, s)}
<1> SUFFICES ASSUME Bad # {} PROVE FALSE
    OBVIOUS
<1>1. PICK s \in Bad : \A u \in SUBSET s : u # s => u \notin Bad
    <2> HIDE DEF Bad
    <2>1. Bad \in SUBSET (SUBSET S)
        BY DEF Bad
    <2> QED BY <2>1, SmallestSubset
<1>2. IsFiniteSet(s) /\ s # {}
    <2>1. IsFiniteSet(s)
        BY FS_Subset
    <2> QED BY <2>1, SumEmpty
<1>3. TakenFirst(s) \in S /\ s \ {TakenFirst(s)} \in SUBSET s /\ s \ {TakenFirst(s)} # s
    BY <1>1, <1>2, FirstIsMember
<1>4. /\ SumFunctionOnSet(f, s \ {TakenFirst(s)}) = SumFunctionOnSet(g, s \ {TakenFirst(s)})
      /\ f[TakenFirst(s)] = g[TakenFirst(s)]
    BY <1>1, <1>3
<1>5. SumFunctionOnSet(f, s) = SumFunctionOnSet(g, s)
    <2> HIDE DEF Bad
    <2> QED BY <1>2, <1>4, SumFirst
<1> QED BY <1>1, <1>5

(* One more element. *)
LEMMA SumAdd ==
    ASSUME NEW f, NEW S, IsFiniteSet(S), NEW x, x \notin S, f[x] \in Int,
           \A y \in S : f[y] \in Int
    PROVE  SumFunctionOnSet(f, S \cup {x}) = SumFunctionOnSet(f, S) + f[x]
PROOF
<1> DEFINE Sum(s) == SumFunctionOnSet(f, s)
           Bad == {s \in SUBSET S : \E y \in (S \cup {x}) \ s : Sum(s \cup {y}) # Sum(s) + f[y]}
<1> HIDE DEF Sum
<1>1. \A s \in SUBSET (S \cup {x}) : IsFiniteSet(s) /\ Sum(s) \in Int
    BY FS_AddElement, FS_Subset, SumType DEF Sum
<1>2. \A s \in SUBSET (S \cup {x}) : s # {} =>
        TakenFirst(s) \in s /\ Sum(s) = f[TakenFirst(s)] + Sum(s \ {TakenFirst(s)})
    BY <1>1, SumFirst, FirstIsMember DEF Sum
<1>3. ASSUME Bad # {} PROVE FALSE
    <2>1. PICK s \in Bad : \A u \in SUBSET s : u # s => u \notin Bad
        <3> HIDE DEF Bad
        <3>1. Bad \in SUBSET (SUBSET S)
            BY DEF Bad
        <3> QED BY <1>3, <3>1, SmallestSubset
    <2>2. PICK y \in (S \cup {x}) \ s : Sum(s \cup {y}) # Sum(s) + f[y]
        BY <2>1
    <2> DEFINE all == s \cup {y}
               z == TakenFirst(all)
               r == s \ {z}
    <2>3. z \in all /\ Sum(all) = f[z] + Sum(all \ {z}) /\ all \in SUBSET (S \cup {x})
        BY <1>2, <2>1, <2>2
    <2> HIDE DEF z
    <2>4. CASE z = y
        <3>1. all \ {z} = s
            BY <2>2, <2>4
        <3>2. f[y] \in Int /\ Sum(s) \in Int
            BY <1>1, <2>1, <2>2
        <3>3. Sum(all) = f[y] + Sum(s)
            BY <2>3, <2>4, <3>1
        <3> QED BY <2>2, <3>2, <3>3
    <2>5. CASE z # y
        <3>1. z \in s /\ r \in SUBSET s /\ r # s /\ r \in SUBSET S /\ y \notin r /\ z \notin r
            BY <2>1, <2>2, <2>3, <2>5
        <3>2. \A u \in (S \cup {x}) \ r : Sum(r \cup {u}) = Sum(r) + f[u]
            BY <2>1, <3>1
        <3>3. Sum(r \cup {y}) = Sum(r) + f[y] /\ Sum(r \cup {z}) = Sum(r) + f[z]
            BY <2>1, <2>2, <3>1, <3>2
        <3>4. all \ {z} = r \cup {y} /\ s = r \cup {z}
            BY <2>2, <2>5, <3>1
        <3>5. f[y] \in Int /\ f[z] \in Int /\ Sum(r) \in Int
            BY <1>1, <2>1, <2>2, <3>1
        <3>6. Sum(all) = f[z] + Sum(r \cup {y}) /\ Sum(s) = Sum(r) + f[z]
            BY <2>3, <3>3, <3>4
        <3> HIDE DEF r, Bad
        <3> QED BY <2>2, <3>3, <3>5, <3>6
    <2> QED BY <2>4, <2>5
<1>4. S \notin Bad
    BY <1>3
<1> QED BY <1>4 DEF Sum

(* One element less. *)
LEMMA SumRemove ==
    ASSUME NEW f, NEW S, IsFiniteSet(S), NEW x \in S, \A y \in S : f[y] \in Int
    PROVE  SumFunctionOnSet(f, S \ {x}) = SumFunctionOnSet(f, S) - f[x]
PROOF
<1> DEFINE R == S \ {x}
<1>1. IsFiniteSet(R) /\ x \notin R /\ S = R \cup {x} /\ \A y \in R : f[y] \in Int
    BY FS_RemoveElement
<1>2. SumFunctionOnSet(f, R) \in Int /\ f[x] \in Int
    BY <1>1, SumType
<1>3. SumFunctionOnSet(f, S) = SumFunctionOnSet(f, R) + f[x]
    <2> HIDE DEF R
    <2> QED BY <1>1, <1>2, SumAdd
<1> QED BY <1>2, <1>3

(* The value at one element changes. *)
LEMMA SumChange ==
    ASSUME NEW f, NEW g, NEW S, IsFiniteSet(S), NEW x \in S,
           \A y \in S : f[y] \in Int /\ g[y] \in Int,
           \A y \in S : y # x => g[y] = f[y]
    PROVE  SumFunctionOnSet(g, S) = SumFunctionOnSet(f, S) - f[x] + g[x]
PROOF
<1> DEFINE R == S \ {x}
<1>1. IsFiniteSet(R) /\ \A y \in R : y \in S /\ f[y] = g[y]
    BY FS_RemoveElement
<1>2. SumFunctionOnSet(f, R) = SumFunctionOnSet(g, R)
    <2> HIDE DEF R
    <2> QED BY <1>1, SumSame
<1>3. /\ SumFunctionOnSet(f, R) = SumFunctionOnSet(f, S) - f[x]
      /\ SumFunctionOnSet(g, R) = SumFunctionOnSet(g, S) - g[x]
    BY SumRemove
<1>4. SumFunctionOnSet(f, S) \in Int /\ SumFunctionOnSet(g, S) \in Int
    BY SumType
<1> QED BY <1>2, <1>3, <1>4

(* Term by term at most as much. *)
LEMMA SumWithin ==
    ASSUME NEW f, NEW g, NEW S, IsFiniteSet(S),
           \A x \in S : f[x] \in Int /\ g[x] \in Int /\ f[x] <= g[x]
    PROVE  SumFunctionOnSet(f, S) <= SumFunctionOnSet(g, S)
PROOF
<1> DEFINE Bad == {s \in SUBSET S : ~(SumFunctionOnSet(f, s) <= SumFunctionOnSet(g, s))}
<1> SUFFICES ASSUME Bad # {} PROVE FALSE
    OBVIOUS
<1>1. PICK s \in Bad : \A u \in SUBSET s : u # s => u \notin Bad
    <2> HIDE DEF Bad
    <2>1. Bad \in SUBSET (SUBSET S)
        BY DEF Bad
    <2> QED BY <2>1, SmallestSubset
<1>2. IsFiniteSet(s) /\ s # {}
    <2>1. IsFiniteSet(s)
        BY FS_Subset
    <2> QED BY <2>1, SumEmpty
<1>3. TakenFirst(s) \in S /\ s \ {TakenFirst(s)} \in SUBSET s /\ s \ {TakenFirst(s)} # s
    BY <1>1, <1>2, FirstIsMember
<1> DEFINE R == s \ {TakenFirst(s)}
<1>4. IsFiniteSet(R) /\ R \subseteq S
    BY <1>1, <1>2, <1>3, FS_Subset
<1>5. SumFunctionOnSet(f, R) \in Int /\ SumFunctionOnSet(g, R) \in Int
    <2> HIDE DEF R
    <2> QED BY <1>4, SumType
<1>6. /\ SumFunctionOnSet(f, R) <= SumFunctionOnSet(g, R)
      /\ f[TakenFirst(s)] <= g[TakenFirst(s)] /\ f[TakenFirst(s)] \in Int /\ g[TakenFirst(s)] \in Int
    BY <1>1, <1>3
<1>7. /\ SumFunctionOnSet(f, s) = f[TakenFirst(s)] + SumFunctionOnSet(f, R)
      /\ SumFunctionOnSet(g, s) = g[TakenFirst(s)] + SumFunctionOnSet(g, R)
    BY <1>2, SumFirst
<1>8. SumFunctionOnSet(f, s) <= SumFunctionOnSet(g, s)
    <2> HIDE DEF Bad, R
    <2> QED BY <1>5, <1>6, <1>7
<1> QED BY <1>1, <1>8

(* A part of naturals is at most the whole. *)
LEMMA SumPart ==
    ASSUME NEW f, NEW S, IsFiniteSet(S), NEW T \in SUBSET S, \A x \in S : f[x] \in Nat
    PROVE  SumFunctionOnSet(f, T) <= SumFunctionOnSet(f, S)
PROOF
<1> DEFINE Bad == {s \in SUBSET S :
                    T \subseteq s /\ ~(SumFunctionOnSet(f, T) <= SumFunctionOnSet(f, s))}
<1> SUFFICES ASSUME Bad # {} PROVE FALSE
    OBVIOUS
<1>1. PICK s \in Bad : \A u \in SUBSET s : u # s => u \notin Bad
    <2> HIDE DEF Bad
    <2>1. Bad \in SUBSET (SUBSET S)
        BY DEF Bad
    <2> QED BY <2>1, SmallestSubset
<1>2. IsFiniteSet(s) /\ T \subseteq s
    BY <1>1, FS_Subset
<1>3. /\ SumFunctionOnSet(f, s) \in Nat
      /\ ~(SumFunctionOnSet(f, T) <= SumFunctionOnSet(f, s))
    BY <1>1, <1>2, SumType
<1>4. PICK x \in s : x \notin T
    BY <1>2, <1>3
<1>5. SumFunctionOnSet(f, T) <= SumFunctionOnSet(f, s \ {x})
    BY <1>1, <1>2, <1>4
<1>6. SumFunctionOnSet(f, s \ {x}) = SumFunctionOnSet(f, s) - f[x] /\ f[x] \in Nat
    BY <1>1, <1>2, <1>4, SumRemove
<1>7. IsFiniteSet(T) /\ SumFunctionOnSet(f, T) \in Nat
    BY FS_Subset, SumType
<1> QED BY <1>3, <1>5, <1>6, <1>7

(* Zeros outside a part add nothing. *)
LEMMA SumSupport ==
    ASSUME NEW f, NEW S, IsFiniteSet(S), NEW T \in SUBSET S, \A x \in S : f[x] \in Int,
           \A x \in S : x \notin T => f[x] = 0
    PROVE  SumFunctionOnSet(f, S) = SumFunctionOnSet(f, T)
PROOF
<1> DEFINE Bad == {s \in SUBSET S :
                    T \subseteq s /\ SumFunctionOnSet(f, s) # SumFunctionOnSet(f, T)}
<1> SUFFICES ASSUME Bad # {} PROVE FALSE
    OBVIOUS
<1>1. PICK s \in Bad : \A u \in SUBSET s : u # s => u \notin Bad
    <2> HIDE DEF Bad
    <2>1. Bad \in SUBSET (SUBSET S)
        BY DEF Bad
    <2> QED BY <2>1, SmallestSubset
<1>2. IsFiniteSet(s) /\ T \subseteq s /\ s \subseteq S
    BY <1>1, FS_Subset
<1>3. SumFunctionOnSet(f, s) \in Int /\ SumFunctionOnSet(f, s) # SumFunctionOnSet(f, T)
    BY <1>1, <1>2, SumType
<1>4. PICK x \in s : x \notin T
    BY <1>2, <1>3
<1>5. SumFunctionOnSet(f, s \ {x}) = SumFunctionOnSet(f, T)
    BY <1>1, <1>2, <1>4
<1>6. SumFunctionOnSet(f, s \ {x}) = SumFunctionOnSet(f, s) - f[x]
    BY <1>1, <1>2, <1>4, SumRemove
<1>7. f[x] = 0
    BY <1>2, <1>4
<1> HIDE DEF Bad
<1> QED BY <1>3, <1>5, <1>6, <1>7

(* Nothing but zeros. *)
LEMMA SumZeros ==
    ASSUME NEW f, NEW S, IsFiniteSet(S), \A x \in S : f[x] = 0
    PROVE  SumFunctionOnSet(f, S) = 0
PROOF
<1>1. {} \in SUBSET S /\ \A x \in S : f[x] \in Int
    OBVIOUS
<1> QED BY <1>1, SumSupport, SumEmpty

(* One term and nothing but zeros. *)
LEMMA SumSingle ==
    ASSUME NEW f, NEW S, IsFiniteSet(S), NEW x \in S, f[x] \in Int,
           \A y \in S : y # x => f[y] = 0
    PROVE  SumFunctionOnSet(f, S) = f[x]
PROOF
<1>1. IsFiniteSet(S \ {x}) /\ \A y \in S \ {x} : f[y] = 0
    BY FS_Subset
<1>2. SumFunctionOnSet(f, S \ {x}) = 0
    BY <1>1, SumZeros
<1>3. \A y \in S : f[y] \in Int
    OBVIOUS
<1>4. SumFunctionOnSet(f, S \ {x}) = SumFunctionOnSet(f, S) - f[x] /\ SumFunctionOnSet(f, S) \in Int
    BY <1>3, SumRemove, SumType
<1> QED BY <1>2, <1>4

(* A function that changes at a point, over a set that gains the point, loses it or neither. *)
LEMMA SumUpdate ==
    ASSUME NEW f, NEW g, NEW S, NEW T, IsFiniteSet(S), NEW x, S \ {x} = T \ {x},
           \A y \in S : f[y] \in Int, \A y \in T : g[y] \in Int,
           \A y \in S : y # x => g[y] = f[y],
           NEW lost, lost = IF x \in S THEN f[x] ELSE 0,
           NEW gained, gained = IF x \in T THEN g[x] ELSE 0
    PROVE  /\ IsFiniteSet(T)
           /\ SumFunctionOnSet(g, T) = SumFunctionOnSet(f, S) - lost + gained
PROOF
<1> DEFINE R == S \ {x}
<1>1. /\ IsFiniteSet(R) /\ x \notin R /\ \A y \in R : y \in S /\ y \in T /\ f[y] = g[y]
      /\ (x \in S => S = R \cup {x}) /\ (x \notin S => S = R)
      /\ (x \in T => T = R \cup {x}) /\ (x \notin T => T = R)
    BY FS_RemoveElement
<1>2. \A y \in R : f[y] \in Int /\ g[y] \in Int
    BY <1>1
<1>3. IsFiniteSet(T)
    BY <1>1, FS_AddElement
<1> HIDE DEF R
<1>4. SumFunctionOnSet(f, R) = SumFunctionOnSet(g, R) /\ SumFunctionOnSet(f, R) \in Int
    BY <1>1, <1>2, SumSame, SumType
<1>5. SumFunctionOnSet(f, S) = SumFunctionOnSet(f, R) + lost
    <2>1. CASE x \in S
        <3>1. f[x] \in Int
            BY <2>1
        <3>2. SumFunctionOnSet(f, R \cup {x}) = SumFunctionOnSet(f, R) + f[x]
            BY <1>1, <1>2, <3>1, SumAdd
        <3> QED BY <1>1, <2>1, <3>2
    <2>2. CASE x \notin S
        BY <1>1, <1>4, <2>2
    <2> QED BY <2>1, <2>2
<1>6. SumFunctionOnSet(g, T) = SumFunctionOnSet(g, R) + gained
    <2>1. CASE x \in T
        <3>1. g[x] \in Int
            BY <2>1
        <3>2. SumFunctionOnSet(g, R \cup {x}) = SumFunctionOnSet(g, R) + g[x]
            BY <1>1, <1>2, <3>1, SumAdd
        <3> QED BY <1>1, <2>1, <3>2
    <2>2. CASE x \notin T
        BY <1>1, <1>4, <2>2
    <2> QED BY <2>1, <2>2
<1>7. lost \in Int /\ gained \in Int
    OBVIOUS
<1>8. SumFunctionOnSet(g, T) = SumFunctionOnSet(f, S) - lost + gained
    BY <1>4, <1>5, <1>6, <1>7
<1> QED BY <1>3, <1>8
=============================================================================
