------------------------------ MODULE FiniteOrders ------------------------------
(***************************************************************************)
(* Facts about finite sets of numbers that the proofs about the snapshots,  *)
(* the cache, the selectors and the engine rest on: a finite set of naturals *)
(* has a greatest member, its members can be listed in increasing order,    *)
(* what every step keeps holds after each of them, going through a list     *)
(* from the left is well defined, and sorting puts one at each place.  The  *)
(* induction is over sets, so that no operator has to be instantiated: the  *)
(* least counterexample is shown not to be one.                             *)
(***************************************************************************)
EXTENDS Naturals, FiniteSetTheorems, TLAPS

\* The lists of the members of K in increasing order.
Increasing(p) == \A i, j \in DOMAIN p : i < j => p[i] < p[j]
Listings(K) == {p \in [1 .. Cardinality(K) -> K] : Increasing(p)}

--------------------------------------------------------------------------------
\* Every finite set of naturals that has a member has a greatest one.
LEMMA GreatestNatural ==
    ASSUME NEW S \in SUBSET Nat, IsFiniteSet(S), S # {}
    PROVE  \E n \in S : \A m \in S : m <= n
<1> DEFINE NoMax(K) == K # {} /\ ~\E n \in K : \A m \in K : m <= n
           T == {K \in SUBSET S : NoMax(K)}
           F == FiniteSubsetsOf(S)
<1> SUFFICES ASSUME T # {} PROVE FALSE
    <2>1. S \in SUBSET S
        OBVIOUS
    <2>2. S \notin T
        OBVIOUS
    <2> QED BY <2>1, <2>2
<1>1. T \subseteq F
    BY FS_FiniteSubsetsOfFinite
<1>2. IsWellFoundedOn(StrictSubsetOrdering(S), F)
    BY FS_StrictSubsetOrderingWellFounded
<1> HIDE DEF F
<1>3. PICK K \in T : \A L \in T : <<L, K>> \notin StrictSubsetOrdering(S)
    <2> HIDE DEF T
    <2> QED BY <1>1, <1>2, WFMin
<1>4. K \in SUBSET S /\ K # {}
    OBVIOUS
<1>5. PICK k \in K : TRUE
    BY <1>4
<1>6. K \ {k} \notin T
    <2>1. <<K \ {k}, K>> \in StrictSubsetOrdering(S)
        BY <1>4, <1>5 DEF StrictSubsetOrdering
    <2> QED BY <1>3, <2>1
<1>7. CASE K \ {k} = {}
    <2>1. \A m \in K : m <= k
        BY <1>4, <1>7
    <2> QED BY <2>1
<1>8. CASE K \ {k} # {}
    <2>1. PICK n \in K \ {k} : \A m \in K \ {k} : m <= n
        BY <1>4, <1>6, <1>8
    <2>2. k \in Nat /\ n \in Nat /\ \A m \in K : m \in Nat
        BY <1>4
    <2>3. CASE k <= n
        BY <2>1, <2>3
    <2>4. CASE n < k
        <3>1. \A m \in K : m <= k
            BY <2>1, <2>2, <2>4
        <3> QED BY <3>1
    <2> QED BY <2>2, <2>3, <2>4
<1> QED BY <1>7, <1>8

\* The members of a finite set of naturals can be listed in increasing order.
LEMMA ListingExists ==
    ASSUME NEW S \in SUBSET Nat, IsFiniteSet(S)
    PROVE  Listings(S) # {}
<1> DEFINE T == {K \in SUBSET S : Listings(K) = {}}
           F == FiniteSubsetsOf(S)
<1> SUFFICES ASSUME T # {} PROVE FALSE
    OBVIOUS
<1>1. T \subseteq F
    BY FS_FiniteSubsetsOfFinite
<1>2. IsWellFoundedOn(StrictSubsetOrdering(S), F)
    BY FS_StrictSubsetOrderingWellFounded
<1> HIDE DEF F
<1>3. PICK K \in T : \A L \in T : <<L, K>> \notin StrictSubsetOrdering(S)
    <2> HIDE DEF T
    <2> QED BY <1>1, <1>2, WFMin
<1>4. K \in SUBSET S /\ Listings(K) = {} /\ IsFiniteSet(K)
    BY FS_Subset
<1>5. CASE K = {}
    <2>1. Cardinality(K) = 0
        BY <1>5, FS_EmptySet
    <2>2. <<>> \in [1 .. 0 -> K] /\ Increasing(<<>>)
        BY DEF Increasing
    <2> QED BY <1>4, <2>1, <2>2 DEF Listings
<1>6. CASE K # {}
    <2>1. PICK k \in K : \A m \in K : m <= k
        <3>1. K \in SUBSET Nat
            BY <1>4
        <3> QED BY <1>4, <1>6, <3>1, GreatestNatural
    <2> DEFINE L == K \ {k}
               c == Cardinality(L)
    <2>2. L \notin T
        <3>1. <<L, K>> \in StrictSubsetOrdering(S)
            BY <1>4, <2>1 DEF StrictSubsetOrdering
        <3> QED BY <1>3, <3>1
    <2>3. c \in Nat /\ Cardinality(K) = c + 1
        <3>1. IsFiniteSet(L) /\ c = Cardinality(K) - 1
            BY <1>4, <2>1, FS_RemoveElement
        <3>2. c \in Nat /\ Cardinality(K) \in Nat
            BY <1>4, <3>1, FS_CardinalityType
        <3> QED BY <3>1, <3>2
    <2>4. PICK p \in Listings(L) : TRUE
        BY <1>4, <2>2
    <2>5. p \in [1 .. c -> L] /\ \A i, j \in 1 .. c : i < j => p[i] < p[j]
        BY <2>4 DEF Listings, Increasing
    <2> HIDE DEF c
    <2> DEFINE q == [i \in 1 .. c + 1 |-> IF i = c + 1 THEN k ELSE p[i]]
    <2>6. q \in [1 .. c + 1 -> K]
        BY <2>1, <2>3, <2>5
    <2>7. ASSUME NEW i \in 1 .. c + 1, NEW j \in 1 .. c + 1, i < j
          PROVE  q[i] < q[j]
        <3>1. i \in 1 .. c /\ q[i] = p[i] /\ p[i] \in L
            BY <2>3, <2>5, <2>7
        <3>2. CASE j = c + 1
            <4>1. p[i] \in Nat /\ k \in Nat /\ p[i] <= k /\ p[i] # k
                BY <1>4, <2>1, <3>1
            <4> QED BY <3>1, <3>2, <4>1, <2>3
        <3>3. CASE j # c + 1
            <4>1. j \in 1 .. c /\ q[j] = p[j]
                BY <2>3, <3>3
            <4> QED BY <2>5, <2>7, <3>1, <4>1
        <3> QED BY <3>2, <3>3
    <2>8. Increasing(q)
        <3>1. DOMAIN q = 1 .. c + 1
            OBVIOUS
        <3> HIDE DEF q
        <3> QED BY <2>7, <3>1 DEF Increasing
    <2> HIDE DEF q
    <2>9. q \in Listings(K)
        BY <2>3, <2>6, <2>8 DEF Listings
    <2> QED BY <1>4, <2>9
<1> QED BY <1>5, <1>6

\* Such a list has every member, and has it once.
LEMMA ListingFacts ==
    ASSUME NEW K \in SUBSET Nat, IsFiniteSet(K), NEW p \in Listings(K)
    PROVE  /\ DOMAIN p = 1 .. Cardinality(K) /\ Cardinality(K) \in Nat
           /\ \A i \in DOMAIN p : p[i] \in K
           /\ \A i, j \in DOMAIN p : p[i] = p[j] => i = j
           /\ \A k \in K : \E i \in DOMAIN p : p[i] = k
<1> DEFINE c == Cardinality(K)
<1>1. c \in Nat
    BY FS_CardinalityType
<1> HIDE DEF c
<1>2. p \in [1 .. c -> K] /\ \A i, j \in 1 .. c : i < j => p[i] < p[j]
    BY DEF Listings, Increasing, c
<1>3. \A i, j \in 1 .. c : p[i] = p[j] => i = j
    <2> SUFFICES ASSUME NEW i \in 1 .. c, NEW j \in 1 .. c, i < j
                 PROVE  p[i] # p[j]
        BY <1>1
    <2>1. p[i] < p[j] /\ p[i] \in Nat /\ p[j] \in Nat
        BY <1>2
    <2> QED BY <2>1
<1>4. p \in Injection(1 .. c, K)
    BY <1>2, <1>3 DEF Injection, IsInjective
<1>5. Cardinality(1 .. c) = c
    BY <1>1, FS_Interval
<1>6. p \in Surjection(1 .. c, K)
    BY <1>4, <1>5, FS_Injection DEF c
<1>7. \A k \in K : \E i \in 1 .. c : p[i] = k
    BY <1>6 DEF Surjection
<1> QED BY <1>1, <1>2, <1>3, <1>7 DEF c
--------------------------------------------------------------------------------
\* A set of naturals that has a member has a least one.
LEMMA LeastNatural ==
    ASSUME NEW S \in SUBSET Nat, S # {}
    PROVE  \E n \in S : \A m \in S : n <= m
<1>1. PICK b \in S : TRUE
    OBVIOUS
<1> DEFINE Mirror == {b - m : m \in {k \in S : k <= b}}
<1>2. Mirror \subseteq 0 .. b /\ 0 \in Mirror
    BY <1>1
<1>3. IsFiniteSet(0 .. b)
    BY FS_Interval
<1>4. IsFiniteSet(Mirror) /\ Mirror \in SUBSET Nat /\ Mirror # {}
    BY <1>1, <1>2, <1>3, FS_Subset
<1>5. PICK g \in Mirror : \A m \in Mirror : m <= g
    <2> HIDE DEF Mirror
    <2> QED BY <1>4, GreatestNatural
<1>6. PICK n \in S : n <= b /\ g = b - n
    BY <1>5
<1>7. ASSUME NEW m \in S PROVE n <= m
    <2>1. CASE m <= b
        BY <1>1, <1>5, <1>6, <2>1
    <2>2. CASE b < m
        BY <1>1, <1>6, <2>2
    <2> QED BY <1>1, <2>1, <2>2
<1> QED BY <1>7

--------------------------------------------------------------------------------
(* Going through a list from the left, step by step.  FoldLeft of the community *)
(* modules is defined by a function on the sets of positions that takes the     *)
(* greatest position last; the facts say that such a function exists, and what  *)
(* it is on the positions 1 .. k.                                               *)

\* The greatest member of a set of positions.
Greatest(s) == CHOOSE x \in s : \A y \in s : x >= y
\* it goes through the positions in S with the step F, from base.
Goes(it, S, base, F) ==
    it = [s \in SUBSET S |-> IF s = {} THEN base ELSE F[<<Greatest(s), it[s \ {Greatest(s)}]>>]]

\* The greatest member is one, and the greatest.
LEMMA GreatestFacts ==
    ASSUME NEW n \in Nat, NEW s \in SUBSET (1 .. n), s # {}
    PROVE  Greatest(s) \in s /\ \A y \in s : y <= Greatest(s)
<1>1. IsFiniteSet(s) /\ s \in SUBSET Nat
    <2>1. IsFiniteSet(1 .. n)
        BY FS_Interval
    <2>2. IsFiniteSet(s)
        BY <2>1, FS_Subset
    <2> QED BY <2>2
<1>2. PICK x \in s : \A y \in s : y <= x
    BY <1>1, GreatestNatural
<1>3. \A y \in s : x >= y
    BY <1>1, <1>2
<1> QED BY <1>1, <1>3 DEF Greatest

\* Whatever a step does, there is a function that goes through n positions with it.
LEMMA GoingExists ==
    ASSUME NEW n \in Nat, NEW A, NEW base \in A, NEW F \in [(1 .. n) \X A -> A]
    PROVE  \E it \in [SUBSET (1 .. n) -> A] : Goes(it, 1 .. n, base, F)
<1> DEFINE Bad == {k \in 0 .. n : ~\E it \in [SUBSET (1 .. k) -> A] : Goes(it, 1 .. k, base, F)}
<1> SUFFICES ASSUME Bad # {} PROVE FALSE
    <2>1. n \in 0 .. n
        OBVIOUS
    <2>2. n \notin Bad => \E it \in [SUBSET (1 .. n) -> A] : Goes(it, 1 .. n, base, F)
        BY <2>1
    <2> HIDE DEF Bad
    <2> QED BY <2>2
<1>1. PICK k \in Bad : \A m \in Bad : k <= m
    <2>1. Bad \in SUBSET Nat
        OBVIOUS
    <2> HIDE DEF Bad
    <2> QED BY <2>1, LeastNatural
<1>2. k \in 0 .. n /\ ~\E it \in [SUBSET (1 .. k) -> A] : Goes(it, 1 .. k, base, F)
    OBVIOUS
<1>3. CASE k = 0
    <2> DEFINE it == [s \in SUBSET (1 .. 0) |-> base]
    <2>1. \A s \in SUBSET (1 .. 0) : s = {}
        OBVIOUS
    <2>2. it \in [SUBSET (1 .. 0) -> A] /\ Goes(it, 1 .. 0, base, F)
        BY <2>1 DEF Goes
    <2> QED BY <1>2, <1>3, <2>2
<1>4. CASE k # 0
    <2> DEFINE j == k - 1
    <2>1. j \in 0 .. n /\ k = j + 1 /\ j \in Nat /\ k \in 1 .. n
        BY <1>2, <1>4
    <2>2. j \notin Bad
        <3>1. ~(k <= j)
            BY <2>1
        <3> HIDE DEF Bad, j
        <3> QED BY <1>1, <3>1
    <2>3. PICK old \in [SUBSET (1 .. j) -> A] : Goes(old, 1 .. j, base, F)
        BY <2>1, <2>2
    <2> HIDE DEF j, Bad
    <2> DEFINE it == [s \in SUBSET (1 .. k) |-> IF k \in s THEN F[<<k, old[s \ {k}]>>] ELSE old[s]]
    <2>4. ASSUME NEW s \in SUBSET (1 .. k)
          PROVE  s \ {k} \in SUBSET (1 .. j) /\ (k \notin s => s \in SUBSET (1 .. j))
        BY <2>1
    <2>5. it \in [SUBSET (1 .. k) -> A]
        <3> SUFFICES ASSUME NEW s \in SUBSET (1 .. k)
                     PROVE  (IF k \in s THEN F[<<k, old[s \ {k}]>>] ELSE old[s]) \in A
            OBVIOUS
        <3> QED BY <2>1, <2>3, <2>4
    <2>6. ASSUME NEW s \in SUBSET (1 .. k), s # {}
          PROVE  it[s] = F[<<Greatest(s), it[s \ {Greatest(s)}]>>]
        <3>1. Greatest(s) \in s /\ \A y \in s : y <= Greatest(s)
            <4>1. k \in Nat
                BY <2>1
            <4> QED BY <2>6, <4>1, GreatestFacts
        <3>2. CASE k \in s
            <4>1. Greatest(s) = k
                <5>1. Greatest(s) \in 1 .. k /\ k <= Greatest(s)
                    BY <3>1, <3>2
                <5> QED BY <2>1, <5>1
            <4>2. s \ {k} \in SUBSET (1 .. k) /\ k \notin s \ {k}
                OBVIOUS
            <4>3. it[s \ {k}] = old[s \ {k}]
                BY <4>2
            <4> QED BY <3>2, <4>1, <4>3
        <3>3. CASE k \notin s
            <4> DEFINE l == Greatest(s)
            <4>1. s \in SUBSET (1 .. j) /\ s \ {l} \in SUBSET (1 .. k) /\ k \notin s \ {l}
                BY <2>4, <3>3
            <4>2. old[s] = F[<<l, old[s \ {l}]>>]
                BY <2>3, <2>6, <4>1 DEF Goes
            <4>3. it[s] = old[s] /\ it[s \ {l}] = old[s \ {l}]
                BY <3>3, <4>1
            <4> QED BY <4>2, <4>3
        <3> QED BY <3>2, <3>3
    <2>7. it[{}] = base
        <3>1. old[{}] = base
            BY <2>3 DEF Goes
        <3> QED BY <3>1
    <2>8. it = [s \in SUBSET (1 .. k) |-> IF s = {} THEN base ELSE F[<<Greatest(s), it[s \ {Greatest(s)}]>>]]
        <3>1. DOMAIN it = SUBSET (1 .. k) /\ it = [s \in SUBSET (1 .. k) |-> it[s]]
            OBVIOUS
        <3> HIDE DEF it
        <3>2. \A s \in SUBSET (1 .. k) :
                  it[s] = IF s = {} THEN base ELSE F[<<Greatest(s), it[s \ {Greatest(s)}]>>]
            BY <2>6, <2>7
        <3> QED BY <3>1, <3>2
    <2> HIDE DEF it
    <2>9. Goes(it, 1 .. k, base, F)
        BY <2>8 DEF Goes
    <2> QED BY <1>2, <2>5, <2>9
<1> QED BY <1>3, <1>4

\* The first k positions, and the last of them.
LEMMA FirstPositions ==
    ASSUME NEW n \in Nat, NEW k \in 1 .. n
    PROVE  /\ 1 .. k \in SUBSET (1 .. n) /\ 1 .. k # {}
           /\ Greatest(1 .. k) = k /\ (1 .. k) \ {k} = 1 .. k - 1
<1>1. k \in Nat /\ k \in 1 .. k
    OBVIOUS
<1>2. 1 .. k \in SUBSET (1 .. n)
    OBVIOUS
<1>3. Greatest(1 .. k) = k
    <2>1. Greatest(1 .. k) \in 1 .. k /\ \A y \in 1 .. k : y <= Greatest(1 .. k)
        <3>1. 1 .. k \in SUBSET (1 .. k) /\ 1 .. k # {}
            BY <1>1
        <3> QED BY <1>1, <3>1, GreatestFacts
    <2> QED BY <1>1, <2>1
<1>4. (1 .. k) \ {k} = 1 .. k - 1
    BY <1>1
<1> QED BY <1>1, <1>2, <1>3, <1>4

\* What holds at the start and is kept by each of n steps holds after each of them.
LEMMA StepByStep ==
    ASSUME NEW n \in Nat, NEW G, 0 \in G, \A k \in 1 .. n : k - 1 \in G => k \in G
    PROVE  \A k \in 0 .. n : k \in G
<1> DEFINE Bad == {k \in 0 .. n : k \notin G}
<1> SUFFICES ASSUME Bad # {} PROVE FALSE
    OBVIOUS
<1>1. PICK k \in Bad : \A j \in Bad : k <= j
    <2>1. Bad \in SUBSET Nat
        OBVIOUS
    <2> HIDE DEF Bad
    <2> QED BY <2>1, LeastNatural
<1>2. k \in 1 .. n /\ k - 1 \in 0 .. n /\ ~(k <= k - 1) /\ k \notin G
    OBVIOUS
<1>3. k - 1 \notin Bad
    <2> HIDE DEF Bad
    <2> QED BY <1>1, <1>2
<1> QED BY <1>2, <1>3

\* f is what n steps of F lead to from base.
Walks(f, n, base, F) == f[0] = base /\ \A k \in 1 .. n : f[k] = F[<<k, f[k - 1]>>]

\* Steps that go from A to A, from a start in A: there is what they lead to.
LEMMA StepsExist ==
    ASSUME NEW n \in Nat, NEW A, NEW base \in A, NEW F \in [(1 .. n) \X A -> A]
    PROVE  \E f \in [0 .. n -> A] : Walks(f, n, base, F)
<1>1. PICK it \in [SUBSET (1 .. n) -> A] : Goes(it, 1 .. n, base, F)
    BY GoingExists
<1> DEFINE f == [k \in 0 .. n |-> it[1 .. k]]
<1>2. f \in [0 .. n -> A]
    <2>1. \A k \in 0 .. n : 1 .. k \in SUBSET (1 .. n)
        OBVIOUS
    <2> QED BY <1>1, <2>1
<1>3. f[0] = base
    <2>1. 1 .. 0 = {} /\ it[{}] = base
        BY <1>1 DEF Goes
    <2> QED BY <2>1
<1>4. ASSUME NEW k \in 1 .. n PROVE f[k] = F[<<k, f[k - 1]>>]
    <2>1. 1 .. k \in SUBSET (1 .. n) /\ 1 .. k # {} /\ Greatest(1 .. k) = k /\ (1 .. k) \ {k} = 1 .. k - 1
        BY FirstPositions
    <2>2. it[1 .. k] = F[<<Greatest(1 .. k), it[(1 .. k) \ {Greatest(1 .. k)}]>>]
        BY <1>1, <2>1 DEF Goes
    <2>3. f[k] = it[1 .. k] /\ f[k - 1] = it[1 .. k - 1]
        OBVIOUS
    <2> QED BY <2>1, <2>2, <2>3
<1> HIDE DEF f
<1> QED BY <1>2, <1>3, <1>4 DEF Walks

--------------------------------------------------------------------------------
(* A strict total order on the positions of a list puts one at every place.     *)

\* The place of i among 1 .. n: one more than there are before it.
Place(n, R, i) == Cardinality({j \in 1 .. n : <<j, i>> \in R}) + 1
StrictTotal(n, R) ==
    /\ \A i \in 1 .. n : <<i, i>> \notin R
    /\ \A i, j \in 1 .. n : i # j => <<i, j>> \in R \/ <<j, i>> \in R
    /\ \A i, j, k \in 1 .. n : <<i, j>> \in R /\ <<j, k>> \in R => <<i, k>> \in R

\* The places of different positions differ, and follow the order.
LEMMA PlacesGrow ==
    ASSUME NEW n \in Nat, NEW R, StrictTotal(n, R), NEW i \in 1 .. n, NEW j \in 1 .. n, <<i, j>> \in R
    PROVE  Place(n, R, i) < Place(n, R, j)
<1> DEFINE I == {k \in 1 .. n : <<k, i>> \in R}
           J == {k \in 1 .. n : <<k, j>> \in R}
<1>1. I \subseteq J /\ i \in J /\ i \notin I
    BY DEF StrictTotal
<1>2. IsFiniteSet(1 .. n)
    BY FS_Interval
<1>3. IsFiniteSet(J)
    BY <1>2, FS_Subset
<1>4. IsFiniteSet(I) /\ Cardinality(I) \in Nat /\ Cardinality(J) \in Nat
    BY <1>1, <1>3, FS_Subset, FS_CardinalityType
<1>5. Cardinality(I) <= Cardinality(J)
    BY <1>1, <1>3, FS_Subset
<1>6. Cardinality(I) # Cardinality(J)
    <2> HIDE DEF I, J
    <2> QED BY <1>1, <1>3, FS_Subset
<1>7. Place(n, R, i) = Cardinality(I) + 1 /\ Place(n, R, j) = Cardinality(J) + 1
    BY DEF Place
<1> HIDE DEF I, J
<1> QED BY <1>4, <1>5, <1>6, <1>7

\* Every place from 1 to n is taken, by one position.
LEMMA PlacesTaken ==
    ASSUME NEW n \in Nat, NEW R, StrictTotal(n, R)
    PROVE  /\ \A i \in 1 .. n : Place(n, R, i) \in 1 .. n
           /\ \A k \in 1 .. n : \E i \in 1 .. n : Place(n, R, i) = k
           /\ \A i, j \in 1 .. n : Place(n, R, i) = Place(n, R, j) => i = j
<1>1. ASSUME NEW i \in 1 .. n PROVE Place(n, R, i) \in 1 .. n
    <2> DEFINE I == {k \in 1 .. n : <<k, i>> \in R}
    <2>1. IsFiniteSet(1 .. n) /\ Cardinality(1 .. n) = n
        BY FS_Interval
    <2>2. I \subseteq (1 .. n) \ {i}
        BY DEF StrictTotal
    <2>3. IsFiniteSet((1 .. n) \ {i}) /\ Cardinality((1 .. n) \ {i}) = n - 1
        BY <2>1, FS_RemoveElement
    <2>4. IsFiniteSet(I) /\ Cardinality(I) <= Cardinality((1 .. n) \ {i})
        <3> HIDE DEF I
        <3> QED BY <2>2, <2>3, FS_Subset
    <2>5. Cardinality(I) \in Nat
        BY <2>4, FS_CardinalityType
    <2>6. Place(n, R, i) = Cardinality(I) + 1
        BY DEF Place
    <2> HIDE DEF I
    <2> QED BY <2>3, <2>4, <2>5, <2>6
<1>2. \A i, j \in 1 .. n : i # j => Place(n, R, i) # Place(n, R, j)
    <2> SUFFICES ASSUME NEW i \in 1 .. n, NEW j \in 1 .. n, i # j
                 PROVE  Place(n, R, i) # Place(n, R, j)
        OBVIOUS
    <2>1. Place(n, R, i) \in Nat /\ Place(n, R, j) \in Nat
        BY <1>1
    <2>2. CASE <<i, j>> \in R
        BY <2>1, <2>2, PlacesGrow
    <2>3. CASE <<j, i>> \in R
        BY <2>1, <2>3, PlacesGrow
    <2> QED BY <2>2, <2>3 DEF StrictTotal
<1>3. \A k \in 1 .. n : \E i \in 1 .. n : Place(n, R, i) = k
    <2> DEFINE p == [i \in 1 .. n |-> Place(n, R, i)]
    <2>1. p \in Injection(1 .. n, 1 .. n)
        BY <1>1, <1>2 DEF Injection, IsInjective
    <2>2. IsFiniteSet(1 .. n) /\ Cardinality(1 .. n) = n
        BY FS_Interval
    <2>3. \A k \in 1 .. n : \E i \in 1 .. n : p[i] = k
        <3> HIDE DEF p
        <3>1. p \in Surjection(1 .. n, 1 .. n)
            BY <2>1, <2>2, FS_Injection
        <3> QED BY <3>1 DEF Surjection
    <2> QED BY <2>3
<1> QED BY <1>1, <1>2, <1>3

\* The positions 1 .. n in their places.
InPlaces(n, R) ==
    [k \in 1 .. n |-> CHOOSE i \in 1 .. n : <<k, i>> \in {<<Place(n, R, x), x>> : x \in 1 .. n}]

\* o lists the positions 1 .. n, each of them, in the order R.
Sorts(o, n, R) ==
    /\ o \in [1 .. n -> 1 .. n]
    /\ \A i \in 1 .. n : \E k \in 1 .. n : o[k] = i
    /\ \A k, l \in 1 .. n : k < l => <<o[k], o[l]>> \in R

\* The list of the positions in their places has every position, in order.
LEMMA PlacedList ==
    ASSUME NEW n \in Nat, NEW R, StrictTotal(n, R)
    PROVE  Sorts(InPlaces(n, R), n, R)
<1> DEFINE o == InPlaces(n, R)
<1>1. \A k \in 1 .. n : o[k] \in 1 .. n /\ Place(n, R, o[k]) = k
    <2> TAKE k \in 1 .. n
    <2> DEFINE Fits(i) == <<k, i>> \in {<<Place(n, R, x), x>> : x \in 1 .. n}
    <2>1. \A i \in 1 .. n : Fits(i) <=> Place(n, R, i) = k
        OBVIOUS
    <2>2. \E i \in 1 .. n : Fits(i)
        <3>1. PICK i \in 1 .. n : Place(n, R, i) = k
            BY PlacesTaken
        <3> HIDE DEF Fits
        <3> QED BY <2>1, <3>1
    <2>3. o[k] = CHOOSE i \in 1 .. n : Fits(i)
        BY DEF InPlaces
    <2> HIDE DEF Fits
    <2>4. o[k] \in 1 .. n /\ Fits(o[k])
        BY <2>2, <2>3
    <2> QED BY <2>1, <2>4
<1>2. o \in [1 .. n -> 1 .. n]
    <2>1. DOMAIN o = 1 .. n /\ o = [k \in 1 .. n |-> o[k]]
        BY DEF InPlaces
    <2> QED BY <1>1, <2>1
<1>3. ASSUME NEW i \in 1 .. n PROVE \E k \in 1 .. n : o[k] = i
    <2>1. Place(n, R, i) \in 1 .. n
        BY PlacesTaken
    <2>2. o[Place(n, R, i)] \in 1 .. n /\ Place(n, R, o[Place(n, R, i)]) = Place(n, R, i)
        BY <1>1, <2>1
    <2>3. o[Place(n, R, i)] = i
        BY <2>2, PlacesTaken
    <2> QED BY <2>1, <2>3
<1>4. ASSUME NEW k \in 1 .. n, NEW l \in 1 .. n, k < l PROVE <<o[k], o[l]>> \in R
    <2>1. o[k] \in 1 .. n /\ o[l] \in 1 .. n /\ Place(n, R, o[k]) = k /\ Place(n, R, o[l]) = l
        BY <1>1
    <2>2. o[k] # o[l]
        BY <1>4, <2>1
    <2>3. CASE <<o[l], o[k]>> \in R
        <3>1. l < k
            BY <2>1, <2>3, PlacesGrow
        <3> QED BY <1>4, <3>1
    <2> QED BY <2>1, <2>2, <2>3 DEF StrictTotal
<1> QED BY <1>2, <1>3, <1>4 DEF Sorts
================================================================================
