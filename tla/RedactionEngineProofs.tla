--------------------------- MODULE RedactionEngineProofs ---------------------------
(***************************************************************************)
(* What holds of RedactionEngine whatever the messages, the replies, the    *)
(* spelling and the lists of words, and however large the vault is.         *)
(***************************************************************************)
EXTENDS RedactionEngine, FiniteOrders, SequenceTheorems, TLAPS

--------------------------------------------------------------------------------
(* Lists: flattened, filtered, made of a set.                                  *)

\* One list behind another.  The name keeps the provers from taking it apart.
Cat(a, b) == a \o b

\* It is a list, the empty list adds nothing to it, and the order of adding does not matter.
LEMMA CatFacts ==
    ASSUME NEW S, NEW a \in Seq(S), NEW b \in Seq(S)
    PROVE  Cat(a, b) \in Seq(S) /\ Cat(a, <<>>) = a /\ Cat(<<>>, a) = a
BY ConcatEmptySeq DEF Cat

\* Three lists behind each other.
LEMMA CatAssociates ==
    ASSUME NEW S, NEW a \in Seq(S), NEW b \in Seq(S), NEW c \in Seq(S)
    PROVE  Cat(Cat(a, b), c) = Cat(a, Cat(b, c))
BY ConcatAssociative DEF Cat

\* f flattens the first lists of ss.
Flattens(f, n, ss) == f[0] = <<>> /\ \A k \in 1 .. n : f[k] = Cat(f[k - 1], ss[k])

\* Flattening adds list after list.
LEMMA FlatSteps ==
    ASSUME NEW n \in Nat, NEW S, NEW ss \in [1 .. n -> Seq(S)]
    PROVE  \E f \in [0 .. n -> Seq(S)] : Flattens(f, n, ss) /\ f[n] = FlattenSeq(ss)
<1> DEFINE A == Seq(S)
           none == <<>>
           F == [x \in (1 .. n) \X A |-> x[2] \o ss[x[1]]]
<1>1. none \in A
    OBVIOUS
<1>2. F \in [(1 .. n) \X A -> A]
    <2>1. \A x \in (1 .. n) \X A : x[2] \o ss[x[1]] \in A
        OBVIOUS
    <2> QED BY <2>1
<1>3. \A k \in 1 .. n, a \in A : F[<<k, a>>] = a \o ss[k]
    OBVIOUS
<1> HIDE DEF F, A, none
<1>4. PICK f \in [0 .. n -> A] : Walks(f, n, none, F)
    BY <1>1, <1>2, StepsExist
<1>5. ASSUME NEW k \in 1 .. n
      PROVE  k - 1 \in 0 .. n /\ f[k] = f[k - 1] \o ss[k]
    <2>1. k - 1 \in 0 .. n
        OBVIOUS
    <2>2. f[k - 1] \in A
        BY <1>4, <2>1
    <2> QED BY <1>3, <1>4, <2>1, <2>2 DEF Walks
<1>6. ss \in Seq(Seq(S)) /\ Len(ss) = n
    OBVIOUS
<1>7. CASE n = 0
    <2>1. FlattenSeq(ss) = <<>>
        BY <1>6, <1>7 DEF FlattenSeq
    <2> QED BY <1>4, <1>5, <1>7, <2>1 DEF A, none, Walks, Flattens, Cat
<1>8. CASE n # 0
    <2> DEFINE Is(g) == g = [i \in 1 .. n |-> IF i = 1 THEN ss[i] ELSE g[i - 1] \o ss[i]]
               g0 == [i \in 1 .. n |-> f[i]]
               g1 == CHOOSE g : Is(g)
    <2>1. Is(g0)
        <3>1. ASSUME NEW i \in 1 .. n
              PROVE  g0[i] = IF i = 1 THEN ss[i] ELSE g0[i - 1] \o ss[i]
            <4>1. CASE i = 1
                <5>1. f[1] = none \o ss[1] /\ ss[1] \in Seq(S)
                    <6>1. 1 \in 1 .. n /\ 1 - 1 = 0
                        BY <4>1
                    <6>2. f[1] = f[1 - 1] \o ss[1]
                        BY <1>5, <6>1
                    <6> QED BY <1>4, <6>1, <6>2 DEF Walks
                <5>2. none \o ss[1] = ss[1]
                    BY <5>1 DEF none
                <5> QED BY <4>1, <5>1, <5>2
            <4>2. CASE i # 1
                <5>1. i - 1 \in 1 .. n
                    BY <4>2
                <5>2. f[i] = f[i - 1] \o ss[i]
                    BY <1>5
                <5> QED BY <4>2, <5>1, <5>2
            <4> QED BY <4>1, <4>2
        <3>2. g0 = [i \in 1 .. n |-> g0[i]]
            OBVIOUS
        <3> HIDE DEF g0
        <3> QED BY <3>1, <3>2
    <2> HIDE DEF g0
    <2>2. Is(g1)
        BY <2>1
    <2>3. FlattenSeq(ss) = g1[n]
        BY <1>6, <1>8 DEF FlattenSeq
    <2> HIDE DEF g1
    <2> DEFINE G == {k \in 0 .. n : k = 0 \/ g1[k] = f[k]}
    <2>4. ASSUME NEW k \in 1 .. n, k - 1 \in G PROVE g1[k] = f[k]
        <3>1. CASE k = 1
            <4>1. f[1] = none \o ss[1] /\ ss[1] \in Seq(S)
                <5>1. 1 \in 1 .. n /\ 1 - 1 = 0
                    BY <3>1
                <5>2. f[1] = f[1 - 1] \o ss[1]
                    BY <1>5, <5>1
                <5> QED BY <1>4, <5>1, <5>2 DEF Walks
            <4>2. none \o ss[1] = ss[1]
                BY <4>1 DEF none
            <4>3. g1[1] = ss[1]
                BY <2>2, <3>1
            <4> QED BY <3>1, <4>1, <4>2, <4>3
        <3>2. CASE k # 1
            <4>1. g1[k] = g1[k - 1] \o ss[k] /\ f[k] = f[k - 1] \o ss[k]
                BY <1>5, <2>2, <3>2
            <4>2. g1[k - 1] = f[k - 1]
                BY <2>4, <3>2
            <4> QED BY <4>1, <4>2
        <3> QED BY <3>1, <3>2
    <2>5. 0 \in G /\ \A k \in 1 .. n : k - 1 \in G => k \in G
        BY <2>4
    <2>6. n \in G
        <3>1. n \in 0 .. n
            OBVIOUS
        <3> HIDE DEF G
        <3> QED BY <2>5, <3>1, StepByStep
    <2>7. g1[n] = f[n]
        BY <1>8, <2>6
    <2> QED BY <1>4, <1>5, <2>3, <2>7 DEF A, none, Walks, Flattens, Cat
<1> QED BY <1>7, <1>8

\* A list made of two has the members of both.
LEMMA JoinedMembers ==
    ASSUME NEW S, NEW a \in Seq(S), NEW b \in Seq(S)
    PROVE  ToSet(a \o b) = ToSet(a) \cup ToSet(b)
<1> DEFINE c == a \o b
<1>1. c \in Seq(S) /\ Len(c) = Len(a) + Len(b)
    BY ConcatProperties
<1>2. \A i \in 1 .. Len(a) : c[i] = a[i]
    BY ConcatProperties
<1>3. \A i \in 1 .. Len(b) : c[i + Len(a)] = b[i]
    <2> TAKE i \in 1 .. Len(b)
    <2>1. i + Len(a) \in 1 .. Len(a) + Len(b) /\ ~(i + Len(a) <= Len(a)) /\ (i + Len(a)) - Len(a) = i
        OBVIOUS
    <2> QED BY <2>1, ConcatProperties
<1> HIDE DEF c
<1>4. ASSUME NEW x \in ToSet(c) PROVE x \in ToSet(a) \cup ToSet(b)
    <2>1. PICK i \in 1 .. Len(c) : x = c[i]
        BY <1>1 DEF ToSet
    <2>2. CASE i \in 1 .. Len(a)
        BY <1>2, <2>1, <2>2 DEF ToSet
    <2>3. CASE i \notin 1 .. Len(a)
        <3>1. i - Len(a) \in 1 .. Len(b) /\ (i - Len(a)) + Len(a) = i
            BY <1>1, <2>3
        <3>2. x = b[i - Len(a)]
            BY <1>3, <2>1, <3>1
        <3> QED BY <3>1, <3>2 DEF ToSet
    <2> QED BY <2>2, <2>3
<1>5. ASSUME NEW x \in ToSet(a) PROVE x \in ToSet(c)
    <2>1. PICK i \in 1 .. Len(a) : x = a[i]
        BY DEF ToSet
    <2>2. i \in 1 .. Len(c) /\ x = c[i]
        BY <1>1, <1>2, <2>1
    <2> QED BY <1>1, <2>2 DEF ToSet
<1>6. ASSUME NEW x \in ToSet(b) PROVE x \in ToSet(c)
    <2>1. PICK i \in 1 .. Len(b) : x = b[i]
        BY DEF ToSet
    <2>2. i + Len(a) \in 1 .. Len(c) /\ x = c[i + Len(a)]
        BY <1>1, <1>3, <2>1
    <2> QED BY <1>1, <2>2 DEF ToSet
<1> QED BY <1>4, <1>5, <1>6 DEF c

\* A flattened list has the members of the lists it is made of.
LEMMA FlatMembers ==
    ASSUME NEW n \in Nat, NEW S, NEW ss \in [1 .. n -> Seq(S)]
    PROVE  /\ FlattenSeq(ss) \in Seq(S)
           /\ ToSet(FlattenSeq(ss)) = UNION {ToSet(ss[i]) : i \in 1 .. n}
<1>1. PICK f \in [0 .. n -> Seq(S)] : Flattens(f, n, ss) /\ f[n] = FlattenSeq(ss)
    BY FlatSteps
<1> DEFINE G == {k \in 0 .. n : ToSet(f[k]) = UNION {ToSet(ss[i]) : i \in 1 .. k}}
<1>2. 0 \in G
    <2>1. ToSet(f[0]) = {} /\ 1 .. 0 = {}
        BY <1>1 DEF ToSet, Flattens
    <2> QED BY <2>1
<1>3. ASSUME NEW k \in 1 .. n, k - 1 \in G PROVE k \in G
    <2>1. k - 1 \in 0 .. n /\ k \in 0 .. n
        OBVIOUS
    <2>4. f[k - 1] \in Seq(S) /\ ss[k] \in Seq(S) /\ f[k] = f[k - 1] \o ss[k]
        BY <1>1, <2>1 DEF Flattens, Cat
    <2>2. ToSet(f[k]) = ToSet(f[k - 1]) \cup ToSet(ss[k])
        BY <2>4, JoinedMembers
    <2>3. 1 .. k = (1 .. k - 1) \cup {k}
        OBVIOUS
    <2>5. ToSet(f[k - 1]) = UNION {ToSet(ss[i]) : i \in 1 .. k - 1}
        BY <1>3
    <2>6. UNION {ToSet(ss[i]) : i \in 1 .. k} = (UNION {ToSet(ss[i]) : i \in 1 .. k - 1}) \cup ToSet(ss[k])
        BY <2>3
    <2>7. ToSet(f[k]) = UNION {ToSet(ss[i]) : i \in 1 .. k}
        BY <2>2, <2>5, <2>6
    <2> QED BY <2>1, <2>7
<1>4. n \in G
    <2>1. n \in 0 .. n
        OBVIOUS
    <2> HIDE DEF G
    <2> QED BY <1>2, <1>3, <2>1, StepByStep
<1>5. n \in 0 .. n
    OBVIOUS
<1> QED BY <1>1, <1>4, <1>5

\* What passes is kept, and nothing else.
LEMMA KeptMembers ==
    ASSUME NEW S, NEW s \in Seq(S), NEW P,
           NEW k, k = FlattenSeq([i \in DOMAIN s |-> IF s[i] \in P THEN <<s[i]>> ELSE <<>>])
    PROVE  k \in Seq(S) /\ ToSet(k) = ToSet(s) \cap P
<1> DEFINE n == Len(s)
           ss == [i \in 1 .. n |-> IF s[i] \in P THEN <<s[i]>> ELSE <<>>]
<1>1. n \in Nat /\ DOMAIN s = 1 .. n /\ \A i \in 1 .. n : s[i] \in S
    OBVIOUS
<1>2. \A i \in 1 .. n : ss[i] \in Seq(S) /\ ToSet(ss[i]) = {s[i]} \cap P
    <2> TAKE i \in 1 .. n
    <2> DEFINE x == s[i]
    <2>1. x \in S
        BY <1>1
    <2>2. ss[i] = IF x \in P THEN <<x>> ELSE <<>>
        OBVIOUS
    <2> HIDE DEF x, ss
    <2>3. <<x>> \in Seq(S) /\ <<>> \in Seq(S) /\ ToSet(<<x>>) = {x} /\ ToSet(<<>>) = {}
        BY <2>1 DEF ToSet
    <2>4. ss[i] \in Seq(S) /\ ToSet(ss[i]) = {x} \cap P
        BY <2>2, <2>3
    <2> QED BY <2>4 DEF x
<1>3. k = FlattenSeq(ss)
    BY <1>1
<1>4. ss \in [1 .. n -> Seq(S)]
    <2>1. DOMAIN ss = 1 .. n /\ ss = [i \in 1 .. n |-> ss[i]]
        OBVIOUS
    <2> HIDE DEF ss, n
    <2> QED BY <1>2, <2>1
<1> HIDE DEF ss, n
<1>5. k \in Seq(S) /\ ToSet(k) = UNION {ToSet(ss[i]) : i \in 1 .. n}
    BY <1>1, <1>3, <1>4, FlatMembers
<1>6. ToSet(s) = {s[i] : i \in 1 .. n}
    BY <1>1 DEF ToSet
<1> QED BY <1>2, <1>5, <1>6

\* The list of a finite set has its members.
LEMMA ListedMembers ==
    ASSUME NEW T, IsFiniteSet(T)
    PROVE  SetToSeq(T) \in Seq(T) /\ ToSet(SetToSeq(T)) = T
<1> DEFINE c == Cardinality(T)
<1>1. c \in Nat
    BY FS_CardinalityType
<1>2. \E f \in [1 .. c -> T] : IsInjective(f)
    <2>1. PICK f : f \in Bijection(1 .. c, T)
        <3>1. PICK m \in Nat : ExistsBijection(1 .. m, T)
            BY FS_NatBijection
        <3>2. m = c
            BY <3>1, FS_CountingElements
        <3> QED BY <3>1, <3>2 DEF ExistsBijection
    <2> QED BY <2>1 DEF Bijection, Injection
<1> DEFINE g == SetToSeq(T)
<1>3. g \in [1 .. c -> T] /\ IsInjective(g)
    BY <1>2 DEF SetToSeq
<1>4. g \in Injection(1 .. c, T)
    BY <1>3 DEF Injection
<1>5. IsFiniteSet(1 .. c) /\ Cardinality(1 .. c) = c
    BY <1>1, FS_Interval
<1>6. g \in Surjection(1 .. c, T)
    <2> HIDE DEF g
    <2> QED BY <1>4, <1>5, FS_Injection
<1>7. \A t \in T : \E i \in 1 .. c : g[i] = t
    <2> HIDE DEF g
    <2> QED BY <1>6 DEF Surjection
<1> HIDE DEF g, c
<1>8. ToSet(g) = T
    BY <1>3, <1>7 DEF ToSet
<1>9. g \in Seq(T)
    BY <1>1, <1>3
<1> QED BY <1>8, <1>9 DEF g

--------------------------------------------------------------------------------
(* The spans that are chosen.                                                  *)

EntityKeys == {"fn", "mn1", "mn2", "ln", "em", "ph"}
SpanKeys == EntityKeys \cup {"name"}

\* The words of a name in a unit are words.
HasWords(u) ==
    NameWords(u.id) \in Seq(STRING) /\ \A w \in ToSet(NameWords(u.id)) : Written(w) \in Seq(STRING)
Readable(value) == \A u \in ToSet(value) : HasWords(u)

\* The spans that can be listed for a text.
SpansIn(text) ==
    {s \in SpansOf(text, SpanKeys) :
        /\ s.from <= s.to /\ s.value # <<>>
        /\ s.key # "name" => ToSet(s.value) \subseteq Words
        /\ s.key = "name" => Readable(s.value)}

\* A span of a text begins and ends in it.
LEMMA SpanFacts ==
    ASSUME NEW text \in Seq(Units), NEW s \in SpansIn(text)
    PROVE  /\ s.from \in 1 .. Len(text) /\ s.to \in 1 .. Len(text) /\ s.from <= s.to
           /\ s.from \in Nat /\ s.to \in Nat /\ s.key \in SpanKeys
           /\ s.value \in Seq(Units) /\ s.value # <<>>
           /\ s.key # "name" => ToSet(s.value) \subseteq Words
           /\ s.key = "name" => Readable(s.value)
           /\ s.from \in Positions(s) /\ Overlap(s, s)
<1>1. /\ s.from \in 1 .. Len(text) /\ s.to \in 1 .. Len(text) /\ s.from <= s.to
      /\ s.key \in SpanKeys /\ s.value \in Seq(Units) /\ s.value # <<>>
      /\ s.key # "name" => ToSet(s.value) \subseteq Words
      /\ s.key = "name" => Readable(s.value)
    BY DEF SpansIn, SpansOf
<1>2. s.from \in Nat /\ s.to \in Nat
    BY <1>1
<1>3. s.from \in Positions(s)
    BY <1>1, <1>2 DEF Positions
<1>4. Overlap(s, s)
    BY <1>3 DEF Overlap
<1> QED BY <1>1, <1>2, <1>3, <1>4

\* The order of the spans lists each of them, one that comes before another first.
LEMMA SpanOrderFacts ==
    ASSUME NEW text \in Seq(Units), NEW spans \in Seq(SpansIn(text)), NEW n, n = Len(spans),
           NEW o, o = SpanOrder(spans)
    PROVE  /\ o \in [1 .. n -> 1 .. n] /\ n \in Nat
           /\ \A i \in 1 .. n : \E k \in 1 .. n : o[k] = i
           /\ \A k, l \in 1 .. n : k < l => Before(spans, o[k], o[l])
<1> DEFINE R == {x \in (1 .. n) \X (1 .. n) : Before(spans, x[1], x[2])}
<1>1. n \in Nat /\ DOMAIN spans = 1 .. n /\ \A i \in 1 .. n : spans[i] \in SpansIn(text)
    OBVIOUS
<1>2. \A i \in 1 .. n : spans[i].from \in Nat /\ spans[i].to \in Nat
    BY <1>1, SpanFacts
<1>3. \A i, j \in 1 .. n : <<i, j>> \in R <=> Before(spans, i, j)
    OBVIOUS
<1> HIDE DEF R
<1>4. StrictTotal(n, R)
    <2>1. \A i \in 1 .. n : <<i, i>> \notin R
        <3> SUFFICES ASSUME NEW i \in 1 .. n PROVE ~Before(spans, i, i)
            BY <1>3
        <3> QED BY <1>1, <1>2 DEF Before
    <2>2. \A i, j \in 1 .. n : i # j => <<i, j>> \in R \/ <<j, i>> \in R
        <3> SUFFICES ASSUME NEW i \in 1 .. n, NEW j \in 1 .. n, i # j
                     PROVE  Before(spans, i, j) \/ Before(spans, j, i)
            BY <1>3
        <3> QED BY <1>1, <1>2 DEF Before
    <2>3. \A i, j, k \in 1 .. n : <<i, j>> \in R /\ <<j, k>> \in R => <<i, k>> \in R
        <3> SUFFICES ASSUME NEW i \in 1 .. n, NEW j \in 1 .. n, NEW k \in 1 .. n,
                            Before(spans, i, j), Before(spans, j, k)
                     PROVE  Before(spans, i, k)
            BY <1>3
        <3> QED BY <1>1, <1>2 DEF Before
    <2> QED BY <2>1, <2>2, <2>3 DEF StrictTotal
<1>5. \A i \in 1 .. n : Cardinality({j \in 1 .. n : Before(spans, j, i)}) + 1 = Place(n, R, i)
    <2> TAKE i \in 1 .. n
    <2>1. {j \in 1 .. n : Before(spans, j, i)} = {j \in 1 .. n : <<j, i>> \in R}
        BY <1>3
    <2> QED BY <2>1 DEF Place
<1>6. {<<Cardinality({j \in 1 .. n : Before(spans, j, i)}) + 1, i>> : i \in 1 .. n}
          = {<<Place(n, R, x), x>> : x \in 1 .. n}
    BY <1>5
<1>7. o = InPlaces(n, R)
    <2> DEFINE P == {<<Cardinality({j \in 1 .. n : Before(spans, j, i)}) + 1, i>> : i \in 1 .. n}
    <2>1. o = [k \in 1 .. n |-> CHOOSE i \in 1 .. n : <<k, i>> \in P]
        BY <1>1 DEF SpanOrder, Order
    <2> HIDE DEF P
    <2>2. P = {<<Place(n, R, x), x>> : x \in 1 .. n}
        BY <1>6 DEF P
    <2> QED BY <2>1, <2>2 DEF InPlaces
<1>8. /\ o \in [1 .. n -> 1 .. n]
      /\ \A i \in 1 .. n : \E k \in 1 .. n : o[k] = i
      /\ \A k, l \in 1 .. n : k < l => <<o[k], o[l]>> \in R
    <2>1. n \in Nat
        BY <1>1
    <2>2. Sorts(InPlaces(n, R), n, R)
        BY <1>4, <2>1, PlacedList
    <2> QED BY <1>7, <2>2 DEF Sorts
<1>9. \A k, l \in 1 .. n : k < l => Before(spans, o[k], o[l])
    BY <1>3, <1>8
<1> QED BY <1>1, <1>8, <1>9

\* st takes the spans in order.
TakesAll(st, spans, n) ==
    /\ st[0] = <<>> /\ st[n] = Taken(spans)
    /\ \A k \in 1 .. n : st[k] = Take(st[k - 1], spans[SpanOrder(spans)[k]])

\* The spans are taken one after the other.
LEMMA TakenSteps ==
    ASSUME NEW text \in Seq(Units), NEW spans \in Seq(SpansIn(text)), NEW n, n = Len(spans)
    PROVE  \E st \in [0 .. n -> Seq(SpansIn(text))] : TakesAll(st, spans, n)
<1> DEFINE A == Seq(SpansIn(text))
           o == SpanOrder(spans)
           base == <<>>
           F == [x \in (1 .. n) \X A |-> Take(x[2], spans[o[x[1]]])]
           Is(it) == it = [s \in SUBSET (1 .. n) |->
                              IF s = {} THEN <<>>
                              ELSE Take(it[s \ {Greatest(s)}], spans[o[Greatest(s)]])]
<1>1. n \in Nat /\ o \in [1 .. n -> 1 .. n] /\ \A i \in 1 .. n : spans[i] \in SpansIn(text)
    BY SpanOrderFacts
<1>2. base \in A
    OBVIOUS
<1>3. ASSUME NEW k \in 1 .. n, NEW a \in A PROVE Take(a, spans[o[k]]) \in A
    <2>1. spans[o[k]] \in SpansIn(text)
        BY <1>1
    <2> QED BY <2>1 DEF Take
<1> HIDE DEF A, o
<1>4. F \in [(1 .. n) \X A -> A] /\ \A k \in 1 .. n, a \in A : F[<<k, a>>] = Take(a, spans[o[k]])
    BY <1>3
<1> HIDE DEF F, base
<1>5. PICK it0 \in [SUBSET (1 .. n) -> A] : Goes(it0, 1 .. n, base, F)
    BY <1>1, <1>2, <1>4, GoingExists
<1>6. Is(it0)
    <2>1. ASSUME NEW s \in SUBSET (1 .. n), s # {}
          PROVE  F[<<Greatest(s), it0[s \ {Greatest(s)}]>>] = Take(it0[s \ {Greatest(s)}], spans[o[Greatest(s)]])
        <3>1. Greatest(s) \in 1 .. n
            BY <1>1, <2>1, GreatestFacts
        <3>2. it0[s \ {Greatest(s)}] \in A
            BY <1>5
        <3> QED BY <1>4, <3>1, <3>2
    <2> QED BY <1>5, <2>1 DEF Goes, base
<1> DEFINE it == CHOOSE i : Is(i)
<1>7. Is(it)
    BY <1>6
<1>8. Taken(spans) = it[1 .. n]
    <2>1. DOMAIN SpanOrder(spans) = 1 .. n
        BY <1>1 DEF o
    <2> QED BY <2>1 DEF Taken, FoldLeft, MapThenFoldSet, Max, Greatest, o
<1> HIDE DEF it
<1> DEFINE st == [k \in 0 .. n |-> it[1 .. k]]
<1>9. st[0] = base /\ st[n] = Taken(spans)
    <2>1. 1 .. 0 = {} /\ it[{}] = base
        BY <1>7 DEF base
    <2> QED BY <1>1, <1>8, <2>1
<1>10. ASSUME NEW k \in 1 .. n PROVE st[k] = Take(st[k - 1], spans[o[k]])
    <2>1. /\ 1 .. k \in SUBSET (1 .. n) /\ 1 .. k # {}
          /\ Greatest(1 .. k) = k /\ (1 .. k) \ {k} = 1 .. k - 1
        BY <1>1, FirstPositions
    <2>2. it[1 .. k] = Take(it[(1 .. k) \ {Greatest(1 .. k)}], spans[o[Greatest(1 .. k)]])
        BY <1>7, <2>1
    <2>3. st[k] = it[1 .. k] /\ st[k - 1] = it[1 .. k - 1]
        BY <1>1
    <2> QED BY <2>1, <2>2, <2>3
<1>11. DOMAIN st = 0 .. n /\ st = [k \in 0 .. n |-> st[k]]
    OBVIOUS
<1> HIDE DEF st
<1> DEFINE G == {k \in 0 .. n : st[k] \in A}
<1>12. 0 \in G /\ \A k \in 1 .. n : k - 1 \in G => k \in G
    BY <1>1, <1>2, <1>3, <1>9, <1>10
<1>13. \A k \in 0 .. n : st[k] \in A
    <2>1. \A k \in 0 .. n : k \in G
        <3> HIDE DEF G
        <3> QED BY <1>1, <1>12, StepByStep
    <2> QED BY <2>1
<1>14. st \in [0 .. n -> A]
    BY <1>11, <1>13
<1>15. TakesAll(st, spans, n)
    BY <1>9, <1>10 DEF TakesAll, base, o
<1> QED BY <1>14, <1>15 DEF A

\* The spans sel has taken of the first k: some of those, no two of them overlap,
\* and each of the k overlaps one of them that came no later.
TookFrom(sel, spans, k) ==
    /\ \A s \in ToSet(sel) : \E m \in 1 .. k : s = spans[SpanOrder(spans)[m]]
    /\ \A i, j \in DOMAIN sel : i # j => ~Overlap(sel[i], sel[j])
    /\ \A l \in 1 .. k : \E m \in 1 .. l :
          /\ spans[SpanOrder(spans)[m]] \in ToSet(sel)
          /\ Overlap(spans[SpanOrder(spans)[m]], spans[SpanOrder(spans)[l]])

\* What is appended to a list is one more of it.
LEMMA AppendedMembers ==
    ASSUME NEW S, NEW a \in Seq(S), NEW x \in S
    PROVE  /\ Append(a, x) \in Seq(S) /\ ToSet(Append(a, x)) = ToSet(a) \cup {x}
           /\ DOMAIN Append(a, x) = 1 .. Len(a) + 1
           /\ \A i \in 1 .. Len(a) : Append(a, x)[i] = a[i]
           /\ Append(a, x)[Len(a) + 1] = x
<1> DEFINE b == Append(a, x)
<1>1. /\ b \in Seq(S) /\ DOMAIN b = 1 .. Len(a) + 1 /\ Len(a) \in Nat /\ DOMAIN a = 1 .. Len(a)
      /\ \A i \in 1 .. Len(a) : b[i] = a[i]
      /\ b[Len(a) + 1] = x
    BY AppendProperties
<1> HIDE DEF b
<1>2. ToSet(b) = ToSet(a) \cup {x}
    <2>1. 1 .. Len(a) + 1 = (1 .. Len(a)) \cup {Len(a) + 1}
        BY <1>1
    <2> QED BY <1>1, <2>1 DEF ToSet
<1> QED BY <1>1, <1>2 DEF b

\* Each span taken or left out leaves it so.
LEMMA TakenFacts ==
    ASSUME NEW text \in Seq(Units), NEW spans \in Seq(SpansIn(text)), NEW n, n = Len(spans)
    PROVE  Taken(spans) \in Seq(SpansIn(text)) /\ TookFrom(Taken(spans), spans, n)
<1> DEFINE A == Seq(SpansIn(text))
           o == SpanOrder(spans)
           x(k) == spans[o[k]]
<1>1. n \in Nat /\ o \in [1 .. n -> 1 .. n] /\ \A k \in 1 .. n : x(k) \in SpansIn(text)
    <2>1. n \in Nat /\ o \in [1 .. n -> 1 .. n]
        BY SpanOrderFacts
    <2>2. \A i \in 1 .. n : spans[i] \in SpansIn(text)
        OBVIOUS
    <2> HIDE DEF o
    <2> QED BY <2>1, <2>2
<1>2. PICK st \in [0 .. n -> Seq(SpansIn(text))] : TakesAll(st, spans, n)
    BY TakenSteps
<1> DEFINE G == {k \in 0 .. n : TookFrom(st[k], spans, k)}
<1>3. 0 \in G
    <2>1. st[0] = <<>> /\ 1 .. 0 = {} /\ ToSet(<<>>) = {} /\ DOMAIN <<>> = {}
        BY <1>2 DEF TakesAll, ToSet
    <2>2. TookFrom(<<>>, spans, 0)
        BY <2>1 DEF TookFrom
    <2> QED BY <1>1, <2>1, <2>2
<1>4. ASSUME NEW k \in 1 .. n, k - 1 \in G PROVE k \in G
    <2> DEFINE a == st[k - 1]
               b == st[k]
    <2>1. k - 1 \in 0 .. n /\ k \in 0 .. n /\ k \in 1 .. k /\ 1 .. k = (1 .. k - 1) \cup {k}
        BY <1>1
    <2>2. a \in A /\ b = Take(a, x(k)) /\ TookFrom(a, spans, k - 1)
        BY <1>2, <1>4, <2>1 DEF TakesAll
    <2>3. x(k) \in SpansIn(text) /\ Overlap(x(k), x(k))
        BY <1>1, SpanFacts
    <2> HIDE DEF a, b, o, A
    <2>4. /\ \A s \in ToSet(a) : \E m \in 1 .. k - 1 : s = x(m)
          /\ \A i, j \in DOMAIN a : i # j => ~Overlap(a[i], a[j])
          /\ \A l \in 1 .. k - 1 : \E m \in 1 .. l : x(m) \in ToSet(a) /\ Overlap(x(m), x(l))
        BY <2>2 DEF TookFrom, o
    <2>5. \A s \in ToSet(a) : \E m \in 1 .. k : s = x(m)
        BY <2>1, <2>4
    <2>6. CASE \E s \in ToSet(a) : Overlap(s, x(k))
        <3>1. b = a
            BY <2>2, <2>6 DEF Take
        <3>2. \E m \in 1 .. k : x(m) \in ToSet(a) /\ Overlap(x(m), x(k))
            BY <2>5, <2>6
        <3>3. \A l \in 1 .. k : \E m \in 1 .. l : x(m) \in ToSet(b) /\ Overlap(x(m), x(l))
            BY <2>1, <2>4, <3>1, <3>2
        <3>4. TookFrom(b, spans, k)
            BY <2>4, <2>5, <3>1, <3>3 DEF TookFrom, o
        <3> QED BY <2>1, <3>4 DEF b
    <2>7. CASE ~\E s \in ToSet(a) : Overlap(s, x(k))
        <3>1. b = Append(a, x(k))
            BY <2>2, <2>7 DEF Take
        <3>2. /\ ToSet(b) = ToSet(a) \cup {x(k)} /\ DOMAIN b = 1 .. Len(a) + 1
              /\ \A i \in 1 .. Len(a) : b[i] = a[i]
              /\ b[Len(a) + 1] = x(k)
            BY <2>2, <2>3, <3>1, AppendedMembers DEF A
        <3>3. Len(a) \in Nat /\ DOMAIN a = 1 .. Len(a) /\ \A i \in 1 .. Len(a) : a[i] \in ToSet(a)
            BY <2>2 DEF A, ToSet
        <3>4. \A s \in ToSet(b) : \E m \in 1 .. k : s = x(m)
            BY <2>1, <2>5, <3>2
        <3>5. \A i \in 1 .. Len(a) : ~Overlap(b[i], x(k)) /\ ~Overlap(x(k), b[i])
            BY <2>7, <3>2, <3>3 DEF Overlap
        <3>6. ASSUME NEW i \in DOMAIN b, NEW j \in DOMAIN b, i # j PROVE ~Overlap(b[i], b[j])
            <4>1. (i \in 1 .. Len(a) \/ i = Len(a) + 1) /\ (j \in 1 .. Len(a) \/ j = Len(a) + 1)
                BY <3>2, <3>3
            <4>2. CASE i = Len(a) + 1
                BY <3>2, <3>5, <3>6, <4>1, <4>2
            <4>3. CASE j = Len(a) + 1
                BY <3>2, <3>5, <3>6, <4>1, <4>3
            <4>4. CASE i \in 1 .. Len(a) /\ j \in 1 .. Len(a)
                BY <2>4, <3>2, <3>3, <3>6, <4>4
            <4> QED BY <4>1, <4>2, <4>3, <4>4
        <3>7. \A l \in 1 .. k : \E m \in 1 .. l : x(m) \in ToSet(b) /\ Overlap(x(m), x(l))
            BY <2>1, <2>3, <2>4, <3>2
        <3>8. TookFrom(b, spans, k)
            BY <3>4, <3>6, <3>7 DEF TookFrom, o
        <3> QED BY <2>1, <3>8 DEF b
    <2> QED BY <2>6, <2>7
<1>5. n \in G
    <2>1. n \in 0 .. n
        BY <1>1
    <2> HIDE DEF G
    <2> QED BY <1>1, <1>3, <1>4, <2>1, StepByStep
<1>6. n \in 0 .. n
    BY <1>1
<1> QED BY <1>2, <1>5, <1>6 DEF TakesAll

\* A list put in the order in which its spans begin.
ByStart(taken) ==
    [k \in DOMAIN taken |-> taken[Order(taken, LAMBDA i, j : taken[i].from < taken[j].from)[k]]]

\* chosen are spans of the list, one behind the other, and each of the list overlaps
\* one of them: itself, or one that begins before it, or where it begins and ends no
\* earlier unless it is a full name.
Chosen(text, spans, chosen) ==
    /\ chosen \in Seq(SpansIn(text))
    /\ ToSet(chosen) \subseteq ToSet(spans)
    /\ \A i, j \in DOMAIN chosen : i < j => chosen[i].to < chosen[j].from
    /\ \A c \in ToSet(spans) : \E i \in DOMAIN chosen :
          /\ Overlap(chosen[i], c)
          /\ chosen[i].from <= c.from
          /\ chosen[i].from = c.from /\ c.key # "name" => c.to <= chosen[i].to

\* Spans that do not overlap, put in the order in which they begin, lie behind each other.
LEMMA StartFacts ==
    ASSUME NEW text \in Seq(Units), NEW taken \in Seq(SpansIn(text)),
           \A i, j \in DOMAIN taken : i # j => ~Overlap(taken[i], taken[j]),
           NEW chosen, chosen = ByStart(taken), NEW n, n = Len(taken)
    PROVE  /\ chosen \in Seq(SpansIn(text)) /\ ToSet(chosen) = ToSet(taken)
           /\ \A i, j \in DOMAIN chosen : i < j => chosen[i].to < chosen[j].from
<1> DEFINE f(i) == taken[i].from
           R == {x \in (1 .. n) \X (1 .. n) : f(x[1]) < f(x[2])}
           o == Order(taken, LAMBDA i, j : taken[i].from < taken[j].from)
<1>1. n \in Nat /\ DOMAIN taken = 1 .. n /\ \A i \in 1 .. n : taken[i] \in SpansIn(text)
    OBVIOUS
<1>2. \A i \in 1 .. n : f(i) \in Nat /\ taken[i].to \in Nat /\ f(i) <= taken[i].to
    BY <1>1, SpanFacts
<1>3. \A i, j \in 1 .. n : <<i, j>> \in R <=> f(i) < f(j)
    OBVIOUS
<1>4. ASSUME NEW i \in 1 .. n, NEW j \in 1 .. n, i # j
      PROVE  f(i) # f(j) /\ (f(i) < f(j) => taken[i].to < f(j))
    <2>1. ~Overlap(taken[i], taken[j])
        BY <1>1, <1>4
    <2> DEFINE a == f(i)  b == taken[i].to  c == f(j)  d == taken[j].to
    <2>2. a .. b \cap c .. d = {}
        BY <2>1 DEF Overlap, Positions
    <2>3. a \in Nat /\ b \in Nat /\ c \in Nat /\ d \in Nat /\ a <= b /\ c <= d
        BY <1>2
    <2> HIDE DEF a, b, c, d
    <2>4. a # c
        <3> SUFFICES ASSUME a = c PROVE FALSE
            OBVIOUS
        <3>1. a \in a .. b /\ a \in c .. d
            BY <2>3
        <3> QED BY <2>2, <3>1
    <2>5. a < c => b < c
        <3> SUFFICES ASSUME a < c, c <= b PROVE FALSE
            BY <2>3
        <3>1. c \in a .. b /\ c \in c .. d
            BY <2>3
        <3> QED BY <2>2, <3>1
    <2> QED BY <2>4, <2>5 DEF a, b, c
<1> HIDE DEF R
<1>5. StrictTotal(n, R)
    <2>1. \A i \in 1 .. n : <<i, i>> \notin R
        BY <1>2, <1>3
    <2>2. \A i, j \in 1 .. n : i # j => <<i, j>> \in R \/ <<j, i>> \in R
        <3> SUFFICES ASSUME NEW i \in 1 .. n, NEW j \in 1 .. n, i # j
                     PROVE  f(i) < f(j) \/ f(j) < f(i)
            BY <1>3
        <3>1. f(i) \in Nat /\ f(j) \in Nat /\ f(i) # f(j)
            BY <1>2, <1>4
        <3> HIDE DEF f
        <3> QED BY <3>1
    <2>3. \A i, j, k \in 1 .. n : <<i, j>> \in R /\ <<j, k>> \in R => <<i, k>> \in R
        BY <1>2, <1>3
    <2> QED BY <2>1, <2>2, <2>3 DEF StrictTotal
<1>6. \A i \in 1 .. n : Cardinality({j \in 1 .. n : f(j) < f(i)}) + 1 = Place(n, R, i)
    <2> TAKE i \in 1 .. n
    <2>1. {j \in 1 .. n : f(j) < f(i)} = {j \in 1 .. n : <<j, i>> \in R}
        BY <1>3
    <2> QED BY <2>1 DEF Place
<1>7. o = InPlaces(n, R)
    <2> DEFINE P == {<<Cardinality({j \in 1 .. n : f(j) < f(i)}) + 1, i>> : i \in 1 .. n}
    <2>1. o = [k \in 1 .. n |-> CHOOSE i \in 1 .. n : <<k, i>> \in P]
        BY <1>1 DEF Order
    <2>2. P = {<<Place(n, R, x), x>> : x \in 1 .. n}
        BY <1>6
    <2> HIDE DEF P
    <2> QED BY <2>1, <2>2 DEF InPlaces
<1> HIDE DEF o
<1>8. /\ o \in [1 .. n -> 1 .. n]
      /\ \A i \in 1 .. n : \E k \in 1 .. n : o[k] = i
      /\ \A k, l \in 1 .. n : k < l => <<o[k], o[l]>> \in R
    <2>1. n \in Nat
        BY <1>1
    <2>2. Sorts(InPlaces(n, R), n, R)
        BY <1>5, <2>1, PlacedList
    <2> QED BY <1>7, <2>2 DEF Sorts
<1>9. chosen = [k \in 1 .. n |-> taken[o[k]]]
    BY <1>1 DEF ByStart, o
<1>10. chosen \in Seq(SpansIn(text)) /\ DOMAIN chosen = 1 .. n
    BY <1>1, <1>8, <1>9
<1>11. ToSet(chosen) = ToSet(taken)
    <2>1. ASSUME NEW i \in 1 .. n PROVE \E k \in 1 .. n : chosen[k] = taken[i]
        <3>1. PICK k \in 1 .. n : o[k] = i
            BY <1>8
        <3>2. chosen[k] = taken[o[k]]
            BY <1>9
        <3> QED BY <3>1, <3>2
    <2>2. ASSUME NEW k \in 1 .. n PROVE \E i \in 1 .. n : chosen[k] = taken[i]
        BY <1>8, <1>9
    <2>3. ToSet(chosen) = {chosen[k] : k \in 1 .. n} /\ ToSet(taken) = {taken[k] : k \in 1 .. n}
        BY <1>1, <1>10 DEF ToSet
    <2>4. ToSet(chosen) \subseteq ToSet(taken)
        BY <2>2, <2>3
    <2>5. ToSet(taken) \subseteq ToSet(chosen)
        BY <2>1, <2>3
    <2> QED BY <2>4, <2>5
<1>12. ASSUME NEW k \in 1 .. n, NEW l \in 1 .. n, k < l PROVE chosen[k].to < chosen[l].from
    <2>1. o[k] \in 1 .. n /\ o[l] \in 1 .. n /\ f(o[k]) < f(o[l])
        BY <1>3, <1>8, <1>12
    <2>2. o[k] # o[l]
        BY <1>2, <2>1
    <2>3. taken[o[k]].to < f(o[l])
        BY <1>4, <2>1, <2>2
    <2> QED BY <1>9, <2>3
<1> QED BY <1>10, <1>11, <1>12

\* What is chosen of a list of spans.
LEMMA ChosenFacts ==
    ASSUME NEW text \in Seq(Units), NEW spans \in Seq(SpansIn(text)),
           NEW chosen, chosen = NonOverlapping(spans)
    PROVE  Chosen(text, spans, chosen)
<1> DEFINE n == Len(spans)
           o == SpanOrder(spans)
           taken == Taken(spans)
           x(k) == spans[o[k]]
<1>1. /\ o \in [1 .. n -> 1 .. n] /\ n \in Nat /\ DOMAIN spans = 1 .. n
      /\ \A i \in 1 .. n : spans[i] \in SpansIn(text)
      /\ \A i \in 1 .. n : \E k \in 1 .. n : o[k] = i
      /\ \A k, l \in 1 .. n : k < l => Before(spans, o[k], o[l])
    BY SpanOrderFacts
<1>2. taken \in Seq(SpansIn(text)) /\ TookFrom(taken, spans, n)
    BY TakenFacts
<1> HIDE DEF o, taken
<1>3. chosen = ByStart(taken)
    BY DEF NonOverlapping, ByStart, taken
<1>4. /\ chosen \in Seq(SpansIn(text)) /\ ToSet(chosen) = ToSet(taken)
      /\ \A i, j \in DOMAIN chosen : i < j => chosen[i].to < chosen[j].from
    <2>1. \A i, j \in DOMAIN taken : i # j => ~Overlap(taken[i], taken[j])
        BY <1>2 DEF TookFrom
    <2> QED BY <1>2, <1>3, <2>1, StartFacts
<1>5. ToSet(chosen) \subseteq ToSet(spans)
    <2>1. \A s \in ToSet(taken) : \E m \in 1 .. n : s = x(m)
        BY <1>2 DEF TookFrom, o
    <2> QED BY <1>1, <1>4, <2>1 DEF ToSet
<1>6. ASSUME NEW c \in ToSet(spans)
      PROVE  \E i \in DOMAIN chosen :
                /\ Overlap(chosen[i], c)
                /\ chosen[i].from <= c.from
                /\ chosen[i].from = c.from /\ c.key # "name" => c.to <= chosen[i].to
    <2>1. PICK l \in 1 .. n : c = x(l)
        BY <1>1 DEF ToSet
    <2>2. PICK m \in 1 .. l : x(m) \in ToSet(taken) /\ Overlap(x(m), c)
        BY <1>2, <2>1 DEF TookFrom, o
    <2>3. m \in 1 .. n /\ (m = l \/ m < l)
        BY <1>1
    <2>4. PICK i \in DOMAIN chosen : chosen[i] = x(m)
        BY <1>4, <2>2 DEF ToSet
    <2>5. /\ c.from \in Nat /\ c.to \in Nat /\ x(m).from \in Nat /\ x(m).to \in Nat
        BY <1>1, <2>1, <2>3, SpanFacts
    <2>6. CASE m = l
        <3>1. chosen[i] = c
            BY <2>1, <2>4, <2>6
        <3>2. Overlap(chosen[i], c) /\ c.from <= c.from /\ c.to <= c.to
            BY <2>2, <2>4, <2>5
        <3> QED BY <3>1, <3>2
    <2>7. CASE m < l
        <3>1. Before(spans, o[m], o[l])
            BY <1>1, <2>3, <2>7
        <3>2. x(m).from <= c.from /\ (x(m).from = c.from /\ c.key # "name" => c.to <= x(m).to)
            BY <2>1, <2>5, <3>1 DEF Before
        <3> QED BY <2>2, <2>4, <3>2
    <2> QED BY <2>3, <2>6, <2>7
<1> QED BY <1>4, <1>5, <1>6 DEF Chosen

--------------------------------------------------------------------------------
(* The spans that are listed.                                                  *)

\* What the vault stands for.
Entry == [key : EntityKeys, value : Seq(Words) \ {<<>>}]

\* The letters of a word are some of its characters.
LEMMA LettersKept ==
    ASSUME NEW w, Written(w) \in Seq(STRING)
    PROVE  Letters(w) \in Seq(STRING)
<1> DEFINE s == Written(w)
           P == {c \in STRING : c \notin Signs}
<1>1. \A i \in DOMAIN s : s[i] \in P <=> s[i] \notin Signs
    OBVIOUS
<1> HIDE DEF P
<1>2. Letters(w) = FlattenSeq([i \in DOMAIN s |-> IF s[i] \in P THEN <<s[i]>> ELSE <<>>])
    BY <1>1 DEF Letters, Kept
<1> HIDE DEF s
<1>3. s \in Seq(STRING)
    BY DEF s
<1> QED BY <1>2, <1>3, KeptMembers

\* A word has letters, and is in no brackets.
LEMMA WordFacts ==
    /\ Words \subseteq Units
    /\ \A u \in Units : Letters(u.id) \in Seq(STRING)
    /\ \A u \in Words : u.is = "word"
    /\ Seq(Words) \subseteq Seq(Units)
<1>1. Words \subseteq Units
    BY DEF Words
<1>2. Seq(Words) \subseteq Seq(Units)
    BY <1>1
<1>3. \A u \in Units : Written(u.id) \in Seq(STRING)
    BY DEF Units
<1>4. \A u \in Units : Letters(u.id) \in Seq(STRING)
    BY <1>3, LettersKept
<1> QED BY <1>1, <1>2, <1>4 DEF Words

\* A word that is written is one.
LEMMA WordOf ==
    ASSUME NEW w \in STRING, Written(w) \in Seq(STRING)
    PROVE  Word(w) \in Words /\ Word(w).id = w
<1> QED BY DEF Word, Unit, Words, Units

\* The length of a text in characters.
LEMMA CharacterFacts ==
    ASSUME NEW text \in Seq(Units)
    PROVE  Len(Characters(text)) \in Nat
<1> DEFINE n == Len(text)
           S == STRING \cup {"blank"}
           ss == [i \in 1 .. n |-> (IF i = 1 THEN <<>> ELSE <<"blank">>) \o Written(text[i].id)]
<1>1. n \in Nat /\ DOMAIN text = 1 .. n /\ \A i \in 1 .. n : Written(text[i].id) \in Seq(S)
    <2>1. \A i \in 1 .. n : Written(text[i].id) \in Seq(STRING)
        BY DEF Units
    <2>2. Seq(STRING) \subseteq Seq(S)
        OBVIOUS
    <2> QED BY <2>1, <2>2
<1> HIDE DEF S
<1>2. <<>> \in Seq(S) /\ <<"blank">> \in Seq(S)
    BY DEF S
<1>3. \A i \in 1 .. n : ss[i] \in Seq(S)
    <2> TAKE i \in 1 .. n
    <2>1. Written(text[i].id) \in Seq(S)
        BY <1>1
    <2> QED BY <1>2, <2>1
<1>4. ss \in [1 .. n -> Seq(S)]
    <2>1. DOMAIN ss = 1 .. n /\ ss = [i \in 1 .. n |-> ss[i]]
        OBVIOUS
    <2> HIDE DEF ss, n
    <2> QED BY <1>3, <2>1
<1>5. Characters(text) = FlattenSeq(ss)
    BY <1>1 DEF Characters
<1> HIDE DEF ss, n
<1>6. Characters(text) \in Seq(S)
    BY <1>1, <1>4, <1>5, FlatMembers
<1> QED BY <1>6

\* A text in letters is a sequence.
LEMMA NormFacts ==
    ASSUME NEW text \in Seq(Units)
    PROVE  Norm(text) \in Seq(STRING) /\ Len(Norm(text)) \in Nat
<1> DEFINE n == Len(text)
           ss == [i \in 1 .. n |-> Letters(text[i].id)]
<1>1. n \in Nat /\ DOMAIN text = 1 .. n /\ \A i \in 1 .. n : text[i] \in Units
    OBVIOUS
<1>2. \A i \in 1 .. n : Letters(text[i].id) \in Seq(STRING)
    BY <1>1, WordFacts
<1>3. ss \in [1 .. n -> Seq(STRING)]
    BY <1>2
<1>4. Norm(text) = FlattenSeq(ss)
    BY <1>1 DEF Norm
<1> HIDE DEF ss, n
<1>5. Norm(text) \in Seq(STRING)
    BY <1>1, <1>3, <1>4, FlatMembers
<1> QED BY <1>5

\* An entry has a key and a value of words.
LEMMA EntryFacts ==
    ASSUME NEW e \in Entry
    PROVE  /\ e.key \in EntityKeys /\ e.value \in Seq(Words) /\ e.value \in Seq(Units) /\ e.value # <<>>
           /\ Len(Characters(e.value)) \in Nat
<1>1. e.key \in EntityKeys /\ e.value \in Seq(Words) /\ e.value # <<>>
    BY DEF Entry
<1>2. e.value \in Seq(Units)
    BY <1>1, WordFacts
<1> QED BY <1>1, <1>2, CharacterFacts

\* A part of a text with a key of its own, all words, is a span of it.
LEMMA PlainFacts ==
    ASSUME NEW text \in Seq(Units), NEW i \in 1 .. Len(text), NEW j \in 1 .. Len(text), i <= j,
           NEW key \in EntityKeys, NEW latest \in BOOLEAN, \A k \in i .. j : text[k].is = "word"
    PROVE  Span(i, j, key, SubSeq(text, i, j), latest) \in SpansIn(text)
<1> DEFINE value == SubSeq(text, i, j)
           s == Span(i, j, key, value, latest)
<1>1. /\ value \in Seq(Units) /\ Len(value) = (j - i) + 1
      /\ \A k \in 1 .. (j - i) + 1 : value[k] = text[i + k - 1]
    BY SubSeqProperties
<1>2. ToSet(value) \subseteq Words
    <2> SUFFICES ASSUME NEW k \in 1 .. (j - i) + 1 PROVE value[k] \in Words
        BY <1>1 DEF ToSet
    <2>1. i + k - 1 \in i .. j /\ i + k - 1 \in 1 .. Len(text)
        OBVIOUS
    <2>2. text[i + k - 1] \in Units /\ text[i + k - 1].is = "word"
        BY <2>1
    <2> QED BY <1>1, <2>2 DEF Words
<1>3. value # <<>>
    BY <1>1
<1> HIDE DEF value
<1>4. key \in SpanKeys /\ key # "name"
    BY DEF SpanKeys, EntityKeys
<1>5. s \in SpansOf(text, SpanKeys)
    BY <1>1, <1>4 DEF Span, SpansOf
<1>6. s.from = i /\ s.to = j /\ s.value = value /\ s.key = key
    BY DEF Span
<1> HIDE DEF s
<1>7. s \in SpansIn(text)
    BY <1>2, <1>3, <1>4, <1>5, <1>6 DEF SpansIn
<1> QED BY <1>7 DEF s, value

\* The spans where a text reads as an entry.
ReadsAs(text, e, suppressed, allow) ==
    {Plain(text, r[1], r[2], e.key) : r \in Occurrences(text, e, suppressed, allow)}

\* They are spans of the text, and finitely many.
LEMMA ReadsAsFacts ==
    ASSUME NEW text \in Seq(Units), NEW e \in Entry, NEW suppressed, NEW allow
    PROVE  ReadsAs(text, e, suppressed, allow) \subseteq SpansIn(text)
           /\ IsFiniteSet(ReadsAs(text, e, suppressed, allow))
<1> DEFINE D == 1 .. Len(text)
           O == Occurrences(text, e, suppressed, allow)
           T == {Plain(text, r[1], r[2], e.key) : r \in O}
<1>1. D = DOMAIN text /\ IsFiniteSet(D)
    BY FS_Interval
<1>2. /\ O \subseteq D \X D
      /\ \A r \in O : r[1] <= r[2] /\ \A i \in r[1] .. r[2] : text[i].is = "word"
    BY <1>1 DEF Occurrences, Matches
<1>3. IsFiniteSet(O)
    <2>1. IsFiniteSet(D \X D)
        <3> HIDE DEF D
        <3> QED BY <1>1, FS_Product
    <2> HIDE DEF D, O
    <2> QED BY <1>2, <2>1, FS_Subset
<1>4. IsFiniteSet(T)
    <2> DEFINE g == [r \in O |-> Plain(text, r[1], r[2], e.key)]
    <2> HIDE DEF O
    <2>1. g \in Surjection(O, T)
        BY DEF Surjection
    <2> HIDE DEF g, T
    <2> QED BY <1>3, <2>1, FS_Surjection
<1>5. T \subseteq SpansIn(text)
    <2> SUFFICES ASSUME NEW r \in O PROVE Plain(text, r[1], r[2], e.key) \in SpansIn(text)
        OBVIOUS
    <2>1. r[1] \in D /\ r[2] \in D /\ r[1] <= r[2] /\ \A i \in r[1] .. r[2] : text[i].is = "word"
        BY <1>2
    <2>2. e.key \in EntityKeys /\ FALSE \in BOOLEAN
        BY EntryFacts
    <2> HIDE DEF O
    <2>3. Span(r[1], r[2], e.key, SubSeq(text, r[1], r[2]), FALSE) \in SpansIn(text)
        BY <2>1, <2>2, PlainFacts
    <2> QED BY <2>3 DEF Plain
<1>6. ReadsAs(text, e, suppressed, allow) = T
    BY DEF ReadsAs
<1> HIDE DEF T
<1> QED BY <1>4, <1>5, <1>6

\* The repeated values are those of every entry.
LEMMA RepeatsMembers ==
    ASSUME NEW text \in Seq(Units), NEW v \in Seq(Entry), NEW suppressed, NEW allow, NEW n, n = Len(v)
    PROVE  /\ Repeats(text, v, suppressed, allow) \in Seq(SpansIn(text))
           /\ ToSet(Repeats(text, v, suppressed, allow))
                  = UNION {ReadsAs(text, v[i], suppressed, allow) : i \in 1 .. n}
<1> DEFINE size(i) == Len(Characters(v[i].value))
           R == {x \in (1 .. n) \X (1 .. n) :
                    size(x[1]) > size(x[2]) \/ (size(x[1]) = size(x[2]) /\ x[1] < x[2])}
           o == Order(v, LAMBDA i, j : size(i) > size(j) \/ (size(i) = size(j) /\ i < j))
           S(i) == ReadsAs(text, v[i], suppressed, allow)
           ss == [k \in 1 .. n |-> SetToSeq(S(o[k]))]
<1>1. n \in Nat /\ DOMAIN v = 1 .. n /\ \A i \in 1 .. n : v[i] \in Entry
    OBVIOUS
<1>2. \A i \in 1 .. n : size(i) \in Nat
    BY <1>1, EntryFacts
<1> HIDE DEF size
<1>3. \A i, j \in 1 .. n : <<i, j>> \in R <=> size(i) > size(j) \/ (size(i) = size(j) /\ i < j)
    OBVIOUS
<1> HIDE DEF R
<1>4. StrictTotal(n, R)
    <2>1. \A i \in 1 .. n : <<i, i>> \notin R
        BY <1>1, <1>2, <1>3
    <2>2. \A i, j \in 1 .. n : i # j => <<i, j>> \in R \/ <<j, i>> \in R
        BY <1>1, <1>2, <1>3
    <2>3. \A i, j, k \in 1 .. n : <<i, j>> \in R /\ <<j, k>> \in R => <<i, k>> \in R
        BY <1>1, <1>2, <1>3
    <2> QED BY <2>1, <2>2, <2>3 DEF StrictTotal
<1>5. \A i \in 1 .. n :
         Cardinality({j \in 1 .. n : size(j) > size(i) \/ (size(j) = size(i) /\ j < i)}) + 1 = Place(n, R, i)
    <2> TAKE i \in 1 .. n
    <2>1. {j \in 1 .. n : size(j) > size(i) \/ (size(j) = size(i) /\ j < i)} = {j \in 1 .. n : <<j, i>> \in R}
        BY <1>3
    <2> QED BY <2>1 DEF Place
<1>6. o = InPlaces(n, R)
    <2> DEFINE P == {<<Cardinality({j \in 1 .. n : size(j) > size(i) \/ (size(j) = size(i) /\ j < i)}) + 1, i>> :
                        i \in 1 .. n}
    <2>1. o = [k \in 1 .. n |-> CHOOSE i \in 1 .. n : <<k, i>> \in P]
        BY <1>1 DEF Order
    <2>2. P = {<<Place(n, R, x), x>> : x \in 1 .. n}
        BY <1>5
    <2> HIDE DEF P
    <2> QED BY <2>1, <2>2 DEF InPlaces
<1>7. o \in [1 .. n -> 1 .. n] /\ \A i \in 1 .. n : \E k \in 1 .. n : o[k] = i
    <2>1. n \in Nat
        BY <1>1
    <2>2. Sorts(InPlaces(n, R), n, R)
        BY <1>4, <2>1, PlacedList
    <2> QED BY <1>6, <2>2 DEF Sorts
<1>8. Repeats(text, v, suppressed, allow) = FlattenSeq(ss)
    <2> DEFINE sizes == [i \in DOMAIN v |-> Len(Characters(v[i].value))]
               order == Order(v, LAMBDA i, j : sizes[i] > sizes[j] \/ (sizes[i] = sizes[j] /\ i < j))
    <2>1. \A i \in DOMAIN v : sizes[i] = size(i)
        BY DEF size
    <2> HIDE DEF sizes
    <2>2. order = o
        <3>1. \A i \in DOMAIN v :
                 {j \in DOMAIN v : sizes[j] > sizes[i] \/ (sizes[j] = sizes[i] /\ j < i)}
                     = {j \in DOMAIN v : size(j) > size(i) \/ (size(j) = size(i) /\ j < i)}
            BY <2>1
        <3> DEFINE P == {<<Cardinality({j \in DOMAIN v :
                                  sizes[j] > sizes[i] \/ (sizes[j] = sizes[i] /\ j < i)}) + 1, i>> : i \in DOMAIN v}
                   Q == {<<Cardinality({j \in DOMAIN v :
                                  size(j) > size(i) \/ (size(j) = size(i) /\ j < i)}) + 1, i>> : i \in DOMAIN v}
        <3>2. P = Q
            BY <3>1
        <3>3. order = [k \in DOMAIN v |-> CHOOSE i \in DOMAIN v : <<k, i>> \in P]
            BY DEF Order
        <3>4. o = [k \in DOMAIN v |-> CHOOSE i \in DOMAIN v : <<k, i>> \in Q]
            BY DEF Order
        <3> HIDE DEF P, Q, o, order
        <3> QED BY <3>2, <3>3, <3>4
    <2> HIDE DEF o, order
    <2>3. Repeats(text, v, suppressed, allow)
              = FlattenSeq([k \in DOMAIN v |-> SetToSeq(ReadsAs(text, v[order[k]], suppressed, allow))])
        BY DEF Repeats, ReadsAs, order, sizes
    <2> QED BY <1>1, <2>2, <2>3
<1> HIDE DEF o
<1>9. \A i \in 1 .. n : S(i) \subseteq SpansIn(text) /\ IsFiniteSet(S(i))
    BY <1>1, ReadsAsFacts
<1> HIDE DEF S
<1>10. ASSUME NEW k \in 1 .. n
       PROVE  ss[k] \in Seq(SpansIn(text)) /\ ToSet(ss[k]) = S(o[k])
    <2>1. o[k] \in 1 .. n /\ ss[k] = SetToSeq(S(o[k]))
        BY <1>7
    <2>2. S(o[k]) \subseteq SpansIn(text) /\ IsFiniteSet(S(o[k]))
        BY <1>9, <2>1
    <2>3. SetToSeq(S(o[k])) \in Seq(S(o[k])) /\ ToSet(SetToSeq(S(o[k]))) = S(o[k])
        BY <2>2, ListedMembers
    <2> HIDE DEF ss
    <2>4. Seq(S(o[k])) \subseteq Seq(SpansIn(text))
        BY <2>2
    <2> QED BY <2>1, <2>3, <2>4
<1>11. ss \in [1 .. n -> Seq(SpansIn(text))]
    <2>1. DOMAIN ss = 1 .. n /\ ss = [k \in 1 .. n |-> ss[k]]
        OBVIOUS
    <2> HIDE DEF ss
    <2> QED BY <1>10, <2>1
<1> HIDE DEF ss
<1>12. FlattenSeq(ss) \in Seq(SpansIn(text)) /\ ToSet(FlattenSeq(ss)) = UNION {ToSet(ss[k]) : k \in 1 .. n}
    BY <1>1, <1>11, FlatMembers
<1>13. UNION {ToSet(ss[k]) : k \in 1 .. n} = UNION {S(i) : i \in 1 .. n}
    <2>1. UNION {ToSet(ss[k]) : k \in 1 .. n} \subseteq UNION {S(i) : i \in 1 .. n}
        BY <1>7, <1>10
    <2>2. ASSUME NEW i \in 1 .. n PROVE S(i) \subseteq UNION {ToSet(ss[k]) : k \in 1 .. n}
        <3>1. PICK k \in 1 .. n : o[k] = i
            BY <1>7
        <3> QED BY <1>10, <3>1
    <2> QED BY <2>1, <2>2
<1> QED BY <1>8, <1>12, <1>13 DEF S

\* A correction is a surname in the text.
LEMMA CorrectionMembers ==
    ASSUME NEW m, m.text \in Seq(Units), NEW v, NEW allow
    PROVE  Correction(m, v, allow) \in Seq(SpansIn(m.text))
<1> DEFINE text == m.text
           span(p) == Span(p, p, "ln", SubSeq(text, p, p), TRUE)
           c == Correction(m, v, allow)
<1>1. ASSUME NEW p \in 1 .. Len(text), text[p].is = "word"
      PROVE  <<span(p)>> \in Seq(SpansIn(text))
    <2>1. "ln" \in EntityKeys /\ TRUE \in BOOLEAN /\ p <= p /\ \A k \in p .. p : text[k].is = "word"
        BY <1>1 DEF EntityKeys
    <2>2. span(p) \in SpansIn(text)
        BY <2>1, PlainFacts
    <2> HIDE DEF span
    <2> QED BY <2>2
<1>2. \/ c = <<>>
      \/ text # <<>> /\ text[1].is = "word" /\ c = <<span(1)>>
      \/ Len(text) >= 2 /\ text[2].is = "word" /\ c = <<span(2)>>
    BY DEF Correction, NameWord, Only
<1> HIDE DEF c, span
<1>3. CASE c = <<>>
    BY <1>3 DEF c
<1>4. CASE text # <<>> /\ text[1].is = "word" /\ c = <<span(1)>>
    <2>1. 1 \in 1 .. Len(text)
        BY <1>4
    <2> QED BY <1>1, <1>4, <2>1 DEF c
<1>5. CASE Len(text) >= 2 /\ text[2].is = "word" /\ c = <<span(2)>>
    <2>1. 2 \in 1 .. Len(text)
        BY <1>5
    <2> QED BY <1>1, <1>5, <2>1 DEF c
<1> QED BY <1>2, <1>3, <1>4, <1>5

\* The addresses and numbers that are found in a message, and the names that may be.
FoundIn(m) == m.presidio \cup m.expressions \cup m.spaced \cup m.unusual
InferredIn(m) == m.leading \cup m.inferred

\* A request is of a text, and what is found in it are spans of the text.
LEMMA RequestFacts ==
    ASSUME NEW r \in Requests
    PROVE  /\ r.m.text \in Seq(Units)
           /\ \A T \in {r.m.presidio, r.m.expressions, r.m.spaced, r.m.unusual, InferredIn(r.m)} :
                 T \subseteq SpansIn(r.m.text) /\ IsFiniteSet(T)
           /\ \A s \in FoundIn(r.m) : ~IsName(s.key)
           /\ \A s \in InferredIn(r.m) : IsName(s.key)
<1> DEFINE text == r.m.text
           C == FoundIn(r.m)
           I == InferredIn(r.m)
<1>1. text \in Seq(Units) /\ Finds(text, C, {"em", "ph"}) /\ Finds(text, I, ToSet(NameKeys) \cup {"name"})
    BY RequestsAssumption DEF FoundIn, InferredIn
<1> HIDE DEF text
<1>2. ToSet(NameKeys) = {"fn", "mn1", "mn2", "ln"}
    BY DEF NameKeys, ToSet
<1>3. {"em", "ph"} \subseteq SpanKeys /\ ToSet(NameKeys) \cup {"name"} \subseteq SpanKeys
    BY <1>2 DEF SpanKeys, EntityKeys
<1>4. ASSUME NEW keys, keys \subseteq SpanKeys, NEW T, Finds(text, T, keys)
      PROVE  T \subseteq SpansIn(text) /\ IsFiniteSet(T) /\ \A s \in T : s.key \in keys
    <2>1. IsFiniteSet(T)
        BY <1>4 DEF Finds
    <2>2. ASSUME NEW s \in T PROVE s \in SpansIn(text) /\ s.key \in keys
        <3>1. /\ s \in SpansOf(text, keys) /\ s.from <= s.to /\ s.value # <<>>
              /\ s.key # "name" => ToSet(s.value) \subseteq Words
              /\ s.key = "name" => Readable(s.value)
            BY <1>4 DEF Finds, HasWords, Readable
        <3>2. s \in SpansOf(text, SpanKeys) /\ s.key \in keys
            BY <1>4, <3>1 DEF SpansOf
        <3> QED BY <3>1, <3>2 DEF SpansIn
    <2> QED BY <2>1, <2>2
<1> HIDE DEF C, I
<1>5. C \subseteq SpansIn(text) /\ IsFiniteSet(C) /\ \A s \in C : s.key \in {"em", "ph"}
    BY <1>1, <1>3, <1>4
<1>6. I \subseteq SpansIn(text) /\ IsFiniteSet(I) /\ \A s \in I : s.key \in ToSet(NameKeys) \cup {"name"}
    BY <1>1, <1>3, <1>4
<1>7. \A s \in C : ~IsName(s.key)
    BY <1>2, <1>5 DEF IsName
<1>8. \A s \in I : IsName(s.key)
    BY <1>6 DEF IsName
<1>9. \A T \in {r.m.presidio, r.m.expressions, r.m.spaced, r.m.unusual} : T \subseteq C
    BY DEF C, FoundIn
<1>10. \A T \in {r.m.presidio, r.m.expressions, r.m.spaced, r.m.unusual} : IsFiniteSet(T)
    BY <1>5, <1>9, FS_Subset
<1> QED BY <1>1, <1>5, <1>6, <1>7, <1>8, <1>9, <1>10 DEF C, I, text

\* The list of a set of spans of a text.
LEMMA ListedSpans ==
    ASSUME NEW text, NEW T, T \subseteq SpansIn(text), IsFiniteSet(T)
    PROVE  SetToSeq(T) \in Seq(SpansIn(text)) /\ ToSet(SetToSeq(T)) = T
<1>1. SetToSeq(T) \in Seq(T) /\ ToSet(SetToSeq(T)) = T
    BY ListedMembers
<1>2. Seq(T) \subseteq Seq(SpansIn(text))
    OBVIOUS
<1> QED BY <1>1, <1>2

\* The addresses and numbers are spans of the text, and no names.
LEMMA ContactsMembers ==
    ASSUME NEW r \in Requests, NEW q
    PROVE  /\ Contacts(r.m, q) \in Seq(SpansIn(r.m.text))
           /\ \A s \in ToSet(Contacts(r.m, q)) : ~IsName(s.key)
<1> DEFINE S == SpansIn(r.m.text)
           a == SetToSeq(r.m.presidio)
           d == SetToSeq(r.m.expressions)
           b == IF "email" \in Cues(q) THEN SetToSeq(r.m.spaced) ELSE <<>>
           c == IF "phone" \in Cues(q) THEN SetToSeq(r.m.unusual) ELSE <<>>
<1>1. \A T \in {r.m.presidio, r.m.expressions, r.m.spaced, r.m.unusual} : T \subseteq S /\ IsFiniteSet(T)
    BY RequestFacts
<1>2. \A T \in {r.m.presidio, r.m.expressions, r.m.spaced, r.m.unusual} :
          SetToSeq(T) \in Seq(S) /\ ToSet(SetToSeq(T)) = T
    BY <1>1, ListedSpans
<1>3. <<>> \in Seq(S) /\ ToSet(<<>>) = {}
    BY DEF ToSet
<1>4. /\ a \in Seq(S) /\ d \in Seq(S) /\ b \in Seq(S) /\ c \in Seq(S)
      /\ ToSet(a) = r.m.presidio /\ ToSet(d) = r.m.expressions
      /\ ToSet(b) \subseteq r.m.spaced /\ ToSet(c) \subseteq r.m.unusual
    <2> HIDE DEF S
    <2>1. a \in Seq(S) /\ ToSet(a) = r.m.presidio
        BY <1>2
    <2>2. b \in Seq(S) /\ ToSet(b) \subseteq r.m.spaced
        BY <1>2, <1>3
    <2>3. c \in Seq(S) /\ ToSet(c) \subseteq r.m.unusual
        BY <1>2, <1>3
    <2>4. d \in Seq(S) /\ ToSet(d) = r.m.expressions
        BY <1>2
    <2> QED BY <2>1, <2>2, <2>3, <2>4
<1>5. Contacts(r.m, q) = ((a \o d) \o b) \o c
    BY DEF Contacts
<1> HIDE DEF a, b, c, d, S
<1> DEFINE ad == a \o d
           adb == ad \o b
<1>6. ad \in Seq(S) /\ ToSet(ad) = ToSet(a) \cup ToSet(d)
    BY <1>4, JoinedMembers
<1> HIDE DEF ad
<1>7. adb \in Seq(S) /\ ToSet(adb) = ToSet(ad) \cup ToSet(b)
    BY <1>4, <1>6, JoinedMembers
<1> HIDE DEF adb
<1>8. adb \o c \in Seq(S) /\ ToSet(adb \o c) = ToSet(adb) \cup ToSet(c)
    BY <1>4, <1>7, JoinedMembers
<1>9. \A s \in FoundIn(r.m) : ~IsName(s.key)
    BY RequestFacts
<1>10. Contacts(r.m, q) = adb \o c
    BY <1>5 DEF ad, adb
<1>11. ToSet(adb \o c) \subseteq FoundIn(r.m)
    BY <1>4, <1>6, <1>7, <1>8 DEF FoundIn
<1> QED BY <1>8, <1>9, <1>10, <1>11 DEF S

\* Whether a span is of a name.
NameIn(span, ranges) == IsName(span.key) /\ \E r \in ranges : Inside(span, r)
InRange(span, ranges) == \E r \in ranges : Inside(span, r)

\* What WithoutBusiness leaves.
LEMMA WithoutBusinessMembers ==
    ASSUME NEW text, NEW spans \in Seq(SpansIn(text)), NEW ranges
    PROVE  /\ WithoutBusiness(spans, ranges) \in Seq(SpansIn(text))
           /\ ToSet(WithoutBusiness(spans, ranges)) = {s \in ToSet(spans) : ~NameIn(s, ranges)}
<1> DEFINE S == SpansIn(text)
           P == {s \in S : ~NameIn(s, ranges)}
           k == WithoutBusiness(spans, ranges)
<1>1. \A i \in DOMAIN spans : spans[i] \in S
    OBVIOUS
<1>2. \A i \in DOMAIN spans : spans[i] \in P
                   <=> (~IsName(spans[i].key) \/ ~\E r \in ranges : Inside(spans[i], r))
    BY <1>1 DEF NameIn
<1> HIDE DEF P, S
<1>3. k = FlattenSeq([i \in DOMAIN spans |-> IF spans[i] \in P THEN <<spans[i]>> ELSE <<>>])
    BY <1>2 DEF WithoutBusiness, Kept
<1> HIDE DEF k
<1>4. k \in Seq(S) /\ ToSet(k) = ToSet(spans) \cap P
    BY <1>3, KeptMembers DEF S
<1>5. ToSet(spans) \subseteq S
    BY <1>1 DEF ToSet
<1> QED BY <1>4, <1>5 DEF P, S, k

\* What OutsideGreetings leaves.
LEMMA OutsideGreetingsMembers ==
    ASSUME NEW text, NEW spans \in Seq(SpansIn(text)), NEW m
    PROVE  /\ OutsideGreetings(m, spans) \in Seq(SpansIn(text))
           /\ ToSet(OutsideGreetings(m, spans)) = {s \in ToSet(spans) : ~InRange(s, m.greeting)}
<1> DEFINE S == SpansIn(text)
           P == {s \in S : ~InRange(s, m.greeting)}
           k == OutsideGreetings(m, spans)
<1>1. \A i \in DOMAIN spans : spans[i] \in S
    OBVIOUS
<1>2. \A i \in DOMAIN spans : spans[i] \in P <=> ~\E r \in m.greeting : Inside(spans[i], r)
    BY <1>1 DEF InRange
<1> HIDE DEF P, S
<1>3. k = FlattenSeq([i \in DOMAIN spans |-> IF spans[i] \in P THEN <<spans[i]>> ELSE <<>>])
    BY <1>2 DEF OutsideGreetings, Kept
<1> HIDE DEF k
<1>4. k \in Seq(S) /\ ToSet(k) = ToSet(spans) \cap P
    BY <1>3, KeptMembers DEF S
<1>5. ToSet(spans) \subseteq S
    BY <1>1 DEF ToSet
<1> QED BY <1>4, <1>5 DEF P, S, k

\* The names that are new in a message: corrections, and what is inferred.
NewNames(m, v, suppressed, allow, inferred) ==
    IF suppressed THEN <<>> ELSE Names(m, v, allow, inferred)

\* A span that is listed: known, an address or a number, or new and no answer about the
\* business; not inside the opening greeting.
ListedFor(s, m, q, v, suppressed, allow, inferred) ==
    /\ \/ s \in ToSet(Repeats(m.text, v, suppressed, allow))
       \/ s \in ToSet(Contacts(m, q))
       \/ s \in ToSet(NewNames(m, v, suppressed, allow, inferred)) /\ ~NameIn(s, BusinessRanges(m, q))
    /\ ~InRange(s, m.greeting)

SpansAre(r, q, v, suppressed, allow, inferred) ==
    LET spans == Spans(r.m, q, v, suppressed, allow, inferred)
    IN  /\ spans \in Seq(SpansIn(r.m.text))
        /\ \A s : s \in ToSet(spans) <=> ListedFor(s, r.m, q, v, suppressed, allow, inferred)

\* What is listed for a message: what the vault knows, addresses and numbers, and new
\* names outside the business answers; nothing inside the opening greeting.
LEMMA SpansMembers ==
    ASSUME NEW r \in Requests, NEW q, NEW v \in Seq(Entry), NEW suppressed, NEW allow,
           NEW inferred \in SUBSET InferredIn(r.m)
    PROVE  SpansAre(r, q, v, suppressed, allow, inferred)
<1> DEFINE m == r.m
           spans == Spans(r.m, q, v, suppressed, allow, inferred)
           S == SpansIn(m.text)
           a == Repeats(m.text, v, suppressed, allow)
           b == Contacts(m, q)
           new == NewNames(m, v, suppressed, allow, inferred)
           c == WithoutBusiness(new, BusinessRanges(m, q))
           ab == a \o b
           abc == ab \o c
<1>1. m.text \in Seq(Units) /\ inferred \subseteq S /\ IsFiniteSet(inferred)
    <2>1. InferredIn(m) \subseteq S /\ IsFiniteSet(InferredIn(m)) /\ m.text \in Seq(Units)
        BY RequestFacts
    <2> HIDE DEF S
    <2>2. IsFiniteSet(inferred)
        BY <2>1, FS_Subset
    <2> QED BY <2>1, <2>2
<1>2. a \in Seq(S)
    BY <1>1, RepeatsMembers
<1>3. b \in Seq(S)
    BY ContactsMembers
<1>4. new \in Seq(S)
    <2> DEFINE x == Correction(m, v, allow)
               y == SetToSeq(inferred \cap m.inferred)
               z == SetToSeq(inferred \cap m.leading)
    <2>1. x \in Seq(S)
        BY <1>1, CorrectionMembers
    <2>2. \A T \in SUBSET inferred : T \subseteq S /\ IsFiniteSet(T)
        BY <1>1, FS_Subset
    <2>3. y \in Seq(S) /\ z \in Seq(S)
        <3>1. inferred \cap m.inferred \in SUBSET inferred /\ inferred \cap m.leading \in SUBSET inferred
            OBVIOUS
        <3> QED BY <2>2, <3>1, ListedSpans
    <2> HIDE DEF S, x, y, z
    <2>4. (z \o x) \o y \in Seq(S) /\ <<>> \in Seq(S)
        BY <2>1, <2>3
    <2> QED BY <2>4 DEF NewNames, Names, x, y, z
<1>5. spans = OutsideGreetings(m, abc)
    BY DEF Spans, NewNames
<1> HIDE DEF a, b, new, spans
<1>6. c \in Seq(S) /\ ToSet(c) = {n \in ToSet(new) : ~NameIn(n, BusinessRanges(m, q))}
    <2> HIDE DEF m
    <2> QED BY <1>4, WithoutBusinessMembers
<1> HIDE DEF c, S
<1>7. ab \in Seq(S) /\ ToSet(ab) = ToSet(a) \cup ToSet(b)
    BY <1>2, <1>3, JoinedMembers
<1> HIDE DEF ab
<1>8. abc \in Seq(S) /\ ToSet(abc) = ToSet(ab) \cup ToSet(c)
    BY <1>6, <1>7, JoinedMembers
<1> HIDE DEF abc
<1>9. spans \in Seq(S) /\ ToSet(spans) = {s \in ToSet(abc) : ~InRange(s, m.greeting)}
    <2> DEFINE text == m.text
    <2>1. abc \in Seq(SpansIn(text))
        BY <1>8 DEF S
    <2> HIDE DEF text, m
    <2>2. /\ OutsideGreetings(m, abc) \in Seq(SpansIn(text))
          /\ ToSet(OutsideGreetings(m, abc)) = {s \in ToSet(abc) : ~InRange(s, m.greeting)}
        BY <2>1, OutsideGreetingsMembers
    <2> QED BY <1>5, <2>2 DEF S, text
<1>10. ASSUME NEW s PROVE s \in ToSet(spans) <=> ListedFor(s, m, q, v, suppressed, allow, inferred)
    BY <1>6, <1>7, <1>8, <1>9 DEF ListedFor, a, b, new
<1> QED BY <1>9, <1>10 DEF S, SpansAre, spans

\* A redaction of r: what was listed and chosen for it, with the vault v before it.
Redacted(r, v, suppressed, inferred) ==
    /\ last'.m = r.m /\ last'.q = r.q /\ last'.allow = r.allow
    /\ last'.suppressed = suppressed /\ last'.before = v
    /\ last'.chosen = NonOverlapping(Spans(r.m, r.q, v, suppressed, r.allow, inferred))
    /\ vault' = Replaced(r.m.text, last'.chosen, v).v
    /\ last'.out = Replaced(r.m.text, last'.chosen, v).out
    /\ inferred \in SUBSET InferredIn(r.m)
    /\ suppressed = Suppressed(r.m, r.q, RequestType(r.m, r.q, r.pending, r.allow), r.allow)

\* What a step of the engine is.
LEMMA StepCases ==
    ASSUME Next, last.made \in BOOLEAN
    PROVE  \/ /\ last'.made = TRUE
              /\ \E r \in Requests, suppressed \in BOOLEAN : \E inferred \in SUBSET InferredIn(r.m) :
                    Redacted(r, vault, suppressed, inferred)
           \/ last'.made = FALSE /\ vault' = vault
<1>1. ASSUME NEW r \in Requests, Redact(r.m, r.q, r.pending, r.allow)
      PROVE  /\ last'.made = TRUE
             /\ \E s \in Requests, suppressed \in BOOLEAN : \E inferred \in SUBSET InferredIn(s.m) :
                    Redacted(s, vault, suppressed, inferred)
    <2> DEFINE type == RequestType(r.m, r.q, r.pending, r.allow)
               suppressed == Suppressed(r.m, r.q, type, r.allow)
    <2>1. PICK inferred \in IF suppressed THEN {{}} ELSE MayInfer(r.m, type, vault, r.allow) :
             LET w == Redaction(r.m, r.q, vault, suppressed, r.allow, inferred)
             IN  vault' = w.after /\ last' = w
        BY <1>1 DEF Redact
    <2>2. suppressed \in BOOLEAN
        BY DEF Suppressed
    <2>3. inferred \in SUBSET InferredIn(r.m)
        BY <2>1 DEF MayInfer, InferredIn
    <2> HIDE DEF suppressed
    <2>4. last'.made = TRUE /\ Redacted(r, vault, suppressed, inferred)
        BY <2>1, <2>3 DEF Redacted, Redaction, suppressed
    <2> QED BY <2>2, <2>3, <2>4
<1>2. ASSUME NEW text \in Replies, Idle, Rehydrate(text)
      PROVE  last'.made = FALSE /\ vault' = vault
    BY <1>2 DEF Rehydrate, Idle
<1>3. ASSUME Answer PROVE last'.made = FALSE /\ vault' = vault
    BY <1>3 DEF Answer, NoRedaction
<1> QED BY <1>1, <1>2, <1>3 DEF Next

--------------------------------------------------------------------------------
(* What the vault learns.                                                      *)

\* What a redacted text is made of.
Pieces == Units \cup [is : {"token"}, id : EntityKeys, n : Nat]

\* w is v with entries of L added or put in place of others.
Teaches(v, w, L) ==
    /\ w \in Seq(Entry)
    /\ Len(v) <= Len(w)
    /\ \A i \in 1 .. Len(w) : i > Len(v) \/ w[i] # v[i] => w[i] \in L

\* Nothing learned, and one lesson after another.
LEMMA TeachesNothing ==
    ASSUME NEW v \in Seq(Entry), NEW K
    PROVE  Teaches(v, v, K)
<1>1. Len(v) \in Nat
    OBVIOUS
<1> QED BY <1>1 DEF Teaches

\* Lessons add up.
LEMMA TeachesOn ==
    ASSUME NEW u \in Seq(Entry), NEW v, NEW w, NEW K, NEW L, NEW M,
           Teaches(u, v, K), Teaches(v, w, L), K \subseteq M, L \subseteq M
    PROVE  Teaches(u, w, M)
<1>1. /\ v \in Seq(Entry) /\ w \in Seq(Entry) /\ Len(u) <= Len(v) /\ Len(v) <= Len(w)
      /\ \A i \in 1 .. Len(v) : i > Len(u) \/ v[i] # u[i] => v[i] \in K
      /\ \A i \in 1 .. Len(w) : i > Len(v) \/ w[i] # v[i] => w[i] \in L
    BY DEF Teaches
<1>2. Len(u) \in Nat /\ Len(v) \in Nat /\ Len(w) \in Nat
    BY <1>1
<1>3. ASSUME NEW i \in 1 .. Len(w), i > Len(u) \/ w[i] # u[i] PROVE w[i] \in M
    <2>1. CASE i > Len(v) \/ w[i] # v[i]
        BY <1>1, <2>1
    <2>2. CASE ~(i > Len(v) \/ w[i] # v[i])
        <3>1. i \in 1 .. Len(v) /\ w[i] = v[i]
            BY <1>2, <2>2
        <3> QED BY <1>1, <1>3, <3>1
    <2> QED BY <2>1, <2>2
<1> QED BY <1>1, <1>2, <1>3 DEF Teaches

\* The latest of a key is one of it.
LEMMA LatestFacts ==
    ASSUME NEW v \in Seq(Entry), NEW key, OfKey(v, key) # {}
    PROVE  Latest(v, key) \in OfKey(v, key)
<1> DEFINE S == OfKey(v, key)
           n == Len(v)
<1>1. n \in Nat /\ S \subseteq 1 .. n
    BY DEF OfKey
<1>2. IsFiniteSet(1 .. n)
    BY <1>1, FS_Interval
<1> HIDE DEF S, n
<1>3. IsFiniteSet(S) /\ S \in SUBSET Nat
    <2>1. IsFiniteSet(S)
        BY <1>1, <1>2, FS_Subset
    <2> QED BY <1>1, <2>1
<1>4. S # {}
    BY DEF S
<1>5. \E i \in S : \A j \in S : j <= i
    BY <1>3, <1>4, GreatestNatural
<1> QED BY <1>5 DEF Latest, S

\* Registering a value teaches at most its entry, and says where it is.
LEMMA RegisteredFacts ==
    ASSUME NEW v \in Seq(Entry), NEW key \in EntityKeys, NEW value \in Seq(Words) \ {<<>>}, NEW latest,
           NEW reg, reg = Registered(v, key, value, latest)
    PROVE  Teaches(v, reg.v, {[key |-> key, value |-> value]}) /\ reg.at \in 1 .. Len(reg.v)
<1> DEFINE e == [key |-> key, value |-> value]
<1>1. Len(v) \in Nat /\ DOMAIN v = 1 .. Len(v) /\ \A i \in 1 .. Len(v) : v[i] \in Entry
    OBVIOUS
<1>2. CASE Known(v, key, value) # {}
    <2>1. reg = [v |-> v, at |-> CHOOSE i \in Known(v, key, value) : TRUE]
        BY <1>2 DEF Registered
    <2>2. reg.v = v /\ reg.at \in Known(v, key, value)
        BY <1>2, <2>1
    <2>3. Known(v, key, value) \subseteq 1 .. Len(v)
        BY <1>1 DEF Known, OfKey
    <2>4. Teaches(v, v, {e})
        BY TeachesNothing
    <2> QED BY <2>2, <2>3, <2>4
<1>3. CASE Known(v, key, value) = {} /\ latest /\ OfKey(v, key) # {}
    <2> DEFINE l == Latest(v, key)
               w == [v EXCEPT ![l].value = value]
    <2>1. reg = [v |-> w, at |-> l]
        BY <1>3 DEF Registered
    <2>2. l \in 1 .. Len(v) /\ v[l].key = key
        BY <1>1, <1>3, LatestFacts DEF OfKey
    <2> HIDE DEF l
    <2>3. w = [i \in 1 .. Len(v) |-> IF i = l THEN [v[l] EXCEPT !.value = value] ELSE v[i]]
        BY <1>1, <2>2
    <2>4. [v[l] EXCEPT !.value = value] \in Entry /\ [v[l] EXCEPT !.value = value] = e
        <3>1. v[l] \in Entry
            BY <1>1, <2>2
        <3> QED BY <2>2, <3>1 DEF Entry
    <2> HIDE DEF w
    <2>5. w \in Seq(Entry) /\ Len(w) = Len(v)
        BY <1>1, <2>3, <2>4
    <2>6. \A i \in 1 .. Len(v) : i > Len(v) \/ w[i] # v[i] => w[i] \in {e}
        BY <1>1, <2>3, <2>4
    <2>7. Teaches(v, w, {e})
        BY <1>1, <2>5, <2>6 DEF Teaches
    <2> QED BY <2>1, <2>2, <2>5, <2>7
<1>4. CASE Known(v, key, value) = {} /\ ~(latest /\ OfKey(v, key) # {})
    <2> DEFINE w == Append(v, e)
    <2>1. reg = [v |-> w, at |-> Len(v) + 1]
        BY <1>4 DEF Registered
    <2>2. e \in Entry
        BY DEF Entry
    <2> HIDE DEF e
    <2>3. /\ w \in Seq(Entry) /\ Len(w) = Len(v) + 1
          /\ \A i \in 1 .. Len(v) : w[i] = v[i]
          /\ w[Len(v) + 1] = e
        BY <1>1, <2>2, AppendProperties
    <2> HIDE DEF w
    <2>4. ASSUME NEW i \in 1 .. Len(w), i > Len(v) \/ w[i] # v[i] PROVE w[i] \in {e}
        <3>1. i = Len(v) + 1
            BY <1>1, <2>3, <2>4
        <3> QED BY <2>2, <2>3, <3>1
    <2>5. Teaches(v, w, {e})
        BY <1>1, <2>3, <2>4 DEF Teaches
    <2> QED BY <1>1, <2>1, <2>3, <2>5 DEF e
<1> QED BY <1>2, <1>3, <1>4

\* A token of the vault is a piece of a redacted text.
LEMMA TokenAtFacts ==
    ASSUME NEW v \in Seq(Entry), NEW i \in 1 .. Len(v)
    PROVE  TokenAt(v, i) \in Pieces /\ Number(v, i) \in Nat
<1>1. v[i] \in Entry
    OBVIOUS
<1>2. v[i].key \in EntityKeys
    BY <1>1, EntryFacts
<1>3. Number(v, i) \in Nat
    <2> DEFINE S == {j \in 1 .. i : v[j].key = v[i].key}
    <2>1. IsFiniteSet(1 .. i)
        BY FS_Interval
    <2>2. IsFiniteSet(S)
        BY <2>1, FS_Subset
    <2>3. Cardinality(S) \in Nat
        BY <2>2, FS_CardinalityType
    <2> QED BY <2>3 DEF Number
<1> QED BY <1>2, <1>3 DEF TokenAt, Token, Unit, Pieces

\* What has been registered, and put out: the vault and the tokens.
Progress == [v : Seq(Entry), out : Seq(Pieces)]
AddPart(r, p, latest) ==
    LET reg == Registered(r.v, p.key, p.value, latest)
    IN  [v |-> reg.v, out |-> Append(r.out, TokenAt(reg.v, reg.at))]
PartsOf(K) == [key : K, value : Seq(Words) \ {<<>>}]

\* A part more is a lesson in it, and a token more.
LEMMA AddPartFacts ==
    ASSUME NEW r \in Progress, NEW p \in PartsOf(EntityKeys), NEW latest
    PROVE  /\ AddPart(r, p, latest) \in Progress
           /\ Teaches(r.v, AddPart(r, p, latest).v, {p})
           /\ Len(AddPart(r, p, latest).out) = Len(r.out) + 1
<1> DEFINE reg == Registered(r.v, p.key, p.value, latest)
           t == TokenAt(reg.v, reg.at)
<1>1. r.v \in Seq(Entry) /\ r.out \in Seq(Pieces)
    BY DEF Progress
<1>2. p.key \in EntityKeys /\ p.value \in Seq(Words) \ {<<>>}
    BY DEF PartsOf
<1>3. Teaches(r.v, reg.v, {p}) /\ reg.at \in 1 .. Len(reg.v)
    <2> DEFINE key == p.key
               value == p.value
    <2>1. p = [key |-> key, value |-> value]
        BY DEF PartsOf
    <2> HIDE DEF key, value
    <2>2. /\ r.v \in Seq(Entry) /\ key \in EntityKeys /\ value \in Seq(Words) \ {<<>>}
          /\ reg = Registered(r.v, key, value, latest)
        BY <1>1, <1>2 DEF key, value
    <2> HIDE DEF reg
    <2>3. Teaches(r.v, reg.v, {[key |-> key, value |-> value]}) /\ reg.at \in 1 .. Len(reg.v)
        BY <2>2, RegisteredFacts
    <2> QED BY <2>1, <2>3
<1>4. AddPart(r, p, latest) = [v |-> reg.v, out |-> Append(r.out, t)]
    BY DEF AddPart
<1> HIDE DEF reg
<1>5. reg.v \in Seq(Entry)
    BY <1>3 DEF Teaches
<1>6. t \in Pieces
    BY <1>3, <1>5, TokenAtFacts
<1> HIDE DEF t
<1>7. Append(r.out, t) \in Seq(Pieces) /\ Len(Append(r.out, t)) = Len(r.out) + 1
    BY <1>1, <1>6, AppendProperties
<1> QED BY <1>3, <1>4, <1>5, <1>7 DEF Progress

\* st registers the parts in order.
RegistersAll(st, start, parts, latest, n) ==
    /\ st[0] = start /\ st[n] = Register(start, parts, latest)
    /\ \A k \in 1 .. n : st[k] = AddPart(st[k - 1], parts[k], latest)

\* Parts are registered one after the other.
LEMMA RegisterSteps ==
    ASSUME NEW start \in Progress, NEW parts \in Seq(PartsOf(EntityKeys)), NEW latest,
           NEW n, n = Len(parts)
    PROVE  \E st \in [0 .. n -> Progress] : RegistersAll(st, start, parts, latest, n)
<1> DEFINE A == Progress
           F == [x \in (1 .. n) \X A |-> AddPart(x[2], parts[x[1]], latest)]
           Is(it) == it = [s \in SUBSET (1 .. n) |->
                              IF s = {} THEN start
                              ELSE AddPart(it[s \ {Greatest(s)}], parts[Greatest(s)], latest)]
<1>1. n \in Nat /\ DOMAIN parts = 1 .. n /\ \A i \in 1 .. n : parts[i] \in PartsOf(EntityKeys)
    OBVIOUS
<1>2. ASSUME NEW k \in 1 .. n, NEW a \in A PROVE AddPart(a, parts[k], latest) \in A
    BY <1>1, AddPartFacts
<1> HIDE DEF A
<1>3. F \in [(1 .. n) \X A -> A] /\ \A k \in 1 .. n, a \in A : F[<<k, a>>] = AddPart(a, parts[k], latest)
    BY <1>2
<1> HIDE DEF F
<1>4. start \in A
    BY DEF A
<1>5. PICK it0 \in [SUBSET (1 .. n) -> A] : Goes(it0, 1 .. n, start, F)
    BY <1>1, <1>3, <1>4, GoingExists
<1>6. Is(it0)
    <2>1. ASSUME NEW s \in SUBSET (1 .. n), s # {}
          PROVE  F[<<Greatest(s), it0[s \ {Greatest(s)}]>>]
                     = AddPart(it0[s \ {Greatest(s)}], parts[Greatest(s)], latest)
        <3>1. Greatest(s) \in 1 .. n
            BY <1>1, <2>1, GreatestFacts
        <3>2. it0[s \ {Greatest(s)}] \in A
            BY <1>5
        <3> QED BY <1>3, <3>1, <3>2
    <2> QED BY <1>5, <2>1 DEF Goes
<1> DEFINE it == CHOOSE i : Is(i)
<1>7. Is(it)
    BY <1>6
<1>8. Register(start, parts, latest) = it[1 .. n]
    BY <1>1 DEF Register, FoldLeft, MapThenFoldSet, Max, Greatest, AddPart
<1> HIDE DEF it
<1> DEFINE st == [k \in 0 .. n |-> it[1 .. k]]
<1>9. st[0] = start /\ st[n] = Register(start, parts, latest)
    <2>1. 1 .. 0 = {} /\ it[{}] = start
        BY <1>7
    <2> QED BY <1>1, <1>8, <2>1
<1>10. ASSUME NEW k \in 1 .. n PROVE st[k] = AddPart(st[k - 1], parts[k], latest)
    <2>1. /\ 1 .. k \in SUBSET (1 .. n) /\ 1 .. k # {}
          /\ Greatest(1 .. k) = k /\ (1 .. k) \ {k} = 1 .. k - 1
        BY <1>1, FirstPositions
    <2>2. it[1 .. k] = AddPart(it[(1 .. k) \ {Greatest(1 .. k)}], parts[Greatest(1 .. k)], latest)
        BY <1>7, <2>1
    <2>3. st[k] = it[1 .. k] /\ st[k - 1] = it[1 .. k - 1]
        BY <1>1
    <2> QED BY <2>1, <2>2, <2>3
<1>11. DOMAIN st = 0 .. n /\ st = [k \in 0 .. n |-> st[k]]
    OBVIOUS
<1> HIDE DEF st
<1> DEFINE G == {k \in 0 .. n : st[k] \in A}
<1>12. 0 \in G /\ \A k \in 1 .. n : k - 1 \in G => k \in G
    BY <1>1, <1>2, <1>4, <1>9, <1>10
<1>13. \A k \in 0 .. n : st[k] \in A
    <2>1. \A k \in 0 .. n : k \in G
        <3> HIDE DEF G
        <3> QED BY <1>1, <1>12, StepByStep
    <2> QED BY <2>1
<1>14. st \in [0 .. n -> A]
    BY <1>11, <1>13
<1>15. RegistersAll(st, start, parts, latest, n)
    BY <1>9, <1>10 DEF RegistersAll
<1> QED BY <1>14, <1>15 DEF A

\* Parts teach the vault what they are, and put out a token each.
LEMMA RegisterFacts ==
    ASSUME NEW start \in Progress, NEW parts \in Seq(PartsOf(EntityKeys)), NEW latest,
           NEW r, r = Register(start, parts, latest)
    PROVE  r \in Progress /\ Teaches(start.v, r.v, ToSet(parts)) /\ Len(r.out) = Len(start.out) + Len(parts)
<1> DEFINE n == Len(parts)
           K == ToSet(parts)
<1>1. n \in Nat /\ DOMAIN parts = 1 .. n /\ \A i \in 1 .. n : parts[i] \in PartsOf(EntityKeys)
    OBVIOUS
<1>2. \A i \in 1 .. n : parts[i] \in K
    BY <1>1 DEF ToSet
<1> HIDE DEF n, K
<1>3. PICK st \in [0 .. n -> Progress] : RegistersAll(st, start, parts, latest, n)
    BY RegisterSteps DEF n
<1> DEFINE G == {k \in 0 .. n : Teaches(start.v, st[k].v, K) /\ Len(st[k].out) = Len(start.out) + k}
<1>4. start.v \in Seq(Entry) /\ start.out \in Seq(Pieces) /\ Len(start.out) \in Nat
    BY DEF Progress
<1>5. 0 \in G
    <2>1. Teaches(start.v, start.v, K)
        BY <1>4, TeachesNothing
    <2>2. st[0] = start
        BY <1>3 DEF RegistersAll
    <2> QED BY <1>1, <1>4, <2>1, <2>2
<1>6. ASSUME NEW k \in 1 .. n, k - 1 \in G PROVE k \in G
    <2>1. k - 1 \in 0 .. n /\ k \in 0 .. n
        BY <1>1
    <2> DEFINE a == st[k - 1]
               b == st[k]
    <2>2. a \in Progress /\ b = AddPart(a, parts[k], latest)
        BY <1>3, <2>1 DEF RegistersAll
    <2>3. Teaches(start.v, a.v, K) /\ Len(a.out) = Len(start.out) + (k - 1)
        BY <1>6
    <2>4. parts[k] \in PartsOf(EntityKeys) /\ parts[k] \in K
        BY <1>1, <1>2
    <2> HIDE DEF a
    <2>5. Teaches(a.v, b.v, {parts[k]}) /\ Len(b.out) = Len(a.out) + 1
        <3> HIDE DEF b
        <3> QED BY <2>2, <2>4, AddPartFacts
    <2>6. Teaches(start.v, b.v, K)
        <3>1. {parts[k]} \subseteq K
            BY <2>4
        <3> HIDE DEF b
        <3> QED BY <1>4, <2>3, <2>5, <3>1, TeachesOn
    <2>7. Len(b.out) = Len(start.out) + k
        BY <1>1, <1>4, <2>3, <2>5
    <2> QED BY <2>1, <2>6, <2>7
<1>7. n \in G
    <2>1. n \in 0 .. n
        BY <1>1
    <2> HIDE DEF G
    <2> QED BY <1>1, <1>5, <1>6, <2>1, StepByStep
<1>8. n \in 0 .. n /\ st[n] = r
    BY <1>1, <1>3 DEF RegistersAll
<1> QED BY <1>3, <1>7, <1>8 DEF n, K

\* The keys a span can teach the vault.
KeysOf(span) == IF span.key = "name" THEN ToSet(NameKeys) ELSE {span.key}

\* The names of a person have keys of their own.
LEMMA NameKeysFacts ==
    ToSet(NameKeys) = {"fn", "mn1", "mn2", "ln"} /\ ToSet(NameKeys) \subseteq EntityKeys
BY DEF NameKeys, ToSet, EntityKeys

\* A name of so many words has so many keys, and at most four.
LEMMA KeysForFacts ==
    ASSUME NEW n \in Nat
    PROVE  /\ KeysFor(n) \in Seq(ToSet(NameKeys))
           /\ Len(KeysFor(n)) \in Nat /\ Len(KeysFor(n)) <= n /\ Len(KeysFor(n)) <= 4
<1> DEFINE T == ToSet(NameKeys)
           k == KeysFor(n)
<1>1. "fn" \in T /\ "mn1" \in T /\ "mn2" \in T /\ "ln" \in T
    BY NameKeysFacts
<1>2. CASE n = 0
    <2>1. k = <<>>
        BY <1>2 DEF KeysFor
    <2> HIDE DEF T, k
    <2>2. k \in Seq(T) /\ Len(k) = 0
        BY <2>1
    <2>5. Len(k) \in Nat /\ Len(k) <= n /\ Len(k) <= 4
        BY <1>2, <2>2
    <2> QED BY <2>2, <2>5 DEF T, k
<1>3. CASE n = 1
    <2>1. k = <<"fn">>
        BY <1>3 DEF KeysFor
    <2> HIDE DEF T, k
    <2>2. k \in Seq(T) /\ Len(k) = 1
        BY <1>1, <2>1
    <2>5. Len(k) \in Nat /\ Len(k) <= n /\ Len(k) <= 4
        BY <1>3, <2>2
    <2> QED BY <2>2, <2>5 DEF T, k
<1>4. CASE n = 2
    <2>1. k = <<"fn", "ln">>
        BY <1>4 DEF KeysFor
    <2> HIDE DEF T, k
    <2>2. k \in Seq(T) /\ Len(k) = 2
        BY <1>1, <2>1
    <2>5. Len(k) \in Nat /\ Len(k) <= n /\ Len(k) <= 4
        BY <1>4, <2>2
    <2> QED BY <2>2, <2>5 DEF T, k
<1>5. CASE n = 3
    <2>1. k = <<"fn", "mn1", "ln">>
        BY <1>5 DEF KeysFor
    <2> HIDE DEF T, k
    <2>2. k \in Seq(T) /\ Len(k) = 3
        BY <1>1, <2>1
    <2>5. Len(k) \in Nat /\ Len(k) <= n /\ Len(k) <= 4
        BY <1>5, <2>2
    <2> QED BY <2>2, <2>5 DEF T, k
<1>6. CASE n > 3
    <2>1. n # 0 /\ n # 1 /\ n # 2 /\ n # 3 /\ n >= 4
        BY <1>6
    <2>2. k = NameKeys
        BY <2>1 DEF KeysFor
    <2> HIDE DEF T, k
    <2>3. k \in Seq(T) /\ Len(k) = 4
        BY <1>1, <2>2 DEF NameKeys
    <2>5. Len(k) \in Nat /\ Len(k) <= n /\ Len(k) <= 4
        BY <2>1, <2>3
    <2> QED BY <2>3, <2>5 DEF T, k
<1>7. n = 0 \/ n = 1 \/ n = 2 \/ n = 3 \/ n > 3
    OBVIOUS
<1> QED BY <1>2, <1>3, <1>4, <1>5, <1>6, <1>7

\* What is read of a full name are words.
LEMMA NamedFacts ==
    ASSUME NEW value \in Seq(Units), Readable(value)
    PROVE  Named(value) \in Seq(Words)
<1> DEFINE u == IF value # <<>> /\ Title(value[1]) /\ Len(value) > 1 THEN Tail(value) ELSE value
           n == Len(u)
           ss == [i \in 1 .. n |-> WordsOf(u[i])]
           w == FlattenSeq(ss)
           P == {x \in Words : Written(x.id) # Written(And.id)}
<1>1. u \in Seq(Units) /\ \A i \in 1 .. Len(u) : HasWords(u[i])
    <2>1. u = value \/ (value # <<>> /\ u = Tail(value))
        OBVIOUS
    <2> HIDE DEF u
    <2>2. \A i \in 1 .. Len(value) : HasWords(value[i])
        BY DEF Readable, ToSet
    <2>3. CASE u = value
        BY <2>2, <2>3
    <2>4. CASE value # <<>> /\ u = Tail(value)
        <3>1. /\ u \in Seq(Units) /\ Len(u) = Len(value) - 1 /\ Len(value) \in Nat
              /\ \A i \in 1 .. Len(u) : u[i] = value[i + 1]
            BY <2>4, HeadTailProperties
        <3>2. \A i \in 1 .. Len(u) : i + 1 \in 1 .. Len(value)
            BY <3>1
        <3> QED BY <2>2, <3>1, <3>2
    <2> QED BY <2>1, <2>3, <2>4
<1>2. n \in Nat /\ DOMAIN u = 1 .. n
    BY <1>1
<1> HIDE DEF u, n
<1>3. ASSUME NEW i \in 1 .. n PROVE WordsOf(u[i]) \in Seq(Words)
    <2> DEFINE names == NameWords(u[i].id)
    <2>1. names \in Seq(STRING) /\ \A k \in DOMAIN names : Written(names[k]) \in Seq(STRING)
        <3>1. HasWords(u[i])
            BY <1>1 DEF n
        <3>2. names \in Seq(STRING) /\ \A y \in ToSet(names) : Written(y) \in Seq(STRING)
            BY <3>1 DEF HasWords
        <3> HIDE DEF names
        <3>3. \A k \in DOMAIN names : names[k] \in ToSet(names)
            BY <3>2 DEF ToSet
        <3> QED BY <3>2, <3>3
    <2> HIDE DEF names
    <2>2. ASSUME NEW k \in DOMAIN names PROVE Word(names[k]) \in Words
        <3> DEFINE y == names[k]
        <3>1. y \in STRING /\ Written(y) \in Seq(STRING)
            BY <2>1
        <3> HIDE DEF y
        <3>2. Word(y) \in Words
            BY <3>1, WordOf
        <3> QED BY <3>2 DEF y
    <2>3. WordsOf(u[i]) = [k \in DOMAIN names |-> Word(names[k])]
        BY DEF WordsOf, names
    <2> QED BY <2>1, <2>2, <2>3
<1>4. ss \in [1 .. n -> Seq(Words)]
    <2>1. DOMAIN ss = 1 .. n /\ ss = [i \in 1 .. n |-> ss[i]] /\ \A i \in 1 .. n : ss[i] \in Seq(Words)
        BY <1>3
    <2> HIDE DEF ss
    <2> QED BY <2>1
<1>5. Named(value) = Kept(w, LAMBDA x : Written(x.id) # Written(And.id))
    BY <1>2 DEF Named, u
<1> HIDE DEF ss
<1>6. w \in Seq(Words)
    BY <1>2, <1>4, FlatMembers
<1> HIDE DEF w
<1>7. \A i \in DOMAIN w : w[i] \in P <=> Written(w[i].id) # Written(And.id)
    BY <1>6
<1> HIDE DEF P
<1>8. Named(value) = FlattenSeq([i \in DOMAIN w |-> IF w[i] \in P THEN <<w[i]>> ELSE <<>>])
    BY <1>5, <1>7 DEF Kept
<1> QED BY <1>6, <1>8, KeptMembers

\* The parts of a full name have keys of names and are of words.
LEMMA PartsFacts ==
    ASSUME NEW value \in Seq(Units), Readable(value)
    PROVE  Parts(value) \in Seq(PartsOf(ToSet(NameKeys)))
<1> DEFINE w == Named(value)
           n == Len(w)
           k == KeysFor(n)
<1>1. w \in Seq(Words) /\ n \in Nat /\ \A i \in 1 .. n : w[i] \in Words
    <2>1. w \in Seq(Words)
        BY NamedFacts
    <2> HIDE DEF w
    <2> QED BY <2>1
<1> HIDE DEF w
<1>2. /\ k \in Seq(ToSet(NameKeys)) /\ Len(k) <= n /\ Len(k) <= 4 /\ Len(k) \in Nat
    BY <1>1, KeysForFacts
<1> HIDE DEF k, n
<1>3. ASSUME NEW i \in 1 .. Len(k)
      PROVE  [key |-> k[i], value |-> IF i = 4 THEN SubSeq(w, 4, n) ELSE <<w[i]>>] \in PartsOf(ToSet(NameKeys))
    <2>1. k[i] \in ToSet(NameKeys) /\ i \in 1 .. n /\ n \in Nat
        BY <1>1, <1>2
    <2>2. CASE i = 4
        <3>1. 4 \in 1 .. n /\ n \in 1 .. n /\ Len(w) = n
            BY <2>1, <2>2 DEF n
        <3>2. SubSeq(w, 4, n) \in Seq(Words) /\ Len(SubSeq(w, 4, n)) = (n - 4) + 1
            BY <1>1, <3>1, SubSeqProperties
        <3> DEFINE x == SubSeq(w, 4, n)
        <3> HIDE DEF x
        <3>3. x \in Seq(Words) /\ Len(x) # 0
            BY <3>1, <3>2 DEF x
        <3>4. x \in Seq(Words) \ {<<>>}
            BY <3>3
        <3> QED BY <2>1, <2>2, <3>4 DEF PartsOf, x
    <2>3. CASE i # 4
        <3>1. <<w[i]>> \in Seq(Words) /\ <<w[i]>> # <<>>
            BY <1>1, <2>1
        <3> QED BY <2>1, <2>3, <3>1 DEF PartsOf
    <2> QED BY <2>2, <2>3
<1>4. Parts(value) = [i \in 1 .. Len(k) |->
                         [key |-> k[i], value |-> IF i = 4 THEN SubSeq(w, 4, n) ELSE <<w[i]>>]]
    <2>1. DOMAIN k = 1 .. Len(k)
        BY <1>2
    <2> QED BY <2>1 DEF Parts, Part, k, w, n
<1> QED BY <1>2, <1>3, <1>4

\* "and" is a word.
LEMMA AndFacts == And \in Words /\ And \in Units
<1> QED BY AndAssumption, WordFacts

\* The words of a couple.
LEMMA CoupleFacts ==
    ASSUME NEW value \in Seq(Units), Coordinated(value)
    PROVE  Len(value) = 4 /\ value[1] \in Words /\ value[3] \in Words /\ value[4] \in Words
<1>1. Len(value) = 4 /\ \A i \in {1, 3, 4} : i \in 1 .. 4 /\ value[i].is = "word"
    BY DEF Coordinated
<1>2. \A i \in 1 .. 4 : value[i] \in Units
    <2>1. \A i \in 1 .. Len(value) : value[i] \in Units
        BY ElementOfSeq
    <2> QED BY <1>1, <2>1
<1>3. \A i \in {1, 3, 4} : value[i] \in Words
    BY <1>1, <1>2 DEF Words
<1> QED BY <1>1, <1>3

\* A part of a couple.
PartOf(value, key, i) == [key |-> key, value |-> <<value[i]>>]

\* The parts of a couple are two first names and a last one.
LEMMA CoupleEntries ==
    ASSUME NEW span, span.value \in Seq(Units), span.key = "name", Coordinated(span.value), NEW parts,
           parts = <<PartOf(span.value, "fn", 1), PartOf(span.value, "mn1", 3), PartOf(span.value, "ln", 4)>>
    PROVE  Entries(span) = parts /\ parts \in Seq(PartsOf(ToSet(NameKeys))) /\ Len(parts) = 3
<1> DEFINE K == ToSet(NameKeys)
           val == span.value
<1>1. val[1] \in Words /\ val[3] \in Words /\ val[4] \in Words
    BY CoupleFacts
<1>2. Entries(span) = parts
    BY DEF Entries, PartOf
<1>3. "fn" \in K /\ "mn1" \in K /\ "ln" \in K
    BY NameKeysFacts
<1> HIDE DEF K, val
<1>4. \A w \in Words : <<w>> \in Seq(Words) \ {<<>>}
    OBVIOUS
<1>5. PartOf(val, "fn", 1) \in PartsOf(K) /\ PartOf(val, "mn1", 3) \in PartsOf(K) /\ PartOf(val, "ln", 4) \in PartsOf(K)
    BY <1>1, <1>3, <1>4 DEF PartOf, PartsOf
<1>6. parts = <<PartOf(val, "fn", 1), PartOf(val, "mn1", 3), PartOf(val, "ln", 4)>>
    BY DEF val
<1>7. parts \in Seq(PartsOf(K)) /\ Len(parts) = 3
    <2> DEFINE x == PartOf(val, "fn", 1)
               y == PartOf(val, "mn1", 3)
               z == PartOf(val, "ln", 4)
    <2>1. x \in PartsOf(K) /\ y \in PartsOf(K) /\ z \in PartsOf(K) /\ parts = <<x, y, z>>
        BY <1>5, <1>6
    <2> HIDE DEF x, y, z
    <2> QED BY <2>1
<1> QED BY <1>2, <1>7 DEF K

\* What a span is registered as are entries, of a name only where it is one.
LEMMA EntriesFacts ==
    ASSUME NEW text \in Seq(Units), NEW span \in SpansIn(text)
    PROVE  /\ Entries(span) \in Seq(PartsOf(EntityKeys))
           /\ \A e \in ToSet(Entries(span)) : IsName(e.key) => IsName(span.key)
           /\ \A e \in ToSet(Entries(span)) : e.key \in KeysOf(span)
<1> DEFINE val == span.value
           K == ToSet(NameKeys)
<1>1. /\ span.key \in SpanKeys /\ val \in Seq(Units) /\ val # <<>>
      /\ span.key # "name" => ToSet(val) \subseteq Words
      /\ span.key = "name" => Readable(val)
    BY SpanFacts
<1>2. ASSUME NEW parts \in Seq(PartsOf(K)), Entries(span) = parts, span.key = "name"
      PROVE  /\ parts \in Seq(PartsOf(EntityKeys))
             /\ \A e \in ToSet(parts) : IsName(e.key) => IsName(span.key)
             /\ \A e \in ToSet(parts) : e.key \in KeysOf(span)
    <2>1. PartsOf(K) \subseteq PartsOf(EntityKeys)
        BY NameKeysFacts DEF PartsOf
    <2>2. parts \in Seq(PartsOf(EntityKeys))
        <3> DEFINE A == PartsOf(K)
                   B == PartsOf(EntityKeys)
        <3>1. A \subseteq B /\ parts \in Seq(A)
            BY <2>1
        <3> HIDE DEF A, B, K
        <3>2. parts \in Seq(B)
            BY <3>1
        <3> QED BY <3>2 DEF B
    <2>3. ToSet(parts) \subseteq PartsOf(K)
        <3> DEFINE A == PartsOf(K)
        <3>1. parts \in Seq(A)
            OBVIOUS
        <3> HIDE DEF A, K
        <3>2. ToSet(parts) \subseteq A
            BY <3>1 DEF ToSet
        <3> QED BY <3>2 DEF A
    <2>4. \A e \in ToSet(parts) : e.key \in K
        BY <2>3 DEF PartsOf
    <2>5. IsName(span.key) /\ KeysOf(span) = K
        BY <1>2 DEF IsName, KeysOf
    <2> QED BY <2>2, <2>4, <2>5
<1>3. CASE span.key # "name"
    <2> DEFINE e == [key |-> span.key, value |-> val]
    <2>1. val \in Seq(Words) \ {<<>>}
        BY <1>1, <1>3 DEF ToSet
    <2>2. e \in PartsOf(EntityKeys) /\ e.key = span.key
        BY <1>1, <1>3, <2>1 DEF SpanKeys, PartsOf
    <2>3. Entries(span) = <<e>>
        BY <1>3 DEF Entries
    <2> HIDE DEF e
    <2>4. <<e>> \in Seq(PartsOf(EntityKeys)) /\ ToSet(<<e>>) = {e}
        BY <2>2 DEF ToSet
    <2>5. e.key \in KeysOf(span)
        BY <1>3, <2>2 DEF KeysOf
    <2> QED BY <2>2, <2>3, <2>4, <2>5
<1>4. CASE span.key = "name" /\ Coordinated(val)
    <2> DEFINE parts == <<PartOf(val, "fn", 1), PartOf(val, "mn1", 3), PartOf(val, "ln", 4)>>
    <2>1. Entries(span) = parts /\ parts \in Seq(PartsOf(K))
        BY <1>1, <1>4, CoupleEntries
    <2> HIDE DEF parts, K
    <2> QED BY <1>2, <1>4, <2>1
<1>5. CASE span.key = "name" /\ ~Coordinated(val)
    <2> DEFINE parts == Parts(val)
    <2>1. parts \in Seq(PartsOf(K))
        BY <1>1, <1>5, PartsFacts
    <2>2. Entries(span) = parts
        BY <1>5 DEF Entries
    <2> HIDE DEF parts, K
    <2> QED BY <1>2, <1>5, <2>1, <2>2
<1> QED BY <1>3, <1>4, <1>5

\* The replacement of a span teaches the vault its entries at most.
LEMMA PlaceholderFacts ==
    ASSUME NEW text \in Seq(Units), NEW v \in Seq(Entry), NEW span \in SpansIn(text),
           NEW p, p = Placeholder(v, span)
    PROVE  p.v \in Seq(Entry) /\ p.out \in Seq(Pieces) /\ Teaches(v, p.v, ToSet(Entries(span)))
<1> DEFINE start == [v |-> v, out |-> <<>>]
           parts == Entries(span)
           couple == span.key = "name" /\ Coordinated(span.value)
           latest == span.latest /\ ~couple
           r == Register(start, parts, latest)
<1>1. span.value \in Seq(Units)
    BY SpanFacts
<1>2. start \in Progress /\ start.v = v /\ start.out = <<>>
    BY DEF Progress
<1>3. \A x \in Progress : x.v \in Seq(Entry) /\ x.out \in Seq(Pieces)
    BY DEF Progress
<1>4. parts \in Seq(PartsOf(EntityKeys))
    BY EntriesFacts
<1>5. p = IF parts = <<>> THEN [v |-> v, out |-> span.value]
          ELSE IF couple THEN [r EXCEPT !.out = <<@[1], And, @[2], @[3]>>] ELSE r
    BY DEF Placeholder
<1>6. couple => Len(parts) = 3
    <2> SUFFICES ASSUME couple PROVE Len(parts) = 3
        OBVIOUS
    <2> DEFINE three == <<PartOf(span.value, "fn", 1), PartOf(span.value, "mn1", 3), PartOf(span.value, "ln", 4)>>
    <2>1. parts = three /\ Len(three) = 3
        BY <1>1, CoupleEntries
    <2> HIDE DEF three
    <2> QED BY <2>1
<1> HIDE DEF start, parts, couple, latest
<1>7. r \in Progress /\ Teaches(v, r.v, ToSet(parts)) /\ Len(r.out) = Len(parts)
    <2>1. /\ r \in Progress /\ Teaches(start.v, r.v, ToSet(parts))
          /\ Len(r.out) = Len(start.out) + Len(parts)
        BY <1>2, <1>4, RegisterFacts
    <2>2. Len(start.out) = 0 /\ Len(parts) \in Nat
        BY <1>2, <1>4
    <2> HIDE DEF r
    <2> QED BY <1>2, <2>1, <2>2
<1> HIDE DEF r
<1>8. CASE parts = <<>>
    <2>1. p.v = v /\ p.out = span.value
        BY <1>5, <1>8
    <2>2. Units \subseteq Pieces
        BY DEF Pieces
    <2>3. span.value \in Seq(Pieces)
        BY <1>1, <2>2
    <2>4. Teaches(v, v, ToSet(parts))
        BY TeachesNothing
    <2> QED BY <2>1, <2>3, <2>4 DEF parts
<1>9. CASE parts # <<>> /\ couple
    <2>1. r.out \in Seq(Pieces) /\ Len(r.out) = 3
        BY <1>3, <1>6, <1>7, <1>9
    <2>2. r.out[1] \in Pieces /\ r.out[2] \in Pieces /\ r.out[3] \in Pieces
        <3>1. \A i \in 1 .. 3 : r.out[i] \in Pieces
            BY <2>1
        <3> QED BY <3>1
    <2>3. And \in Pieces
        BY AndFacts DEF Pieces
    <2>4. p.v = r.v /\ p.out = <<r.out[1], And, r.out[2], r.out[3]>>
        BY <1>5, <1>7, <1>9 DEF Progress
    <2>5. p.out \in Seq(Pieces)
        BY <2>2, <2>3, <2>4
    <2> QED BY <1>3, <1>7, <2>4, <2>5 DEF parts
<1>10. CASE parts # <<>> /\ ~couple
    <2>1. p = r
        BY <1>5, <1>10
    <2> QED BY <1>3, <1>7, <2>1 DEF parts
<1> QED BY <1>8, <1>9, <1>10

\* What has been replaced: the vault, where the text goes on, and what is put out.
Going == [v : Seq(Entry), cursor : Nat \ {0}, out : Seq(Pieces)]
ReplaceOne(text, r, s) ==
    LET p == Placeholder(r.v, s)
    IN  [v |-> p.v, cursor |-> s.to + 1, out |-> r.out \o SubSeq(text, r.cursor, s.from - 1) \o p.out]
First(v) == [v |-> v, cursor |-> 1, out |-> <<>>]

\* A replacement more is a lesson in the entries of its span.
LEMMA ReplaceOneFacts ==
    ASSUME NEW text \in Seq(Units), NEW r \in Going, NEW s \in SpansIn(text)
    PROVE  ReplaceOne(text, r, s) \in Going /\ Teaches(r.v, ReplaceOne(text, r, s).v, ToSet(Entries(s)))
<1> DEFINE p == Placeholder(r.v, s)
           a == SubSeq(text, r.cursor, s.from - 1)
           b == (r.out \o a) \o p.out
<1>1. r.v \in Seq(Entry) /\ r.cursor \in Nat \ {0} /\ r.out \in Seq(Pieces)
    BY DEF Going
<1>2. s.from \in 1 .. Len(text) /\ s.to \in Nat
    BY SpanFacts
<1>3. p.v \in Seq(Entry) /\ p.out \in Seq(Pieces) /\ Teaches(r.v, p.v, ToSet(Entries(s)))
    BY <1>1, PlaceholderFacts
<1>4. a \in Seq(Pieces)
    <2> DEFINE i == r.cursor
               j == s.from - 1
    <2>1. i \in Nat \ {0} /\ j \in Nat /\ j <= Len(text)
        BY <1>1, <1>2
    <2> HIDE DEF i, j
    <2>2. SubSeq(text, i, j) \in Seq(Units)
        BY <2>1
    <2>3. Seq(Units) \subseteq Seq(Pieces)
        <3>1. Units \subseteq Pieces
            BY DEF Pieces
        <3> QED BY <3>1
    <2> QED BY <2>2, <2>3 DEF i, j
<1>5. ReplaceOne(text, r, s) = [v |-> p.v, cursor |-> s.to + 1, out |-> b]
    BY DEF ReplaceOne
<1> HIDE DEF p, a
<1>6. b \in Seq(Pieces)
    BY <1>1, <1>3, <1>4
<1> HIDE DEF b
<1>7. s.to + 1 \in Nat \ {0}
    BY <1>2
<1> QED BY <1>3, <1>5, <1>6, <1>7 DEF Going

\* The rest of the text is put out as it is.
WithRest(text, r) == [v |-> r.v, out |-> r.out \o SubSeq(text, r.cursor, Len(text))]

\* st replaces the chosen spans in order.
ReplacesAll(st, text, chosen, v, n) ==
    /\ st[0] = First(v) /\ Replaced(text, chosen, v) = WithRest(text, st[n])
    /\ \A k \in 1 .. n : st[k] = ReplaceOne(text, st[k - 1], chosen[k])

\* The spans are replaced one after the other.
LEMMA ReplacedSteps ==
    ASSUME NEW text \in Seq(Units), NEW chosen \in Seq(SpansIn(text)), NEW v \in Seq(Entry),
           NEW n, n = Len(chosen)
    PROVE  \E st \in [0 .. n -> Going] : ReplacesAll(st, text, chosen, v, n)
<1> DEFINE A == Going
           start == First(v)
           F == [x \in (1 .. n) \X A |-> ReplaceOne(text, x[2], chosen[x[1]])]
           Is(it) == it = [s \in SUBSET (1 .. n) |->
                              IF s = {} THEN start
                              ELSE ReplaceOne(text, it[s \ {Greatest(s)}], chosen[Greatest(s)])]
<1>1. n \in Nat /\ DOMAIN chosen = 1 .. n /\ \A i \in 1 .. n : chosen[i] \in SpansIn(text)
    OBVIOUS
<1>2. ASSUME NEW k \in 1 .. n, NEW a \in A PROVE ReplaceOne(text, a, chosen[k]) \in A
    BY <1>1, ReplaceOneFacts
<1>4. start \in A
    BY DEF First, Going
<1> HIDE DEF A
<1>3. F \in [(1 .. n) \X A -> A] /\ \A k \in 1 .. n, a \in A : F[<<k, a>>] = ReplaceOne(text, a, chosen[k])
    BY <1>2
<1> HIDE DEF F, start
<1>5. PICK it0 \in [SUBSET (1 .. n) -> A] : Goes(it0, 1 .. n, start, F)
    BY <1>1, <1>3, <1>4, GoingExists
<1>6. Is(it0)
    <2>1. ASSUME NEW s \in SUBSET (1 .. n), s # {}
          PROVE  F[<<Greatest(s), it0[s \ {Greatest(s)}]>>]
                     = ReplaceOne(text, it0[s \ {Greatest(s)}], chosen[Greatest(s)])
        <3>1. Greatest(s) \in 1 .. n
            BY <1>1, <2>1, GreatestFacts
        <3>2. it0[s \ {Greatest(s)}] \in A
            BY <1>5
        <3> QED BY <1>3, <3>1, <3>2
    <2> QED BY <1>5, <2>1 DEF Goes
<1> DEFINE it == CHOOSE i : Is(i)
<1>7. Is(it)
    BY <1>6
<1>8. Replaced(text, chosen, v) = WithRest(text, it[1 .. n])
    BY <1>1 DEF Replaced, WithRest, FoldLeft, MapThenFoldSet, Max, Greatest, ReplaceOne, start, First
<1> HIDE DEF it
<1> DEFINE st == [k \in 0 .. n |-> it[1 .. k]]
<1>9. st[0] = start /\ Replaced(text, chosen, v) = WithRest(text, st[n])
    <2>1. 1 .. 0 = {} /\ it[{}] = start
        BY <1>7
    <2>2. st[n] = it[1 .. n] /\ st[0] = it[1 .. 0]
        BY <1>1
    <2> HIDE DEF st
    <2> QED BY <1>8, <2>1, <2>2
<1>10. ASSUME NEW k \in 1 .. n PROVE st[k] = ReplaceOne(text, st[k - 1], chosen[k])
    <2>1. /\ 1 .. k \in SUBSET (1 .. n) /\ 1 .. k # {}
          /\ Greatest(1 .. k) = k /\ (1 .. k) \ {k} = 1 .. k - 1
        BY <1>1, FirstPositions
    <2>2. it[1 .. k] = ReplaceOne(text, it[(1 .. k) \ {Greatest(1 .. k)}], chosen[Greatest(1 .. k)])
        BY <1>7, <2>1
    <2>3. st[k] = it[1 .. k] /\ st[k - 1] = it[1 .. k - 1]
        BY <1>1
    <2> QED BY <2>1, <2>2, <2>3
<1>11. DOMAIN st = 0 .. n /\ st = [k \in 0 .. n |-> st[k]]
    OBVIOUS
<1> HIDE DEF st
<1> DEFINE G == {k \in 0 .. n : st[k] \in A}
<1>12. 0 \in G /\ \A k \in 1 .. n : k - 1 \in G => k \in G
    <2>1. st[0] \in A
        BY <1>4, <1>9
    <2> QED BY <1>1, <1>2, <1>10, <2>1
<1>13. \A k \in 0 .. n : st[k] \in A
    <2>1. \A k \in 0 .. n : k \in G
        <3> HIDE DEF G
        <3> QED BY <1>1, <1>12, StepByStep
    <2> QED BY <2>1
<1>14. st \in [0 .. n -> A]
    BY <1>11, <1>13
<1>15. ReplacesAll(st, text, chosen, v, n)
    BY <1>9, <1>10 DEF ReplacesAll, start
<1> QED BY <1>14, <1>15 DEF A

\* A redaction teaches the vault the entries of what it chose, at most.
LEMMA ReplacedFacts ==
    ASSUME NEW text \in Seq(Units), NEW chosen \in Seq(SpansIn(text)), NEW v \in Seq(Entry)
    PROVE  Teaches(v, Replaced(text, chosen, v).v, UNION {ToSet(Entries(s)) : s \in ToSet(chosen)})
<1> DEFINE n == Len(chosen)
           K == UNION {ToSet(Entries(s)) : s \in ToSet(chosen)}
<1>1. n \in Nat /\ DOMAIN chosen = 1 .. n /\ \A i \in 1 .. n : chosen[i] \in SpansIn(text)
    OBVIOUS
<1>2. PICK st \in [0 .. n -> Going] : ReplacesAll(st, text, chosen, v, n)
    BY ReplacedSteps
<1>3. \A i \in 1 .. n : ToSet(Entries(chosen[i])) \subseteq K
    <2>1. \A i \in 1 .. n : chosen[i] \in ToSet(chosen)
        BY <1>1 DEF ToSet
    <2> QED BY <2>1
<1> HIDE DEF K, n
<1> DEFINE G == {k \in 0 .. n : Teaches(v, st[k].v, K)}
<1>4. 0 \in G
    <2>1. st[0].v = v
        BY <1>2 DEF ReplacesAll, First
    <2>2. Teaches(v, v, K)
        BY TeachesNothing
    <2> QED BY <1>1, <2>1, <2>2
<1>5. ASSUME NEW k \in 1 .. n, k - 1 \in G PROVE k \in G
    <2>1. k - 1 \in 0 .. n /\ k \in 0 .. n
        BY <1>1
    <2> DEFINE a == st[k - 1]
    <2>2. a \in Going /\ st[k] = ReplaceOne(text, a, chosen[k])
        BY <1>2, <2>1 DEF ReplacesAll
    <2>3. Teaches(v, a.v, K)
        BY <1>5
    <2> HIDE DEF a
    <2>4. Teaches(a.v, st[k].v, ToSet(Entries(chosen[k])))
        <3>1. chosen[k] \in SpansIn(text)
            BY <1>1
        <3> DEFINE s == chosen[k]
        <3> HIDE DEF s
        <3>2. s \in SpansIn(text)
            BY <3>1 DEF s
        <3>3. Teaches(a.v, ReplaceOne(text, a, s).v, ToSet(Entries(s)))
            BY <2>2, <3>2, ReplaceOneFacts
        <3> QED BY <2>2, <3>3 DEF s
    <2>5. Teaches(v, st[k].v, K)
        BY <1>3, <2>3, <2>4, TeachesOn
    <2> QED BY <2>1, <2>5
<1>6. n \in G
    <2>1. n \in 0 .. n
        BY <1>1
    <2> HIDE DEF G
    <2> QED BY <1>1, <1>4, <1>5, <2>1, StepByStep
<1>7. Teaches(v, st[n].v, K)
    BY <1>6
<1> QED BY <1>2, <1>7 DEF ReplacesAll, WithRest, K

--------------------------------------------------------------------------------
(* The redactions.                                                             *)

\* The vault holds values of words; there is a redaction, a rehydration, both or none.
EngineTyped ==
    /\ vault \in Seq(Entry)
    /\ last.made \in BOOLEAN
    /\ reply.made \in BOOLEAN

\* What was listed and chosen for a redaction, and what it taught the vault.
LEMMA RedactedFacts ==
    ASSUME NEW r \in Requests, NEW v \in Seq(Entry), NEW suppressed \in BOOLEAN,
           NEW inferred \in SUBSET InferredIn(r.m), Redacted(r, v, suppressed, inferred),
           NEW spans, spans = Spans(r.m, r.q, v, suppressed, r.allow, inferred)
    PROVE  /\ spans \in Seq(SpansIn(r.m.text))
           /\ Chosen(r.m.text, spans, last'.chosen)
           /\ Teaches(v, vault', UNION {ToSet(Entries(s)) : s \in ToSet(last'.chosen)})
<1>1. r.m.text \in Seq(Units)
    BY RequestFacts
<1>2. spans \in Seq(SpansIn(r.m.text))
    <2>1. SpansAre(r, r.q, v, suppressed, r.allow, inferred)
        BY SpansMembers
    <2> QED BY <2>1 DEF SpansAre
<1>3. last'.chosen = NonOverlapping(spans)
    BY DEF Redacted
<1>4. Chosen(r.m.text, spans, last'.chosen)
    BY <1>1, <1>2, <1>3, ChosenFacts
<1>5. last'.chosen \in Seq(SpansIn(r.m.text))
    BY <1>4 DEF Chosen
<1>6. vault' = Replaced(r.m.text, last'.chosen, v).v
    BY DEF Redacted
<1>7. Teaches(v, vault', UNION {ToSet(Entries(s)) : s \in ToSet(last'.chosen)})
    BY <1>1, <1>5, <1>6, ReplacedFacts
<1> QED BY <1>2, <1>4, <1>7

\* The typing is kept.
LEMMA TypedInvariant == Spec => []EngineTyped
<1>1. Init => EngineTyped
    BY DEF Init, EngineTyped, NoRedaction, NoReply
<1>2. EngineTyped /\ [Next]_vars => EngineTyped'
    <2> SUFFICES ASSUME EngineTyped, [Next]_vars PROVE EngineTyped'
        OBVIOUS
    <2>1. CASE UNCHANGED vars
        BY <2>1 DEF EngineTyped, vars
    <2>2. CASE Next
        <3>1. reply'.made \in BOOLEAN
            <4>1. reply' = reply \/ reply'.made = TRUE \/ reply'.made = FALSE
                BY <2>2 DEF Next, Redact, Rehydrate, Answer, NoReply
            <4> QED BY <4>1 DEF EngineTyped
        <3>2. last.made \in BOOLEAN /\ vault \in Seq(Entry)
            BY DEF EngineTyped
        <3>3. CASE last'.made = FALSE /\ vault' = vault
            BY <3>1, <3>2, <3>3 DEF EngineTyped
        <3>4. ASSUME last'.made = TRUE, NEW r \in Requests, NEW suppressed \in BOOLEAN,
                     NEW inferred \in SUBSET InferredIn(r.m), Redacted(r, vault, suppressed, inferred)
              PROVE  EngineTyped'
            <4>1. Teaches(vault, vault', UNION {ToSet(Entries(s)) : s \in ToSet(last'.chosen)})
                BY <3>2, <3>4, RedactedFacts
            <4> QED BY <3>1, <3>4, <4>1 DEF EngineTyped, Teaches
        <3> QED BY <2>2, <3>2, <3>3, <3>4, StepCases
    <2> QED BY <2>1, <2>2
<1> QED BY <1>1, <1>2, PTL DEF Spec

\* The last redaction was one of a request: what was listed for it, and chosen.
LastIs(r, suppressed, inferred) ==
    /\ r \in Requests /\ suppressed \in BOOLEAN /\ inferred \in SUBSET InferredIn(r.m)
    /\ last.m = r.m /\ last.q = r.q /\ last.allow = r.allow
    /\ last.suppressed = suppressed /\ last.before \in Seq(Entry)
    /\ LET spans == Spans(r.m, r.q, last.before, suppressed, r.allow, inferred)
       IN  Chosen(r.m.text, spans, last.chosen)
    /\ Teaches(last.before, vault, UNION {ToSet(Entries(s)) : s \in ToSet(last.chosen)})
    /\ vault = Replaced(r.m.text, last.chosen, last.before).v
    /\ last.out = Replaced(r.m.text, last.chosen, last.before).out
LastRedacted ==
    last.made =>
        \E r \in Requests, suppressed \in BOOLEAN : \E inferred \in SUBSET InferredIn(r.m) :
            LastIs(r, suppressed, inferred)

\* As long as it is out, the last redaction is one of a request with the vault it had.
LEMMA LastInvariant == Spec => []LastRedacted
<1>1. Init => LastRedacted
    BY DEF Init, LastRedacted, NoRedaction
<1>2. EngineTyped /\ LastRedacted /\ [Next]_vars => LastRedacted'
    <2> SUFFICES ASSUME EngineTyped, LastRedacted, [Next]_vars PROVE LastRedacted'
        OBVIOUS
    <2>1. CASE UNCHANGED vars
        BY <2>1 DEF LastRedacted, LastIs, vars
    <2>2. CASE Next
        <3>1. last.made \in BOOLEAN /\ vault \in Seq(Entry)
            BY DEF EngineTyped
        <3>2. CASE last'.made = FALSE /\ vault' = vault
            BY <3>2 DEF LastRedacted
        <3>3. ASSUME last'.made = TRUE, NEW r \in Requests, NEW suppressed \in BOOLEAN,
                     NEW inferred \in SUBSET InferredIn(r.m), Redacted(r, vault, suppressed, inferred)
              PROVE  LastRedacted'
            <4> DEFINE spans == Spans(r.m, r.q, vault, suppressed, r.allow, inferred)
            <4>1. /\ Chosen(r.m.text, spans, last'.chosen)
                  /\ Teaches(vault, vault', UNION {ToSet(Entries(s)) : s \in ToSet(last'.chosen)})
                BY <3>1, <3>3, RedactedFacts
            <4>2. /\ last'.m = r.m /\ last'.q = r.q /\ last'.allow = r.allow
                  /\ last'.suppressed = suppressed /\ last'.before = vault
                  /\ vault' = Replaced(r.m.text, last'.chosen, vault).v
                  /\ last'.out = Replaced(r.m.text, last'.chosen, vault).out
                BY <3>3 DEF Redacted
            <4>3. LastIs(r, suppressed, inferred)'
                BY <3>1, <4>1, <4>2 DEF LastIs
            <4> QED BY <4>3 DEF LastRedacted
        <3> QED BY <2>2, <3>1, <3>2, <3>3, StepCases
    <2> QED BY <2>1, <2>2
<1> QED BY <1>1, <1>2, TypedInvariant, PTL DEF Spec

\* EngineTypeOK: the vault holds values of the six kinds and no empty one, and what is
\* chosen of a message lies one behind the other, so that the replacements meet.
THEOREM EngineTypeCorrect == Spec => []EngineTypeOK
<1>1. EngineTyped /\ LastRedacted => EngineTypeOK
    <2> SUFFICES ASSUME EngineTyped, LastRedacted PROVE EngineTypeOK
        OBVIOUS
    <2>1. ASSUME NEW i \in DOMAIN vault
          PROVE  vault[i].key \in ToSet(NameKeys) \cup {"em", "ph"} /\ vault[i].value # <<>>
        <3>1. vault[i] \in Entry
            BY DEF EngineTyped
        <3>2. vault[i].key \in EntityKeys /\ vault[i].value # <<>>
            BY <3>1, EntryFacts
        <3>3. EntityKeys = ToSet(NameKeys) \cup {"em", "ph"}
            BY NameKeysFacts DEF EntityKeys
        <3> QED BY <3>2, <3>3
    <2>2. ASSUME last.made
          PROVE  \A i, j \in DOMAIN last.chosen : i < j => last.chosen[i].to < last.chosen[j].from
        BY <2>2 DEF LastRedacted, LastIs, Chosen
    <2> QED BY <2>1, <2>2 DEF EngineTypeOK
<1> QED BY <1>1, TypedInvariant, LastInvariant, PTL

\* ContactsCovered: an address or a number found in a message leaves it as a whole; only
\* a span that begins before it can cut it.
THEOREM ContactsLeave == Spec => []ContactsCovered
<1>1. LastRedacted => ContactsCovered
    <2> SUFFICES ASSUME LastRedacted, last.made,
                        NEW c \in ToSet(Contacts(last.m, last.q)), ~InGreeting(c)
                 PROVE  /\ Covered(c.from)
                        /\ \/ \A p \in Positions(c) : Covered(p)
                           \/ \E i \in DOMAIN last.chosen :
                                last.chosen[i].from < c.from /\ Overlap(last.chosen[i], c)
        BY DEF ContactsCovered
    <2>1. PICK r \in Requests, suppressed \in BOOLEAN : \E inf \in SUBSET InferredIn(r.m) :
             LastIs(r, suppressed, inf)
        BY DEF LastRedacted
    <2>2. PICK inferred \in SUBSET InferredIn(r.m) : LastIs(r, suppressed, inferred)
        BY <2>1
    <2> DEFINE text == r.m.text
               chosen == last.chosen
               spans == Spans(r.m, r.q, last.before, suppressed, r.allow, inferred)
    <2>3. /\ last.m = r.m /\ last.q = r.q /\ last.before \in Seq(Entry)
          /\ Chosen(text, spans, chosen)
        BY <2>2 DEF LastIs
    <2>4. c \in ToSet(Contacts(r.m, r.q)) /\ ~InRange(c, r.m.greeting)
        BY <2>3 DEF InGreeting, InRange
    <2>5. c \in ToSet(spans) /\ spans \in Seq(SpansIn(text))
        <3>1. SpansAre(r, r.q, last.before, suppressed, r.allow, inferred)
            BY <2>3, SpansMembers
        <3>2. ListedFor(c, r.m, r.q, last.before, suppressed, r.allow, inferred)
            BY <2>4 DEF ListedFor
        <3> QED BY <3>1, <3>2 DEF SpansAre
    <2>6. c \in SpansIn(text) /\ text \in Seq(Units)
        BY <2>5, RequestFacts DEF ToSet
    <2>7. c.key # "name"
        BY <2>4, ContactsMembers DEF IsName
    <2> HIDE DEF spans
    <2>8. PICK i \in DOMAIN chosen :
             /\ Overlap(chosen[i], c)
             /\ chosen[i].from <= c.from
             /\ chosen[i].from = c.from /\ c.key # "name" => c.to <= chosen[i].to
        BY <2>3, <2>5 DEF Chosen
    <2>9. chosen[i] \in SpansIn(text)
        BY <2>3 DEF Chosen
    <2> DEFINE s == chosen[i]
    <2>10. s.from \in Nat /\ s.to \in Nat /\ c.from \in Nat /\ c.to \in Nat
        BY <2>6, <2>9, SpanFacts
    <2>11. \A p \in Positions(s) : Covered(p)
        BY DEF Covered
    <2> HIDE DEF text
    <2>12. c.from \in Positions(s)
        BY <2>8, <2>10 DEF Overlap, Positions
    <2>13. CASE s.from = c.from
        <3>1. Positions(c) \subseteq Positions(s)
            BY <2>7, <2>8, <2>10, <2>13 DEF Positions
        <3> QED BY <2>11, <2>12, <3>1
    <2>14. CASE s.from # c.from
        <3>1. s.from < c.from
            BY <2>8, <2>10, <2>14
        <3> QED BY <2>8, <2>11, <2>12, <3>1
    <2> QED BY <2>13, <2>14
<1> QED BY <1>1, LastInvariant, PTL

\* KnownValuesHidden: what the vault knew before a message does not go out in clear again.
THEOREM KnownValuesStayHidden == Spec => []KnownValuesHidden
<1>1. LastRedacted => KnownValuesHidden
    <2> SUFFICES ASSUME LastRedacted, last.made, NEW e \in ToSet(last.before),
                        NEW o \in Occurrences(last.m.text, e, last.suppressed, last.allow),
                        ~InGreeting(Plain(last.m.text, o[1], o[2], e.key))
                 PROVE  Covered(o[1])
        BY DEF KnownValuesHidden
    <2>1. PICK r \in Requests, suppressed \in BOOLEAN : \E inf \in SUBSET InferredIn(r.m) :
             LastIs(r, suppressed, inf)
        BY DEF LastRedacted
    <2>2. PICK inferred \in SUBSET InferredIn(r.m) : LastIs(r, suppressed, inferred)
        BY <2>1
    <2> DEFINE text == r.m.text
               chosen == last.chosen
               v == last.before
               spans == Spans(r.m, r.q, v, suppressed, r.allow, inferred)
               c == Plain(text, o[1], o[2], e.key)
    <2>3. /\ last.m = r.m /\ last.q = r.q /\ last.allow = r.allow /\ last.suppressed = suppressed
          /\ v \in Seq(Entry)
          /\ Chosen(text, spans, chosen)
        BY <2>2 DEF LastIs
    <2>4. text \in Seq(Units)
        BY RequestFacts
    <2>5. c \in ToSet(Repeats(text, v, suppressed, r.allow))
        <3>1. PICK i \in 1 .. Len(v) : e = v[i]
            BY <2>3 DEF ToSet
        <3>2. c \in ReadsAs(text, v[i], suppressed, r.allow)
            BY <2>3, <3>1 DEF ReadsAs
        <3> HIDE DEF c, v, text
        <3> DEFINE n == Len(v)
        <3>3. ToSet(Repeats(text, v, suppressed, r.allow))
                  = UNION {ReadsAs(text, v[j], suppressed, r.allow) : j \in 1 .. n}
            <4>1. v \in Seq(Entry) /\ n = Len(v)
                BY <2>3
            <4> HIDE DEF n
            <4> QED BY <2>4, <4>1, RepeatsMembers
        <3> QED BY <3>1, <3>2, <3>3
    <2>6. ~InRange(c, r.m.greeting)
        BY <2>3 DEF InGreeting, InRange
    <2>7. c.from = o[1]
        BY DEF Plain, Span
    <2> HIDE DEF c
    <2>8. c \in ToSet(spans) /\ spans \in Seq(SpansIn(text))
        <3>1. SpansAre(r, r.q, v, suppressed, r.allow, inferred)
            BY <2>3, SpansMembers
        <3>2. ListedFor(c, r.m, r.q, v, suppressed, r.allow, inferred)
            BY <2>5, <2>6 DEF ListedFor
        <3> QED BY <3>1, <3>2 DEF SpansAre
    <2>9. c \in SpansIn(text)
        BY <2>8 DEF ToSet
    <2> HIDE DEF spans
    <2>10. PICK i \in DOMAIN chosen : Overlap(chosen[i], c) /\ chosen[i].from <= c.from
        BY <2>3, <2>8 DEF Chosen
    <2>11. chosen[i] \in SpansIn(text)
        BY <2>3 DEF Chosen
    <2> DEFINE s == chosen[i]
    <2>12. s.from \in Nat /\ s.to \in Nat /\ c.from \in Nat /\ c.to \in Nat
        BY <2>4, <2>9, <2>11, SpanFacts
    <2>13. \A p \in Positions(s) : Covered(p)
        BY DEF Covered
    <2> HIDE DEF text
    <2>14. c.from \in Positions(s)
        BY <2>10, <2>12 DEF Overlap, Positions
    <2> QED BY <2>7, <2>13, <2>14
<1> QED BY <1>1, LastInvariant, PTL


\* No known name is looked for where names are suppressed.
LEMMA NamesSuppressed ==
    ASSUME NEW text, NEW e, IsName(e.key), NEW suppressed \in BOOLEAN, NEW allow,
           ReadsAs(text, e, suppressed, allow) # {}
    PROVE  ~suppressed
<1> SUFFICES ASSUME suppressed PROVE FALSE
    OBVIOUS
<1>1. e.key # "ph"
    BY NameKeysFacts DEF IsName
<1>2. Forms(e, suppressed, allow) = {}
    BY DEF Forms
<1>3. Occurrences(text, e, suppressed, allow) = {}
    BY <1>1, <1>2 DEF Occurrences, LongNumber
<1> QED BY <1>3 DEF ReadsAs

\* NamesLearned: a name is learned only from a message that may be read for names, and
\* only from a part of it that is no answer about the business or was known already.
THEOREM NamesAreLearned == Spec => []NamesLearned
<1>1. LastRedacted => NamesLearned
    <2> SUFFICES ASSUME LastRedacted, last.made, NEW i \in DOMAIN vault,
                        i > Len(last.before) \/ vault[i] # last.before[i], IsName(vault[i].key)
                 PROVE  /\ ~last.suppressed
                        /\ \E s \in ToSet(last.chosen) :
                              /\ IsName(s.key) /\ vault[i] \in ToSet(Entries(s))
                              /\ \/ \A b \in BusinessRanges(last.m, last.q) : ~Inside(s, b)
                                 \/ s \in ToSet(Repeats(last.m.text, last.before, FALSE, last.allow))
        BY DEF NamesLearned
    <2>1. PICK r \in Requests, suppressed \in BOOLEAN : \E inf \in SUBSET InferredIn(r.m) :
             LastIs(r, suppressed, inf)
        BY DEF LastRedacted
    <2>2. PICK inferred \in SUBSET InferredIn(r.m) : LastIs(r, suppressed, inferred)
        BY <2>1
    <2> DEFINE text == r.m.text
               chosen == last.chosen
               v == last.before
               spans == Spans(r.m, r.q, v, suppressed, r.allow, inferred)
               known == Repeats(text, v, suppressed, r.allow)
               new == NewNames(r.m, v, suppressed, r.allow, inferred)
    <2>3. /\ last.m = r.m /\ last.q = r.q /\ last.allow = r.allow /\ last.suppressed = suppressed
          /\ v \in Seq(Entry)
          /\ Chosen(text, spans, chosen)
          /\ Teaches(v, vault, UNION {ToSet(Entries(s)) : s \in ToSet(chosen)})
        BY <2>2 DEF LastIs
    <2>4. text \in Seq(Units)
        BY RequestFacts
    <2>5. PICK s \in ToSet(chosen) : vault[i] \in ToSet(Entries(s))
        <3>1. i \in 1 .. Len(vault)
            BY <2>3 DEF Teaches
        <3> QED BY <2>3, <3>1 DEF Teaches
    <2>6. IsName(s.key)
        <3>1. chosen \in Seq(SpansIn(text))
            BY <2>3 DEF Chosen
        <3> HIDE DEF chosen, text
        <3>2. s \in SpansIn(text)
            BY <2>5, <3>1 DEF ToSet
        <3> QED BY <2>4, <2>5, <3>2, EntriesFacts
    <2>7. s \in ToSet(known) \/ (s \in ToSet(new) /\ ~NameIn(s, BusinessRanges(r.m, r.q)))
        <3>1. s \in ToSet(spans)
            BY <2>3, <2>5 DEF Chosen
        <3>2. s \notin ToSet(Contacts(r.m, r.q))
            BY <2>6, ContactsMembers
        <3> HIDE DEF spans
        <3>3. spans = Spans(r.m, r.q, v, suppressed, r.allow, inferred)
            BY DEF spans
        <3>4. ListedFor(s, r.m, r.q, v, suppressed, r.allow, inferred)
            <4>1. SpansAre(r, r.q, v, suppressed, r.allow, inferred)
                BY <2>3, SpansMembers
            <4> QED BY <3>1, <3>3, <4>1 DEF SpansAre
        <3> QED BY <3>2, <3>4 DEF ListedFor
    <2>8. CASE s \in ToSet(known)
        <3> DEFINE n == Len(v)
        <3>1. ToSet(known) = UNION {ReadsAs(text, v[j], suppressed, r.allow) : j \in 1 .. n}
            <4>1. v \in Seq(Entry) /\ n = Len(v)
                BY <2>3
            <4> HIDE DEF n, v, text
            <4> QED BY <2>4, <4>1, RepeatsMembers
        <3>2. ToSet(Repeats(text, v, FALSE, r.allow)) = UNION {ReadsAs(text, v[j], FALSE, r.allow) : j \in 1 .. n}
            <4>1. v \in Seq(Entry) /\ n = Len(v)
                BY <2>3
            <4> DEFINE no == FALSE
            <4> HIDE DEF n, v, text, no
            <4>2. ToSet(Repeats(text, v, no, r.allow)) = UNION {ReadsAs(text, v[j], no, r.allow) : j \in 1 .. n}
                BY <2>4, <4>1, RepeatsMembers
            <4> QED BY <4>2 DEF no
        <3> HIDE DEF known
        <3>3. PICK j \in 1 .. n : s \in ReadsAs(text, v[j], suppressed, r.allow)
            BY <2>8, <3>1
        <3>4. s.key = v[j].key
            BY <3>3 DEF ReadsAs, Plain, Span
        <3>5. ~suppressed
            <4>1. ReadsAs(text, v[j], suppressed, r.allow) # {}
                BY <3>3
            <4> QED BY <2>6, <3>4, <4>1, NamesSuppressed
        <3>6. s \in ReadsAs(text, v[j], FALSE, r.allow)
            BY <2>3, <3>3, <3>5
        <3>7. s \in ToSet(Repeats(text, v, FALSE, r.allow))
            BY <3>2, <3>6
        <3> QED BY <2>3, <2>5, <2>6, <3>5, <3>7
    <2>9. CASE s \in ToSet(new) /\ ~NameIn(s, BusinessRanges(r.m, r.q))
        <3>1. ~suppressed
            BY <2>9 DEF NewNames, ToSet
        <3>2. \A b \in BusinessRanges(r.m, r.q) : ~Inside(s, b)
            BY <2>6, <2>9 DEF NameIn
        <3> QED BY <2>3, <2>5, <2>6, <3>1, <3>2
    <2> QED BY <2>7, <2>8, <2>9
<1> QED BY <1>1, LastInvariant, PTL

--------------------------------------------------------------------------------
(* The way back.                                                               *)

\* A list that goes as flattening does ends where it does.
LEMMA FlatUnique ==
    ASSUME NEW n \in Nat, NEW S, NEW ss \in [1 .. n -> Seq(S)], NEW f, Flattens(f, n, ss)
    PROVE  f[n] = FlattenSeq(ss)
<1>1. PICK g \in [0 .. n -> Seq(S)] : Flattens(g, n, ss) /\ g[n] = FlattenSeq(ss)
    BY FlatSteps
<1> DEFINE G == {k \in 0 .. n : f[k] = g[k]}
<1>2. 0 \in G
    BY <1>1 DEF Flattens
<1>3. ASSUME NEW k \in 1 .. n, k - 1 \in G PROVE k \in G
    <2>1. f[k - 1] = g[k - 1] /\ k \in 0 .. n
        BY <1>3
    <2>2. f[k] = Cat(f[k - 1], ss[k]) /\ g[k] = Cat(g[k - 1], ss[k])
        BY <1>1 DEF Flattens
    <2> QED BY <2>1, <2>2
<1>4. n \in G
    <2>1. n \in 0 .. n
        OBVIOUS
    <2> HIDE DEF G
    <2> QED BY <1>2, <1>3, <2>1, StepByStep
<1> QED BY <1>1, <1>4

\* uu is ss, and tt behind it.
Joins(uu, ss, tt, m, n) ==
    (\A i \in 1 .. m : uu[i] = ss[i]) /\ \A i \in 1 .. n : uu[m + i] = tt[i]

\* Lists of lists of which one is the two others.
Joined(uu, ss, tt, m, n, S) ==
    /\ m \in Nat /\ n \in Nat
    /\ ss \in [1 .. m -> Seq(S)] /\ tt \in [1 .. n -> Seq(S)] /\ uu \in [1 .. m + n -> Seq(S)]
    /\ Joins(uu, ss, tt, m, n)

\* What is flattened of two lists of lists.
LEMMA FlatJoin ==
    ASSUME NEW m, NEW n, NEW S, NEW ss, NEW tt, NEW uu, Joined(uu, ss, tt, m, n, S)
    PROVE  FlattenSeq(uu) = Cat(FlattenSeq(ss), FlattenSeq(tt))
<1> DEFINE l == m + n
<1>0. /\ m \in Nat /\ n \in Nat /\ ss \in [1 .. m -> Seq(S)] /\ tt \in [1 .. n -> Seq(S)]
      /\ uu \in [1 .. l -> Seq(S)] /\ Joins(uu, ss, tt, m, n)
    BY DEF Joined
<1>1. PICK f \in [0 .. m -> Seq(S)] : Flattens(f, m, ss) /\ f[m] = FlattenSeq(ss)
    BY <1>0, FlatSteps
<1>2. PICK g \in [0 .. n -> Seq(S)] : Flattens(g, n, tt) /\ g[n] = FlattenSeq(tt)
    BY <1>0, FlatSteps
<1> DEFINE h == [k \in 0 .. m + n |-> IF k <= m THEN f[k] ELSE Cat(f[m], g[k - m])]
<1>3. f[m] \in Seq(S) /\ g[0] = <<>> /\ f[0] = <<>>
    BY <1>0, <1>1, <1>2 DEF Flattens
<1>4. \A p \in 0 .. n : h[m + p] = Cat(f[m], g[p])
    <2> TAKE p \in 0 .. n
    <2>1. m + p \in 0 .. m + n /\ (m + p) - m = p
        BY <1>0
    <2>2. CASE p = 0
        <3>1. h[m + p] = f[m]
            BY <1>0, <2>2
        <3> DEFINE a == f[m]
        <3> HIDE DEF h, a
        <3>2. Cat(a, <<>>) = a
            BY <1>0, <1>3, CatFacts DEF a
        <3> QED BY <1>0, <1>3, <2>2, <3>1, <3>2 DEF a
    <2>3. CASE p # 0
        BY <1>0, <2>1, <2>3
    <2> QED BY <1>0, <2>2, <2>3
<1>5. h[0] = <<>>
    BY <1>0, <1>3
<1>6. ASSUME NEW k \in 1 .. l PROVE h[k] = Cat(h[k - 1], uu[k])
    <2>1. CASE k <= m
        <3>1. k \in 1 .. m /\ h[k] = f[k] /\ h[k - 1] = f[k - 1]
            BY <1>0, <2>1
        <3> HIDE DEF h
        <3> QED BY <1>0, <1>1, <3>1 DEF Flattens, Joins
    <2>2. CASE k > m
        <3> DEFINE p == k - m
        <3>1. p \in 1 .. n /\ p - 1 \in 0 .. n /\ p \in 0 .. n /\ m + p = k /\ m + (p - 1) = k - 1
            BY <1>0, <2>2
        <3> HIDE DEF h, p
        <3>2. h[m + p] = Cat(f[m], g[p]) /\ h[m + (p - 1)] = Cat(f[m], g[p - 1])
            BY <1>0, <1>4, <3>1
        <3>3. g[p] = Cat(g[p - 1], tt[p]) /\ uu[m + p] = tt[p]
            BY <1>0, <1>2, <3>1 DEF Flattens, Joins
        <3>4. g[p - 1] \in Seq(S) /\ tt[p] \in Seq(S)
            BY <1>0, <1>2, <3>1
        <3> DEFINE a == f[m]  b == g[p - 1]  c == tt[p]
        <3>5. a \in Seq(S) /\ b \in Seq(S) /\ c \in Seq(S)
            BY <1>0, <1>3, <3>4
        <3> HIDE DEF a, b, c
        <3>6. Cat(Cat(a, b), c) = Cat(a, Cat(b, c))
            BY <3>5, CatAssociates
        <3>7. h[k] = Cat(a, g[p]) /\ h[k - 1] = Cat(a, b)
            BY <3>1, <3>2 DEF a, b
        <3>8. g[p] = Cat(b, c) /\ uu[k] = c
            BY <3>1, <3>3 DEF b, c
        <3> QED BY <3>6, <3>7, <3>8
    <2> QED BY <1>0, <2>1, <2>2
<1> HIDE DEF h
<1>7. Flattens(h, l, uu)
    BY <1>0, <1>5, <1>6 DEF Flattens
<1>8. h[l] = FlattenSeq(uu)
    <2>1. l \in Nat
        BY <1>0
    <2> QED BY <1>0, <1>7, <2>1, FlatUnique
<1>9. h[l] = Cat(f[m], g[n])
    BY <1>0, <1>4
<1> QED BY <1>0, <1>1, <1>2, <1>8, <1>9

\* What becomes of the units of s.
Pieced(s, u, w, n) == [i \in 1 .. n |-> IF s[i] = u THEN w ELSE <<s[i]>>]

\* Replacing keeps the kind of a list, and is done unit by unit.
Replaces(s, u, w, S) ==
    /\ Replace(s, u, w) \in Seq(S)
    /\ Pieced(s, u, w, Len(s)) \in [1 .. Len(s) -> Seq(S)]
    /\ Replace(s, u, w) = FlattenSeq(Pieced(s, u, w, Len(s)))

\* It does both.
LEMMA ReplaceTyped ==
    ASSUME NEW S, NEW s \in Seq(S), NEW u, NEW w \in Seq(S)
    PROVE  Replaces(s, u, w, S)
<1> DEFINE n == Len(s)
           ss == Pieced(s, u, w, n)
<1>0. ss = [i \in 1 .. n |-> IF s[i] = u THEN w ELSE <<s[i]>>]
    BY DEF Pieced
<1>1. n \in Nat /\ DOMAIN s = 1 .. n
    OBVIOUS
<1>2. ASSUME NEW i \in 1 .. n PROVE (IF s[i] = u THEN w ELSE <<s[i]>>) \in Seq(S)
    <2>1. s[i] \in S
        BY <1>2
    <2> DEFINE x == s[i]
    <2> HIDE DEF x
    <2>2. <<x>> \in Seq(S)
        BY <2>1 DEF x
    <2> QED BY <2>2 DEF x
<1> HIDE DEF n, ss
<1>3. ss \in [1 .. n -> Seq(S)]
    BY <1>0, <1>2
<1>4. Replace(s, u, w) = FlattenSeq(ss)
    BY <1>0, <1>1 DEF Replace
<1>5. FlattenSeq(ss) \in Seq(S)
    BY <1>1, <1>3, FlatMembers
<1> QED BY <1>3, <1>4, <1>5 DEF Replaces, n, ss

\* Replacing in a text made of two.
LEMMA ReplaceJoin ==
    ASSUME NEW S, NEW a \in Seq(S), NEW b \in Seq(S), NEW u, NEW w \in Seq(S)
    PROVE  Replace(Cat(a, b), u, w) = Cat(Replace(a, u, w), Replace(b, u, w))
<1> DEFINE m == Len(a)
           n == Len(b)
           l == m + n
           c == Cat(a, b)
           ss == Pieced(a, u, w, m)
           tt == Pieced(b, u, w, n)
           uu == Pieced(c, u, w, l)
<1>1. /\ c \in Seq(S) /\ Len(c) = l /\ m \in Nat /\ n \in Nat
      /\ \A i \in 1 .. m : c[i] = a[i]
    BY ConcatProperties DEF Cat
<1>2. \A i \in 1 .. n : c[m + i] = b[i]
    <2> TAKE i \in 1 .. n
    <2>1. m + i \in 1 .. m + n /\ ~(m + i <= m) /\ (m + i) - m = i
        BY <1>1
    <2> QED BY <2>1, ConcatProperties DEF Cat
<1>3. Joins(uu, ss, tt, m, n)
    <2>1. \A i \in 1 .. m : uu[i] = ss[i]
        BY <1>1 DEF Pieced
    <2>2. \A i \in 1 .. n : uu[m + i] = tt[i]
        BY <1>1, <1>2 DEF Pieced
    <2> HIDE DEF uu, ss, tt
    <2> QED BY <2>1, <2>2 DEF Joins
<1>4. l = m + n
    OBVIOUS
<1> HIDE DEF c, l, m, n, ss, tt, uu
<1>5. ss \in [1 .. m -> Seq(S)] /\ Replace(a, u, w) = FlattenSeq(ss)
    <2>1. Replaces(a, u, w, S)
        BY ReplaceTyped
    <2> QED BY <2>1 DEF Replaces, m, ss
<1>6. tt \in [1 .. n -> Seq(S)] /\ Replace(b, u, w) = FlattenSeq(tt)
    <2>1. Replaces(b, u, w, S)
        BY ReplaceTyped
    <2> QED BY <2>1 DEF Replaces, n, tt
<1>7. uu \in [1 .. l -> Seq(S)] /\ Replace(c, u, w) = FlattenSeq(uu)
    <2>1. Replaces(c, u, w, S)
        BY <1>1, ReplaceTyped
    <2> QED BY <1>1, <2>1 DEF Replaces, uu
<1>8. FlattenSeq(uu) = Cat(FlattenSeq(ss), FlattenSeq(tt))
    <2>1. m \in Nat /\ n \in Nat
        BY <1>1
    <2>2. ss \in [1 .. m -> Seq(S)]
        BY <1>5
    <2>3. tt \in [1 .. n -> Seq(S)]
        BY <1>6
    <2>4. uu \in [1 .. m + n -> Seq(S)]
        BY <1>4, <1>7
    <2>5. Joined(uu, ss, tt, m, n, S)
        BY <1>3, <2>1, <2>2, <2>3, <2>4 DEF Joined
    <2> QED BY <2>5, FlatJoin
<1> QED BY <1>5, <1>6, <1>7, <1>8 DEF c

\* The lists tt are the lists ss with u replaced.
ReplacedEach(tt, ss, u, w, n) == \A i \in 1 .. n : tt[i] = Replace(ss[i], u, w)

\* Replacing in a flattened list is replacing in each of the lists it is made of.
LEMMA ReplaceFlat ==
    ASSUME NEW n \in Nat, NEW S, NEW ss \in [1 .. n -> Seq(S)], NEW u, NEW w \in Seq(S),
           NEW tt \in [1 .. n -> Seq(S)], ReplacedEach(tt, ss, u, w, n)
    PROVE  Replace(FlattenSeq(ss), u, w) = FlattenSeq(tt)
<1>1. PICK f \in [0 .. n -> Seq(S)] : Flattens(f, n, ss) /\ f[n] = FlattenSeq(ss)
    BY FlatSteps
<1> DEFINE h == [k \in 0 .. n |-> Replace(f[k], u, w)]
<1>2. h[0] = <<>>
    <2>1. f[0] = <<>>
        BY <1>1 DEF Flattens
    <2>2. Replace(<<>>, u, w) = <<>>
        BY DEF Replace, FlattenSeq
    <2> QED BY <2>1, <2>2
<1>3. ASSUME NEW k \in 1 .. n PROVE h[k] = Cat(h[k - 1], tt[k])
    <2>1. k - 1 \in 0 .. n /\ k \in 0 .. n
        OBVIOUS
    <2> DEFINE a == f[k - 1]  b == ss[k]
    <2>2. a \in Seq(S) /\ b \in Seq(S) /\ f[k] = Cat(a, b)
        BY <1>1, <2>1 DEF Flattens
    <2>3. h[k] = Replace(f[k], u, w) /\ h[k - 1] = Replace(a, u, w) /\ tt[k] = Replace(b, u, w)
        BY <2>1 DEF ReplacedEach
    <2> HIDE DEF a, b, h
    <2>4. Replace(Cat(a, b), u, w) = Cat(Replace(a, u, w), Replace(b, u, w))
        <3>1. a \in Seq(S)
            BY <2>2
        <3>2. b \in Seq(S)
            BY <2>2
        <3> QED BY <3>1, <3>2, ReplaceJoin
    <2> QED BY <2>2, <2>3, <2>4
<1>4. h[n] = Replace(FlattenSeq(ss), u, w)
    BY <1>1
<1> HIDE DEF h
<1>5. Flattens(h, n, tt)
    BY <1>2, <1>3 DEF Flattens
<1>6. h[n] = FlattenSeq(tt)
    BY <1>5, FlatUnique
<1> QED BY <1>4, <1>6

\* A list of the members of a list, one each.
Singles(s) == [i \in 1 .. Len(s) |-> <<s[i]>>]

\* Flattened, it is the list.
LEMMA SinglesFlat ==
    ASSUME NEW S, NEW s \in Seq(S)
    PROVE  Singles(s) \in [1 .. Len(s) -> Seq(S)] /\ FlattenSeq(Singles(s)) = s
<1> DEFINE n == Len(s)
           ss == Singles(s)
           f == [k \in 0 .. n |-> [i \in 1 .. k |-> s[i]]]
<1>1. n \in Nat /\ DOMAIN s = 1 .. n /\ \A i \in 1 .. n : s[i] \in S
    OBVIOUS
<1>2. ss \in [1 .. n -> Seq(S)]
    <2>1. \A i \in 1 .. n : <<s[i]>> \in Seq(S)
        BY <1>1
    <2> QED BY <2>1 DEF Singles
<1>3. f[0] = <<>>
    BY <1>1
<1>4. ASSUME NEW k \in 1 .. n PROVE f[k] = Cat(f[k - 1], ss[k])
    <2>1. ss[k] = <<s[k]>> /\ k - 1 \in 0 .. n /\ k \in 0 .. n /\ s[k] \in S
        BY <1>1 DEF Singles
    <2> DEFINE a == f[k - 1]  b == f[k]  x == s[k]
    <2>2. a \in Seq(S) /\ Len(a) = k - 1 /\ b \in Seq(S) /\ Len(b) = k
        BY <1>1, <2>1
    <2>3. \A i \in 1 .. k - 1 : a[i] = s[i]
        BY <1>1, <2>1
    <2>4. \A i \in 1 .. k : b[i] = s[i]
        BY <1>1, <2>1
    <2> HIDE DEF f, ss
    <2>5. Cat(a, ss[k]) = Append(a, x)
        <3> HIDE DEF a, x
        <3>1. ss[k] = <<x>>
            BY <2>1 DEF x
        <3> QED BY <2>2, <3>1, AppendIsConcat DEF x, Cat
    <2>6. Append(a, x) = b
        <3> HIDE DEF a, b
        <3>1. x \in S
            BY <2>1
        <3> HIDE DEF x
        <3>2. /\ Append(a, x) \in Seq(S) /\ Len(Append(a, x)) = k
              /\ \A i \in 1 .. k - 1 : Append(a, x)[i] = a[i]
              /\ Append(a, x)[k] = x
            BY <2>2, <3>1, AppendProperties
        <3>3. \A i \in 1 .. k : Append(a, x)[i] = b[i]
            <4> TAKE i \in 1 .. k
            <4>1. CASE i = k
                BY <2>4, <3>2, <4>1 DEF x
            <4>2. CASE i # k
                <5>1. i \in 1 .. k - 1
                    BY <4>2
                <5> QED BY <2>3, <2>4, <3>2, <5>1
            <4> QED BY <4>1, <4>2
        <3> QED BY <2>2, <3>2, <3>3, SeqEqual
    <2> QED BY <2>5, <2>6
<1>5. f[n] = s
    BY <1>1
<1> HIDE DEF f, ss, n
<1>6. Flattens(f, n, ss)
    BY <1>3, <1>4 DEF Flattens
<1>7. f[n] = FlattenSeq(ss)
    BY <1>1, <1>2, <1>6, FlatUnique
<1> QED BY <1>2, <1>5, <1>7 DEF n, ss

\* Where there is nothing to replace, nothing changes.
LEMMA ReplaceNothing ==
    ASSUME NEW S, NEW s \in Seq(S), NEW u, u \notin ToSet(s), NEW w \in Seq(S)
    PROVE  Replace(s, u, w) = s
<1>1. DOMAIN s = 1 .. Len(s) /\ \A i \in 1 .. Len(s) : s[i] # u
    BY DEF ToSet
<1>2. Replace(s, u, w) = FlattenSeq(Singles(s))
    <2>1. [i \in DOMAIN s |-> IF s[i] = u THEN w ELSE <<s[i]>>] = Singles(s)
        BY <1>1 DEF Singles
    <2> QED BY <2>1 DEF Replace
<1> QED BY <1>2, SinglesFlat

\* A single unit is replaced by the value as it is.
LEMMA ReplaceOneUnit ==
    ASSUME NEW S, NEW x \in S, NEW w \in Seq(S)
    PROVE  Replace(<<x>>, x, w) = w
<1> DEFINE s == <<x>>
           ss == Pieced(s, x, w, 1)
<1>1. s \in Seq(S) /\ Len(s) = 1
    OBVIOUS
<1>2. ss \in [1 .. 1 -> Seq(S)] /\ ss[1] = w
    BY DEF Pieced
<1>3. Replace(s, x, w) = FlattenSeq(ss)
    <2>1. Replaces(s, x, w, S)
        <3> HIDE DEF s
        <3> QED BY <1>1, ReplaceTyped
    <2> HIDE DEF s
    <2> QED BY <1>1, <2>1 DEF Replaces
<1> HIDE DEF ss, s
<1>4. PICK f \in [0 .. 1 -> Seq(S)] : Flattens(f, 1, ss) /\ f[1] = FlattenSeq(ss)
    <2> DEFINE one == 1
    <2>1. one \in Nat /\ ss \in [1 .. one -> Seq(S)]
        BY <1>2
    <2> HIDE DEF one
    <2>2. \E f \in [0 .. one -> Seq(S)] : Flattens(f, one, ss) /\ f[one] = FlattenSeq(ss)
        BY <2>1, FlatSteps
    <2> QED BY <2>2 DEF one
<1>5. f[0] = <<>> /\ f[1] = Cat(f[0], ss[1])
    <2>1. 1 \in 1 .. 1 /\ 1 - 1 = 0
        OBVIOUS
    <2>2. f[1] = Cat(f[1 - 1], ss[1]) /\ f[0] = <<>>
        BY <1>4, <2>1 DEF Flattens
    <2> QED BY <2>1, <2>2
<1>6. Cat(<<>>, w) = w
    BY CatFacts
<1> QED BY <1>2, <1>3, <1>4, <1>5, <1>6 DEF s

\* The order in which the tokens of a vault are replaced: the longest first.
TokenSize(v, i) ==
    (IF v[i].key \in {"mn1", "mn2"} THEN 3 ELSE 2) + (IF Number(v, i) > 9 THEN 2 ELSE 1)
CleanOrder(v) ==
    Order(v, LAMBDA i, j : TokenSize(v, i) > TokenSize(v, j)
                           \/ (TokenSize(v, i) = TokenSize(v, j) /\ i < j))

\* The order has every entry, and has it once.
LEMMA CleanOrderFacts ==
    ASSUME NEW v \in Seq(Entry), NEW n, n = Len(v), NEW o, o = CleanOrder(v)
    PROVE  /\ o \in [1 .. n -> 1 .. n]
           /\ \A i \in 1 .. n : \E k \in 1 .. n : o[k] = i
           /\ \A k, l \in 1 .. n : k < l => o[k] # o[l]
<1> DEFINE size(i) == TokenSize(v, i)
           R == {x \in (1 .. n) \X (1 .. n) :
                    size(x[1]) > size(x[2]) \/ (size(x[1]) = size(x[2]) /\ x[1] < x[2])}
<1>1. n \in Nat /\ DOMAIN v = 1 .. n
    OBVIOUS
<1>2. \A i \in 1 .. n : size(i) \in Nat
    BY DEF TokenSize
<1>0. o = Order(v, LAMBDA i, j : size(i) > size(j) \/ (size(i) = size(j) /\ i < j))
    BY DEF CleanOrder
<1> HIDE DEF size
<1>3. \A i, j \in 1 .. n : <<i, j>> \in R <=> size(i) > size(j) \/ (size(i) = size(j) /\ i < j)
    OBVIOUS
<1> HIDE DEF R
<1>4. StrictTotal(n, R)
    <2>1. \A i \in 1 .. n : <<i, i>> \notin R
        BY <1>1, <1>2, <1>3
    <2>2. \A i, j \in 1 .. n : i # j => <<i, j>> \in R \/ <<j, i>> \in R
        BY <1>1, <1>2, <1>3
    <2>3. \A i, j, k \in 1 .. n : <<i, j>> \in R /\ <<j, k>> \in R => <<i, k>> \in R
        BY <1>1, <1>2, <1>3
    <2> QED BY <2>1, <2>2, <2>3 DEF StrictTotal
<1>5. \A i \in 1 .. n :
         Cardinality({j \in 1 .. n : size(j) > size(i) \/ (size(j) = size(i) /\ j < i)}) + 1 = Place(n, R, i)
    <2> TAKE i \in 1 .. n
    <2>1. {j \in 1 .. n : size(j) > size(i) \/ (size(j) = size(i) /\ j < i)} = {j \in 1 .. n : <<j, i>> \in R}
        BY <1>3
    <2> QED BY <2>1 DEF Place
<1>6. o = InPlaces(n, R)
    <2> DEFINE P == {<<Cardinality({j \in 1 .. n : size(j) > size(i) \/ (size(j) = size(i) /\ j < i)}) + 1, i>> :
                        i \in 1 .. n}
    <2>1. o = [k \in 1 .. n |-> CHOOSE i \in 1 .. n : <<k, i>> \in P]
        BY <1>0, <1>1 DEF Order
    <2>2. P = {<<Place(n, R, x), x>> : x \in 1 .. n}
        BY <1>5
    <2> HIDE DEF P
    <2> QED BY <2>1, <2>2 DEF InPlaces
<1>7. Sorts(o, n, R)
    <2>1. n \in Nat
        BY <1>1
    <2>2. Sorts(InPlaces(n, R), n, R)
        BY <1>4, <2>1, PlacedList
    <2> QED BY <1>6, <2>2
<1>8. \A k, l \in 1 .. n : k < l => o[k] # o[l]
    <2>1. \A k, l \in 1 .. n : k < l => <<o[k], o[l]>> \in R
        BY <1>7 DEF Sorts
    <2>2. \A k \in 1 .. n : o[k] \in 1 .. n
        BY <1>7 DEF Sorts
    <2> QED BY <1>4, <2>1, <2>2 DEF StrictTotal
<1> QED BY <1>7, <1>8 DEF Sorts

\* Two entries have two tokens: the later of a key has the greater number.
LEMMA TokensDiffer ==
    ASSUME NEW v \in Seq(Entry), NEW i \in 1 .. Len(v), NEW j \in 1 .. Len(v), i < j
    PROVE  TokenAt(v, i) # TokenAt(v, j)
<1> SUFFICES ASSUME v[i].key = v[j].key PROVE Number(v, i) # Number(v, j)
    BY DEF TokenAt, Token, Unit
<1> DEFINE S == {k \in 1 .. i : v[k].key = v[i].key}
           T == {k \in 1 .. j : v[k].key = v[j].key}
<1>1. Len(v) \in Nat
    OBVIOUS
<1>2. S \subseteq T /\ j \in T /\ j \notin S
    BY <1>1
<1>3. IsFiniteSet(1 .. j)
    BY <1>1, FS_Interval
<1>4. T \subseteq 1 .. j
    OBVIOUS
<1>5. Number(v, i) = Cardinality(S) /\ Number(v, j) = Cardinality(T)
    BY DEF Number
<1> HIDE DEF S, T
<1>6. IsFiniteSet(T)
    BY <1>3, <1>4, FS_Subset
<1>7. Cardinality(S) # Cardinality(T)
    BY <1>2, <1>6, FS_Subset
<1> QED BY <1>5, <1>7

\* st replaces the tokens in their order.
CleansAll(st, text, v, n) ==
    /\ st[0] = text /\ st[n] = Clean(text, v)
    /\ \A k \in 1 .. n : st[k] = Replace(st[k - 1], TokenAt(v, CleanOrder(v)[k]), v[CleanOrder(v)[k]].value)

\* Values of a vault are lists of pieces, and none of them is a token.
LEMMA ValueFacts ==
    ASSUME NEW v \in Seq(Entry), NEW i \in 1 .. Len(v)
    PROVE  /\ v[i].value \in Seq(Pieces)
           /\ \A u \in ToSet(v[i].value) : ~HasToken(v, u)
<1>1. v[i] \in Entry
    OBVIOUS
<1>2. v[i].value \in Seq(Words)
    BY <1>1, EntryFacts
<1>3. Words \subseteq Pieces
    BY DEF Words, Pieces
<1>4. v[i].value \in Seq(Pieces)
    <2> DEFINE w == v[i].value
    <2> HIDE DEF w
    <2>1. w \in Seq(Words)
        BY <1>2 DEF w
    <2>2. w \in Seq(Pieces)
        BY <1>3, <2>1
    <2> QED BY <2>2 DEF w
<1>5. ASSUME NEW u \in ToSet(v[i].value) PROVE ~HasToken(v, u)
    <2>1. u \in Words
        BY <1>2 DEF ToSet
    <2>2. u.is = "word"
        BY <2>1, WordFacts
    <2> QED BY <2>2 DEF HasToken, TokenAt, Token, Unit
<1> QED BY <1>4, <1>5

\* The tokens are replaced one after the other.
LEMMA CleanSteps ==
    ASSUME NEW text \in Seq(Pieces), NEW v \in Seq(Entry), NEW n, n = Len(v)
    PROVE  \E st \in [0 .. n -> Seq(Pieces)] : CleansAll(st, text, v, n)
<1> DEFINE A == Seq(Pieces)
           o == CleanOrder(v)
           One(t, i) == Replace(t, TokenAt(v, i), v[i].value)
           F == [x \in (1 .. n) \X A |-> One(x[2], o[x[1]])]
           Is(it) == it = [s \in SUBSET (1 .. n) |->
                              IF s = {} THEN text ELSE One(it[s \ {Greatest(s)}], o[Greatest(s)])]
<1>1. n \in Nat /\ DOMAIN v = 1 .. n
    OBVIOUS
<1>2. o \in [1 .. n -> 1 .. n]
    BY CleanOrderFacts
<1>3. ASSUME NEW k \in 1 .. n, NEW a \in A PROVE One(a, o[k]) \in A
    <2>1. o[k] \in 1 .. n
        BY <1>2
    <2> HIDE DEF o
    <2>2. v[o[k]].value \in Seq(Pieces)
        BY <2>1, ValueFacts
    <2> DEFINE w == v[o[k]].value  u == TokenAt(v, o[k])
    <2> HIDE DEF w, u
    <2>3. Replaces(a, u, w, Pieces)
        BY <2>2, ReplaceTyped DEF w
    <2> QED BY <2>3 DEF Replaces, u, w
<1>4. Clean(text, v) = FoldLeft(One, text, o)
    BY DEF Clean, CleanOrder, TokenSize
<1> HIDE DEF A, o
<1>5. F \in [(1 .. n) \X A -> A] /\ \A k \in 1 .. n, a \in A : F[<<k, a>>] = One(a, o[k])
    BY <1>3
<1> HIDE DEF F
<1>6. text \in A
    BY DEF A
<1>7. PICK it0 \in [SUBSET (1 .. n) -> A] : Goes(it0, 1 .. n, text, F)
    BY <1>1, <1>5, <1>6, GoingExists
<1>8. Is(it0)
    <2>1. ASSUME NEW s \in SUBSET (1 .. n), s # {}
          PROVE  F[<<Greatest(s), it0[s \ {Greatest(s)}]>>] = One(it0[s \ {Greatest(s)}], o[Greatest(s)])
        <3>1. Greatest(s) \in 1 .. n
            BY <1>1, <2>1, GreatestFacts
        <3>2. it0[s \ {Greatest(s)}] \in A
            BY <1>7
        <3> HIDE DEF One
        <3> QED BY <1>5, <3>1, <3>2
    <2> HIDE DEF One
    <2> QED BY <1>7, <2>1 DEF Goes
<1> DEFINE it == CHOOSE i : Is(i)
<1>9. Is(it)
    BY <1>8
<1>10. DOMAIN o = 1 .. n /\ Len(o) = n
    BY <1>1, <1>2
<1>11. FoldLeft(One, text, o) = it[1 .. n]
    BY <1>10 DEF FoldLeft, MapThenFoldSet, Max, Greatest
<1> HIDE DEF it, One
<1> DEFINE st == [k \in 0 .. n |-> it[1 .. k]]
<1>12. st[0] = text /\ st[n] = Clean(text, v)
    <2>1. 1 .. 0 = {} /\ it[{}] = text
        BY <1>9
    <2> QED BY <1>1, <1>4, <1>11, <2>1
<1>13. ASSUME NEW k \in 1 .. n PROVE st[k] = One(st[k - 1], o[k])
    <2>1. /\ 1 .. k \in SUBSET (1 .. n) /\ 1 .. k # {}
          /\ Greatest(1 .. k) = k /\ (1 .. k) \ {k} = 1 .. k - 1
        BY <1>1, FirstPositions
    <2>2. it[1 .. k] = One(it[(1 .. k) \ {Greatest(1 .. k)}], o[Greatest(1 .. k)])
        BY <1>9, <2>1
    <2>3. st[k] = it[1 .. k] /\ st[k - 1] = it[1 .. k - 1]
        BY <1>1
    <2> QED BY <2>1, <2>2, <2>3
<1>14. DOMAIN st = 0 .. n /\ st = [k \in 0 .. n |-> st[k]]
    OBVIOUS
<1> HIDE DEF st
<1> DEFINE G == {k \in 0 .. n : st[k] \in A}
<1>15. 0 \in G /\ \A k \in 1 .. n : k - 1 \in G => k \in G
    BY <1>1, <1>3, <1>6, <1>12, <1>13
<1>16. \A k \in 0 .. n : st[k] \in A
    <2>1. \A k \in 0 .. n : k \in G
        <3> HIDE DEF G
        <3> QED BY <1>1, <1>15, StepByStep
    <2> QED BY <2>1
<1>17. st \in [0 .. n -> A]
    BY <1>14, <1>16
<1>18. CleansAll(st, text, v, n)
    BY <1>12, <1>13 DEF CleansAll, One, o
<1> QED BY <1>17, <1>18 DEF A

\* What becomes of a unit once the tokens of the entries D are replaced.
Form(v, D, x) ==
    IF \E j \in D : TokenAt(v, j) = x THEN v[CHOOSE j \in D : TokenAt(v, j) = x].value ELSE <<x>>
Formed(text, v, D) == [i \in 1 .. Len(text) |-> Form(v, D, text[i])]

\* A token of D becomes its value, and everything else stays.
LEMMA FormFacts ==
    ASSUME NEW v \in Seq(Entry), NEW D \in SUBSET (1 .. Len(v)), NEW x \in Pieces
    PROVE  /\ Form(v, D, x) \in Seq(Pieces)
           /\ \A d \in D : TokenAt(v, d) = x => Form(v, D, x) = v[d].value
           /\ (\A d \in D : TokenAt(v, d) # x) => Form(v, D, x) = <<x>>
<1>1. CASE \A d \in D : TokenAt(v, d) # x
    <2>1. Form(v, D, x) = <<x>>
        BY <1>1 DEF Form
    <2> QED BY <1>1, <2>1
<1>2. CASE ~\A d \in D : TokenAt(v, d) # x
    <2> DEFINE c == CHOOSE j \in D : TokenAt(v, j) = x
    <2>1. c \in D /\ TokenAt(v, c) = x
        BY <1>2
    <2>2. Form(v, D, x) = v[c].value
        BY <1>2 DEF Form
    <2> HIDE DEF c
    <2>3. ASSUME NEW d \in D, TokenAt(v, d) = x PROVE d = c
        <3>1. d \in 1 .. Len(v) /\ c \in 1 .. Len(v) /\ TokenAt(v, d) = TokenAt(v, c)
            BY <2>1, <2>3
        <3>2. ~(d < c) /\ ~(c < d)
            BY <3>1, TokensDiffer
        <3>3. Len(v) \in Nat
            OBVIOUS
        <3> QED BY <3>1, <3>2, <3>3
    <2>4. v[c].value \in Seq(Pieces)
        BY <2>1, ValueFacts
    <2> QED BY <1>2, <2>2, <2>3, <2>4
<1> QED BY <1>1, <1>2

\* Replacing one more token of the text with those of D replaced.
LEMMA FormStep ==
    ASSUME NEW v \in Seq(Entry), NEW D \in SUBSET (1 .. Len(v)), NEW j \in 1 .. Len(v), j \notin D,
           NEW x \in Pieces
    PROVE  Replace(Form(v, D, x), TokenAt(v, j), v[j].value) = Form(v, D \cup {j}, x)
<1> DEFINE u == TokenAt(v, j)
           w == v[j].value
           E == D \cup {j}
<1>1. E \in SUBSET (1 .. Len(v)) /\ D \subseteq E /\ j \in E
    OBVIOUS
<1>2. w \in Seq(Pieces) /\ u \in Pieces
    BY ValueFacts, TokenAtFacts
<1>3. \A d \in D : TokenAt(v, d) # u
    <2> TAKE d \in D
    <2>1. d \in 1 .. Len(v) /\ d # j /\ Len(v) \in Nat
        OBVIOUS
    <2>2. d < j \/ j < d
        BY <2>1
    <2> QED BY <2>1, <2>2, TokensDiffer
<1>4. ASSUME x = u PROVE Replace(Form(v, D, x), u, w) = Form(v, E, x)
    <2>1. Form(v, D, x) = <<x>>
        BY <1>3, <1>4, FormFacts
    <2>2. Form(v, E, x) = w
        BY <1>1, <1>4, FormFacts
    <2> HIDE DEF u, w, E
    <2>3. Replace(<<x>>, x, w) = w
        BY <1>2, ReplaceOneUnit
    <2> QED BY <1>4, <2>1, <2>2, <2>3 DEF u, w, E
<1>5. ASSUME x # u, NEW d \in D, TokenAt(v, d) = x
      PROVE  Replace(Form(v, D, x), u, w) = Form(v, E, x)
    <2>1. Form(v, D, x) = v[d].value
        BY <1>5, FormFacts
    <2>2. Form(v, E, x) = v[d].value
        BY <1>1, <1>5, FormFacts
    <2> DEFINE s == v[d].value
    <2>3. s \in Seq(Pieces) /\ u \notin ToSet(s)
        <3>1. HasToken(v, u)
            BY DEF HasToken
        <3>2. s \in Seq(Pieces) /\ \A y \in ToSet(s) : ~HasToken(v, y)
            BY ValueFacts
        <3> HIDE DEF u, s
        <3> QED BY <3>1, <3>2
    <2> HIDE DEF u, w, E, s
    <2>4. Replace(s, u, w) = s
        BY <1>2, <2>3, ReplaceNothing
    <2> QED BY <2>1, <2>2, <2>4 DEF s
<1>6. ASSUME x # u, \A d \in D : TokenAt(v, d) # x PROVE Replace(Form(v, D, x), u, w) = Form(v, E, x)
    <2>1. Form(v, D, x) = <<x>>
        BY <1>6, FormFacts
    <2>2. Form(v, E, x) = <<x>>
        <3>1. \A d \in E : TokenAt(v, d) # x
            BY <1>6
        <3> HIDE DEF E
        <3> QED BY <1>1, <3>1, FormFacts
    <2> HIDE DEF u, w, E
    <2> DEFINE s == <<x>>
    <2>3. s \in Seq(Pieces) /\ u \notin ToSet(s)
        BY <1>6 DEF ToSet
    <2> HIDE DEF s
    <2>4. Replace(s, u, w) = s
        BY <1>2, <2>3, ReplaceNothing
    <2> QED BY <2>1, <2>2, <2>4 DEF s
<1>7. Replace(Form(v, D, x), u, w) = Form(v, E, x)
    <2> HIDE DEF u, w, E
    <2> QED BY <1>4, <1>5, <1>6
<1> QED BY <1>7

\* In a text, too.
LEMMA FormedStep ==
    ASSUME NEW text \in Seq(Pieces), NEW v \in Seq(Entry), NEW D \in SUBSET (1 .. Len(v)),
           NEW j \in 1 .. Len(v), j \notin D
    PROVE  Replace(FlattenSeq(Formed(text, v, D)), TokenAt(v, j), v[j].value)
               = FlattenSeq(Formed(text, v, D \cup {j}))
<1> DEFINE n == Len(text)
           ss == Formed(text, v, D)
           tt == Formed(text, v, D \cup {j})
           u == TokenAt(v, j)
           w == v[j].value
<1>1. n \in Nat /\ \A i \in 1 .. n : text[i] \in Pieces
    OBVIOUS
<1>2. w \in Seq(Pieces)
    BY ValueFacts
<1>3. \A i \in 1 .. n : ss[i] \in Seq(Pieces)
    BY <1>1, FormFacts DEF Formed
<1>4. \A i \in 1 .. n : tt[i] \in Seq(Pieces)
    <2>1. D \cup {j} \in SUBSET (1 .. Len(v))
        OBVIOUS
    <2> QED BY <1>1, <2>1, FormFacts DEF Formed
<1>5. ReplacedEach(tt, ss, u, w, n)
    BY <1>1, FormStep DEF Formed, ReplacedEach
<1>6. ss \in [1 .. n -> Seq(Pieces)]
    <2>1. DOMAIN ss = 1 .. n /\ ss = [i \in 1 .. n |-> ss[i]]
        BY DEF Formed
    <2> HIDE DEF ss, n
    <2> QED BY <1>3, <2>1
<1>7. tt \in [1 .. n -> Seq(Pieces)]
    <2>1. DOMAIN tt = 1 .. n /\ tt = [i \in 1 .. n |-> tt[i]]
        BY DEF Formed
    <2> HIDE DEF tt, n
    <2> QED BY <1>4, <2>1
<1> HIDE DEF n, ss, tt, u, w
<1>8. Replace(FlattenSeq(ss), u, w) = FlattenSeq(tt)
    BY <1>1, <1>2, <1>5, <1>6, <1>7, ReplaceFlat
<1> QED BY <1>8 DEF ss, tt, u, w

\* Replacing the tokens one after the other is replacing all of them at once.
LEMMA CleanIsAtOnce ==
    ASSUME NEW text \in Seq(Pieces), NEW v \in Seq(Entry)
    PROVE  Clean(text, v) = AtOnce(text, v)
<1> DEFINE n == Len(v)
           o == CleanOrder(v)
           Given(k) == {o[l] : l \in 1 .. k}
<1>1. n \in Nat /\ DOMAIN v = 1 .. n /\ DOMAIN text = 1 .. Len(text)
    OBVIOUS
<1>2. /\ o \in [1 .. n -> 1 .. n]
      /\ \A i \in 1 .. n : \E k \in 1 .. n : o[k] = i
      /\ \A k, l \in 1 .. n : k < l => o[k] # o[l]
    BY CleanOrderFacts
<1>3. PICK st \in [0 .. n -> Seq(Pieces)] : CleansAll(st, text, v, n)
    BY CleanSteps
<1> DEFINE G == {k \in 0 .. n : st[k] = FlattenSeq(Formed(text, v, Given(k)))}
<1>4. 0 \in G
    <2>1. Given(0) = {}
        OBVIOUS
    <2>2. Formed(text, v, {}) = Singles(text)
        BY DEF Formed, Form, Singles
    <2>3. FlattenSeq(Singles(text)) = text
        BY SinglesFlat
    <2>4. st[0] = text
        BY <1>3 DEF CleansAll
    <2> HIDE DEF Given
    <2> QED BY <1>1, <2>1, <2>2, <2>3, <2>4
<1>5. ASSUME NEW k \in 1 .. n, k - 1 \in G PROVE k \in G
    <2> DEFINE D == Given(k - 1)
               j == o[k]
    <2>1. k - 1 \in 0 .. n /\ k \in 0 .. n
        BY <1>1
    <2>2. /\ \A l \in 1 .. k - 1 : l \in 1 .. n /\ o[l] \in 1 .. n /\ o[l] # o[k]
          /\ o[k] \in 1 .. n
        <3>1. \A l \in 1 .. k - 1 : l \in 1 .. n /\ l < k
            BY <1>1
        <3> HIDE DEF o
        <3> QED BY <1>2, <3>1
    <2>3. D \in SUBSET (1 .. n) /\ j \in 1 .. n /\ j \notin D
        <3> HIDE DEF o
        <3> QED BY <2>2
    <2>4. Given(k) = D \cup {j}
        <3>1. 1 .. k = (1 .. k - 1) \cup {k}
            BY <1>1
        <3> QED BY <3>1
    <2>5. st[k - 1] = FlattenSeq(Formed(text, v, D))
        BY <1>5
    <2>6. st[k] = Replace(st[k - 1], TokenAt(v, j), v[j].value)
        BY <1>3 DEF CleansAll
    <2> HIDE DEF D, j, Given
    <2>7. Replace(FlattenSeq(Formed(text, v, D)), TokenAt(v, j), v[j].value)
              = FlattenSeq(Formed(text, v, D \cup {j}))
        BY <2>3, FormedStep
    <2> QED BY <2>1, <2>4, <2>5, <2>6, <2>7
<1>6. n \in G
    <2>1. n \in 0 .. n
        BY <1>1
    <2> HIDE DEF G
    <2> QED BY <1>1, <1>4, <1>5, <2>1, StepByStep
<1>7. Given(n) = 1 .. n
    <2> HIDE DEF o
    <2>1. \A k \in 1 .. n : o[k] \in 1 .. n
        BY <1>2
    <2>2. Given(n) \subseteq 1 .. n
        BY <2>1
    <2>3. 1 .. n \subseteq Given(n)
        BY <1>2
    <2> QED BY <2>2, <2>3
<1>8. Clean(text, v) = FlattenSeq(Formed(text, v, 1 .. n))
    <2>1. st[n] = Clean(text, v)
        BY <1>3 DEF CleansAll
    <2>2. st[n] = FlattenSeq(Formed(text, v, Given(n)))
        BY <1>6
    <2> HIDE DEF Given
    <2> QED BY <1>7, <2>1, <2>2
<1>9. AtOnce(text, v) = FlattenSeq(Formed(text, v, 1 .. n))
    BY <1>1 DEF AtOnce, Formed, Form, HasToken
<1> QED BY <1>8, <1>9

\* A thing in brackets is repaired into tokens the vault has, or left as it is.
LEMMA RepairOneFacts ==
    ASSUME NEW v \in Seq(Entry), NEW u \in Units, NEW S, u \in S, \A i \in 1 .. Len(v) : TokenAt(v, i) \in S
    PROVE  RepairOne(u, v) \in Seq(S)
<1>1. \A t \in S : <<t>> \in Seq(S)
    OBVIOUS
<1>2. \A t, w \in S : <<t, w>> \in Seq(S)
    OBVIOUS
<1>3. ASSUME NEW key, OfKey(v, key) # {} PROVE TokenAt(v, Latest(v, key)) \in S
    <2>1. Latest(v, key) \in OfKey(v, key)
        BY <1>3, LatestFacts
    <2>2. Latest(v, key) \in 1 .. Len(v)
        BY <2>1 DEF OfKey
    <2> QED BY <2>2
<1>4. ASSUME NEW t, HasToken(v, t) PROVE t \in S
    <2>1. DOMAIN v = 1 .. Len(v)
        OBVIOUS
    <2> QED BY <1>4, <2>1 DEF HasToken
<1>5. CASE u.is = "joined" /\ u.id \in DOMAIN Alias
    <2> DEFINE t == Token(Alias[u.id], u.n)
    <2>1. RepairOne(u, v) = IF HasToken(v, t) THEN <<t>> ELSE <<u>>
        BY <1>5 DEF RepairOne
    <2> HIDE DEF t
    <2> QED BY <1>1, <1>4, <2>1
<1>6. CASE ~(u.is = "joined" /\ u.id \in DOMAIN Alias) /\ u.is = "bare" /\ u.id \in NAME_ALIASES
    <2> DEFINE fn == TokenAt(v, Latest(v, "fn"))
               ln == TokenAt(v, Latest(v, "ln"))
    <2>1. RepairOne(u, v) = IF OfKey(v, "fn") = {} THEN <<u>>
                            ELSE IF OfKey(v, "ln") = {} THEN <<fn>> ELSE <<fn, ln>>
        BY <1>6 DEF RepairOne
    <2>2. /\ OfKey(v, "fn") # {} => fn \in S
          /\ OfKey(v, "ln") # {} => ln \in S
        BY <1>3
    <2> HIDE DEF fn, ln
    <2> QED BY <1>1, <1>2, <2>1, <2>2
<1>7. CASE u.is # "joined" /\ u.is = "bare" /\ u.id \notin NAME_ALIASES /\ u.id \in DOMAIN Alias
    <2> DEFINE t == TokenAt(v, Latest(v, Alias[u.id]))
    <2>1. RepairOne(u, v) = IF OfKey(v, Alias[u.id]) = {} THEN <<u>> ELSE <<t>>
        BY <1>7 DEF RepairOne
    <2>2. OfKey(v, Alias[u.id]) # {} => t \in S
        BY <1>3
    <2> HIDE DEF t
    <2> QED BY <1>1, <2>1, <2>2
<1>8. CASE /\ ~(u.is = "joined" /\ u.id \in DOMAIN Alias)
           /\ ~(u.is = "bare" /\ u.id \in NAME_ALIASES)
           /\ ~(u.is = "bare" /\ u.id \in DOMAIN Alias)
    <2>1. RepairOne(u, v) = <<u>>
        BY <1>8 DEF RepairOne
    <2> QED BY <1>1, <2>1
<1> QED BY <1>5, <1>6, <1>7, <1>8

\* In a text, too.
LEMMA RepairedFacts ==
    ASSUME NEW text \in Seq(Units), NEW v \in Seq(Entry)
    PROVE  /\ Repaired(text, v) \in Seq(Pieces)
           /\ \A u \in ToSet(Repaired(text, v)) : HasToken(v, u) \/ u \in ToSet(text)
<1> DEFINE n == Len(text)
           S == {u \in Pieces : HasToken(v, u) \/ u \in ToSet(text)}
           ss == [i \in 1 .. n |-> RepairOne(text[i], v)]
<1>1. n \in Nat /\ DOMAIN text = 1 .. n /\ \A i \in 1 .. n : text[i] \in Units /\ text[i] \in ToSet(text)
    BY DEF ToSet
<1>2. \A i \in 1 .. Len(v) : TokenAt(v, i) \in S
    BY TokenAtFacts DEF HasToken
<1>3. \A i \in 1 .. n : text[i] \in S
    BY <1>1 DEF Pieces
<1>4. S \subseteq Pieces /\ \A u \in S : HasToken(v, u) \/ u \in ToSet(text)
    OBVIOUS
<1>5. Repaired(text, v) = FlattenSeq(ss)
    BY <1>1 DEF Repaired
<1> HIDE DEF S
<1>6. \A i \in 1 .. n : RepairOne(text[i], v) \in Seq(S)
    BY <1>1, <1>2, <1>3, RepairOneFacts
<1>7. ss \in [1 .. n -> Seq(S)]
    BY <1>6
<1> HIDE DEF ss, n
<1>8. FlattenSeq(ss) \in Seq(S)
    BY <1>1, <1>7, FlatMembers
<1> DEFINE t == Repaired(text, v)
<1>9. t \in Seq(S)
    BY <1>5, <1>8
<1> HIDE DEF t
<1>10. t \in Seq(Pieces) /\ \A u \in ToSet(t) : u \in S
    BY <1>4, <1>9 DEF ToSet
<1> QED BY <1>4, <1>10 DEF t

\* With all tokens replaced there is no token of the vault left.
LEMMA AtOnceFacts ==
    ASSUME NEW text \in Seq(Pieces), NEW v \in Seq(Entry), NEW u \in ToSet(AtOnce(text, v))
    PROVE  ~HasToken(v, u)
<1> DEFINE n == Len(text)
           m == Len(v)
           ss == Formed(text, v, 1 .. m)
<1>1. n \in Nat /\ DOMAIN text = 1 .. n /\ DOMAIN v = 1 .. m /\ \A i \in 1 .. n : text[i] \in Pieces
    OBVIOUS
<1>2. AtOnce(text, v) = FlattenSeq(ss)
    BY <1>1 DEF AtOnce, Formed, Form, HasToken
<1>3. 1 .. m \in SUBSET (1 .. Len(v))
    OBVIOUS
<1>4. \A i \in 1 .. n : ss[i] = Form(v, 1 .. m, text[i]) /\ ss[i] \in Seq(Pieces)
    BY <1>1, <1>3, FormFacts DEF Formed
<1>5. ss \in [1 .. n -> Seq(Pieces)]
    <2>1. DOMAIN ss = 1 .. n /\ ss = [i \in 1 .. n |-> ss[i]]
        BY DEF Formed
    <2> HIDE DEF ss, n
    <2> QED BY <1>4, <2>1
<1> HIDE DEF ss, n
<1>6. ToSet(FlattenSeq(ss)) = UNION {ToSet(ss[i]) : i \in 1 .. n}
    BY <1>1, <1>5, FlatMembers
<1>7. PICK i \in 1 .. n : u \in ToSet(ss[i])
    BY <1>2, <1>6
<1> DEFINE x == text[i]
<1>8. x \in Pieces /\ ss[i] = Form(v, 1 .. m, x)
    BY <1>1, <1>4
<1> HIDE DEF x
<1>9. ASSUME NEW d \in 1 .. m, TokenAt(v, d) = x PROVE ~HasToken(v, u)
    <2>1. ss[i] = v[d].value
        BY <1>3, <1>8, <1>9, FormFacts
    <2>2. \A y \in ToSet(v[d].value) : ~HasToken(v, y)
        BY ValueFacts
    <2> QED BY <1>7, <2>1, <2>2
<1>10. ASSUME \A d \in 1 .. m : TokenAt(v, d) # x PROVE ~HasToken(v, u)
    <2>1. ss[i] = <<x>>
        BY <1>3, <1>8, <1>10, FormFacts
    <2>2. u = x
        BY <1>7, <2>1 DEF ToSet
    <2> QED BY <1>1, <1>10, <2>2 DEF HasToken
<1> QED BY <1>9, <1>10

\* The last rehydration was one of a reply, with the vault that is there.
LastReply ==
    reply.made =>
        /\ reply.text \in Replies
        /\ reply.repaired = Repaired(reply.text, vault)
        /\ reply.clean = Clean(reply.repaired, vault)

\* As long as it is out, the vault does not change.
LEMMA ReplyInvariant == Spec => []LastReply
<1>1. Init => LastReply
    BY DEF Init, LastReply, NoReply
<1>2. EngineTyped /\ LastReply /\ [Next]_vars => LastReply'
    <2> SUFFICES ASSUME EngineTyped, LastReply, [Next]_vars PROVE LastReply'
        OBVIOUS
    <2>1. CASE UNCHANGED vars
        BY <2>1 DEF LastReply, vars
    <2>2. ASSUME Idle, NEW r \in Requests, Redact(r.m, r.q, r.pending, r.allow) PROVE LastReply'
        <3>1. ~reply.made /\ reply' = reply
            BY <2>2 DEF Idle, Redact
        <3> QED BY <3>1 DEF LastReply
    <2>3. ASSUME NEW text \in Replies, Rehydrate(text) PROVE LastReply'
        BY <2>3 DEF Rehydrate, LastReply
    <2>4. CASE Answer
        BY <2>4 DEF Answer, NoReply, LastReply
    <2> QED BY <2>1, <2>2, <2>3, <2>4 DEF Next
<1> QED BY <1>1, <1>2, TypedInvariant, PTL DEF Spec

\* RehydrationExact: replacing the tokens of the vault one after the other is replacing
\* all of them at once, none of them is left, and repairing makes up no token.
THEOREM RehydrationIsExact == Spec => []RehydrationExact
<1>1. EngineTyped /\ LastReply => RehydrationExact
    <2> SUFFICES ASSUME EngineTyped, LastReply, reply.made
                 PROVE  /\ reply.clean = AtOnce(reply.repaired, vault)
                        /\ \A u \in ToSet(reply.clean) : ~HasToken(vault, u)
                        /\ \A u \in ToSet(reply.repaired) : HasToken(vault, u) \/ u \in ToSet(reply.text)
        BY DEF RehydrationExact
    <2> DEFINE text == reply.text
               fixed == reply.repaired
    <2>1. /\ text \in Seq(Units) /\ vault \in Seq(Entry)
          /\ fixed = Repaired(text, vault) /\ reply.clean = Clean(fixed, vault)
        BY RepliesAssumption DEF EngineTyped, LastReply
    <2> HIDE DEF text, fixed
    <2>2. /\ fixed \in Seq(Pieces)
          /\ \A u \in ToSet(fixed) : HasToken(vault, u) \/ u \in ToSet(text)
        BY <2>1, RepairedFacts
    <2>3. Clean(fixed, vault) = AtOnce(fixed, vault)
        BY <2>1, <2>2, CleanIsAtOnce
    <2>4. \A u \in ToSet(AtOnce(fixed, vault)) : ~HasToken(vault, u)
        BY <2>1, <2>2, AtOnceFacts
    <2> QED BY <2>1, <2>2, <2>3, <2>4 DEF text, fixed
<1> QED BY <1>1, TypedInvariant, ReplyInvariant, PTL

--------------------------------------------------------------------------------
(* There and back.                                                             *)

\* The letters of the units of a text, unit by unit.
LettersOf(text) == [i \in 1 .. Len(text) |-> Letters(text[i].id)]

\* A text is read unit by unit.
LEMMA LettersFacts ==
    ASSUME NEW text \in Seq(Units)
    PROVE  LettersOf(text) \in [1 .. Len(text) -> Seq(STRING)] /\ Norm(text) = FlattenSeq(LettersOf(text))
<1>1. DOMAIN text = 1 .. Len(text) /\ \A i \in 1 .. Len(text) : text[i] \in Units
    OBVIOUS
<1>2. \A i \in 1 .. Len(text) : Letters(text[i].id) \in Seq(STRING)
    BY <1>1, WordFacts
<1> QED BY <1>1, <1>2 DEF LettersOf, Norm

\* One text behind another is read one behind the other.
LEMMA NormJoin ==
    ASSUME NEW a \in Seq(Units), NEW b \in Seq(Units)
    PROVE  Norm(Cat(a, b)) = Cat(Norm(a), Norm(b))
<1> DEFINE m == Len(a)
           n == Len(b)
           c == Cat(a, b)
           ss == LettersOf(a)
           tt == LettersOf(b)
           uu == LettersOf(c)
<1>1. /\ c \in Seq(Units) /\ Len(c) = m + n /\ m \in Nat /\ n \in Nat
      /\ \A i \in 1 .. m : c[i] = a[i]
    BY ConcatProperties DEF Cat
<1>2. \A i \in 1 .. n : c[m + i] = b[i]
    <2> TAKE i \in 1 .. n
    <2>1. m + i \in 1 .. m + n /\ ~(m + i <= m) /\ (m + i) - m = i
        BY <1>1
    <2> QED BY <2>1, ConcatProperties DEF Cat
<1>3. Joins(uu, ss, tt, m, n)
    <2>1. \A i \in 1 .. m : uu[i] = ss[i]
        BY <1>1 DEF LettersOf
    <2>2. \A i \in 1 .. n : uu[m + i] = tt[i]
        <3> TAKE i \in 1 .. n
        <3>1. m + i \in 1 .. Len(c)
            BY <1>1
        <3>2. uu[m + i] = Letters(c[m + i].id) /\ tt[i] = Letters(b[i].id)
            BY <3>1 DEF LettersOf
        <3> QED BY <1>2, <3>2
    <2> HIDE DEF uu, ss, tt
    <2> QED BY <2>1, <2>2 DEF Joins
<1> HIDE DEF c, m, n, ss, tt, uu
<1>4. ss \in [1 .. m -> Seq(STRING)] /\ Norm(a) = FlattenSeq(ss)
    BY LettersFacts DEF m, ss
<1>5. tt \in [1 .. n -> Seq(STRING)] /\ Norm(b) = FlattenSeq(tt)
    BY LettersFacts DEF n, tt
<1>6. uu \in [1 .. Len(c) -> Seq(STRING)] /\ Norm(c) = FlattenSeq(uu)
    BY <1>1, LettersFacts DEF uu
<1>7. Joined(uu, ss, tt, m, n, STRING)
    <2>1. uu \in [1 .. m + n -> Seq(STRING)]
        BY <1>1, <1>6
    <2> QED BY <1>1, <1>3, <1>4, <1>5, <2>1 DEF Joined
<1>8. FlattenSeq(uu) = Cat(FlattenSeq(ss), FlattenSeq(tt))
    BY <1>7, FlatJoin
<1> QED BY <1>4, <1>5, <1>6, <1>8 DEF c

\* The lists tt are the texts ss, read.
ReadEach(tt, ss, n) == \A i \in 1 .. n : tt[i] = Norm(ss[i])

\* A text made of several is read one after the other.
LEMMA NormFlat ==
    ASSUME NEW n \in Nat, NEW ss \in [1 .. n -> Seq(Units)], NEW tt \in [1 .. n -> Seq(STRING)],
           ReadEach(tt, ss, n)
    PROVE  Norm(FlattenSeq(ss)) = FlattenSeq(tt)
<1>1. PICK f \in [0 .. n -> Seq(Units)] : Flattens(f, n, ss) /\ f[n] = FlattenSeq(ss)
    BY FlatSteps
<1> DEFINE h == [k \in 0 .. n |-> Norm(f[k])]
<1>2. h[0] = <<>>
    <2>1. f[0] = <<>>
        BY <1>1 DEF Flattens
    <2>2. Norm(<<>>) = <<>>
        BY DEF Norm, FlattenSeq
    <2> QED BY <2>1, <2>2
<1>3. ASSUME NEW k \in 1 .. n PROVE h[k] = Cat(h[k - 1], tt[k])
    <2>1. k - 1 \in 0 .. n /\ k \in 0 .. n
        OBVIOUS
    <2> DEFINE a == f[k - 1]  b == ss[k]
    <2>2. a \in Seq(Units) /\ b \in Seq(Units) /\ f[k] = Cat(a, b)
        BY <1>1, <2>1 DEF Flattens
    <2>3. h[k] = Norm(f[k]) /\ h[k - 1] = Norm(a) /\ tt[k] = Norm(b)
        BY <2>1 DEF ReadEach
    <2> HIDE DEF a, b, h
    <2>4. Norm(Cat(a, b)) = Cat(Norm(a), Norm(b))
        BY <2>2, NormJoin
    <2> QED BY <2>2, <2>3, <2>4
<1>4. h[n] = Norm(FlattenSeq(ss))
    BY <1>1
<1> HIDE DEF h
<1>5. Flattens(h, n, tt)
    BY <1>2, <1>3 DEF Flattens
<1>6. h[n] = FlattenSeq(tt)
    BY <1>5, FlatUnique
<1> QED BY <1>4, <1>6

\* What may stand in a redacted text of words: words, and tokens of the vault.
Outs(v) == Words \cup {TokenAt(v, i) : i \in 1 .. Len(v)}

\* How a piece of it reads with the vault v, and how all of it does.
ReadBy(v, x) == Norm(Form(v, 1 .. Len(v), x))
ReadPieces(v, out) == [i \in 1 .. Len(out) |-> ReadBy(v, out[i])]
Reading(v, out) == FlattenSeq(ReadPieces(v, out))

\* A word reads as it is, and a token as the value it stands for.
LEMMA ReadByFacts ==
    ASSUME NEW v \in Seq(Entry), NEW x \in Outs(v)
    PROVE  /\ x \in Pieces /\ Form(v, 1 .. Len(v), x) \in Seq(Units) /\ ReadBy(v, x) \in Seq(STRING)
           /\ x \in Words => Form(v, 1 .. Len(v), x) = <<x>>
           /\ \A i \in 1 .. Len(v) : TokenAt(v, i) = x =>
                 /\ Form(v, 1 .. Len(v), x) = v[i].value
                 /\ x.is = "token" /\ x.id = v[i].key /\ x \notin Words
<1> DEFINE D == 1 .. Len(v)
           w == Form(v, D, x)
<1>1. x \in Pieces
    BY TokenAtFacts DEF Outs, Pieces, Words
<1>2. D \in SUBSET (1 .. Len(v))
    OBVIOUS
<1>3. /\ \A d \in D : TokenAt(v, d) = x => w = v[d].value
      /\ (\A d \in D : TokenAt(v, d) # x) => w = <<x>>
    <2> HIDE DEF D
    <2> QED BY <1>1, <1>2, FormFacts
<1>4. \A i \in D : TokenAt(v, i).is = "token" /\ TokenAt(v, i).id = v[i].key /\ TokenAt(v, i) \notin Words
    <2> TAKE i \in D
    <2>1. TokenAt(v, i).is = "token" /\ TokenAt(v, i).id = v[i].key
        BY DEF TokenAt, Token, Unit
    <2> QED BY <2>1, WordFacts
<1>5. CASE x \in Words
    <2>1. \A d \in D : TokenAt(v, d) # x
        BY <1>4, <1>5
    <2>2. w = <<x>>
        BY <1>3, <2>1
    <2>3. w \in Seq(Units)
        <3>1. x \in Units
            BY <1>5, WordFacts
        <3> HIDE DEF w
        <3> QED BY <2>2, <3>1
    <2> HIDE DEF w, D
    <2>4. Norm(w) \in Seq(STRING)
        BY <2>3, NormFacts
    <2> QED BY <1>1, <1>5, <2>1, <2>2, <2>3, <2>4 DEF w, D, ReadBy
<1>6. CASE x \notin Words
    <2>1. PICK d \in D : TokenAt(v, d) = x
        BY <1>6 DEF Outs
    <2>2. w = v[d].value
        BY <1>3, <2>1
    <2>3. v[d] \in Entry
        OBVIOUS
    <2>4. w \in Seq(Units)
        BY <2>2, <2>3, EntryFacts
    <2> HIDE DEF w, D
    <2>5. Norm(w) \in Seq(STRING)
        BY <2>4, NormFacts
    <2> QED BY <1>1, <1>3, <1>4, <1>6, <2>4, <2>5 DEF w, D, ReadBy
<1> QED BY <1>5, <1>6

\* The pieces are read as lists of letters.
LEMMA ReadPiecesFacts ==
    ASSUME NEW v \in Seq(Entry), NEW out \in Seq(Outs(v))
    PROVE  /\ ReadPieces(v, out) \in [1 .. Len(out) -> Seq(STRING)]
           /\ Reading(v, out) \in Seq(STRING)
<1> DEFINE ss == ReadPieces(v, out)
           n == Len(out)
<1>1. \A i \in 1 .. n : out[i] \in Outs(v)
    OBVIOUS
<1>2. \A i \in 1 .. n : ReadBy(v, out[i]) \in Seq(STRING)
    BY <1>1, ReadByFacts
<1>3. ss \in [1 .. n -> Seq(STRING)]
    BY <1>2 DEF ReadPieces
<1>4. n \in Nat
    OBVIOUS
<1> HIDE DEF ss, n
<1>5. FlattenSeq(ss) \in Seq(STRING)
    BY <1>3, <1>4, FlatMembers
<1> QED BY <1>3, <1>5 DEF ss, n, Reading

\* One redacted text behind another is read one behind the other.
LEMMA ReadingJoin ==
    ASSUME NEW v \in Seq(Entry), NEW a \in Seq(Outs(v)), NEW b \in Seq(Outs(v))
    PROVE  Reading(v, Cat(a, b)) = Cat(Reading(v, a), Reading(v, b)) /\ Cat(a, b) \in Seq(Outs(v))
<1> DEFINE m == Len(a)
           n == Len(b)
           c == Cat(a, b)
           ss == ReadPieces(v, a)
           tt == ReadPieces(v, b)
           uu == ReadPieces(v, c)
<1>1. /\ c \in Seq(Outs(v)) /\ Len(c) = m + n /\ m \in Nat /\ n \in Nat
      /\ \A i \in 1 .. m : c[i] = a[i]
    BY ConcatProperties DEF Cat
<1>2. \A i \in 1 .. n : c[m + i] = b[i]
    <2> TAKE i \in 1 .. n
    <2>1. m + i \in 1 .. m + n /\ ~(m + i <= m) /\ (m + i) - m = i
        BY <1>1
    <2> QED BY <2>1, ConcatProperties DEF Cat
<1>3. Joins(uu, ss, tt, m, n)
    <2>1. \A i \in 1 .. m : uu[i] = ss[i]
        BY <1>1 DEF ReadPieces
    <2>2. \A i \in 1 .. n : uu[m + i] = tt[i]
        <3> TAKE i \in 1 .. n
        <3>1. m + i \in 1 .. Len(c)
            BY <1>1
        <3>2. uu[m + i] = ReadBy(v, c[m + i]) /\ tt[i] = ReadBy(v, b[i])
            BY <3>1 DEF ReadPieces
        <3> QED BY <1>2, <3>2
    <2> HIDE DEF uu, ss, tt
    <2> QED BY <2>1, <2>2 DEF Joins
<1> HIDE DEF c, m, n, ss, tt, uu
<1>4. ss \in [1 .. m -> Seq(STRING)]
    BY ReadPiecesFacts DEF m, ss
<1>5. tt \in [1 .. n -> Seq(STRING)]
    BY ReadPiecesFacts DEF n, tt
<1>6. uu \in [1 .. Len(c) -> Seq(STRING)]
    BY <1>1, ReadPiecesFacts DEF uu
<1>7. Joined(uu, ss, tt, m, n, STRING)
    <2>1. uu \in [1 .. m + n -> Seq(STRING)]
        BY <1>1, <1>6
    <2> QED BY <1>1, <1>3, <1>4, <1>5, <2>1 DEF Joined
<1>8. FlattenSeq(uu) = Cat(FlattenSeq(ss), FlattenSeq(tt))
    BY <1>7, FlatJoin
<1> QED BY <1>1, <1>8 DEF c, ss, tt, uu, Reading

\* A list of one list is that list.
LEMMA FlatOne ==
    ASSUME NEW S, NEW w \in Seq(S), NEW ss, ss = <<w>>
    PROVE  FlattenSeq(ss) = w
<1> DEFINE one == 1
<1>1. one \in Nat /\ ss \in [1 .. one -> Seq(S)] /\ ss[1] = w
    OBVIOUS
<1> HIDE DEF one
<1>2. PICK f \in [0 .. one -> Seq(S)] : Flattens(f, one, ss) /\ f[one] = FlattenSeq(ss)
    BY <1>1, FlatSteps
<1>3. f[0] = <<>> /\ f[1] = Cat(f[0], ss[1])
    <2>1. 1 \in 1 .. one /\ 1 - 1 = 0
        BY DEF one
    <2>2. f[1] = Cat(f[1 - 1], ss[1]) /\ f[0] = <<>>
        BY <1>2, <2>1 DEF Flattens
    <2> QED BY <2>1, <2>2
<1>4. Cat(<<>>, w) = w
    BY CatFacts
<1> QED BY <1>1, <1>2, <1>3, <1>4 DEF one

\* Words are read as they are.
LEMMA ReadingWords ==
    ASSUME NEW v \in Seq(Entry), NEW w \in Seq(Words)
    PROVE  w \in Seq(Outs(v)) /\ Reading(v, w) = Norm(w)
<1> DEFINE n == Len(w)
<1>1. n \in Nat /\ \A i \in 1 .. n : w[i] \in Words /\ w[i] \in Outs(v)
    BY DEF Outs
<1>2. w \in Seq(Outs(v))
    <2>1. Words \subseteq Outs(v)
        BY DEF Outs
    <2> QED BY <2>1
<1>3. \A i \in 1 .. n : ReadBy(v, w[i]) = Letters(w[i].id)
    <2> TAKE i \in 1 .. n
    <2> DEFINE x == w[i]
    <2>1. x \in Words /\ x \in Outs(v) /\ Letters(x.id) \in Seq(STRING)
        BY <1>1, WordFacts
    <2> HIDE DEF x
    <2>2. ReadBy(v, x) = Norm(<<x>>)
        BY <2>1, ReadByFacts DEF ReadBy
    <2>3. Norm(<<x>>) = FlattenSeq(<<Letters(x.id)>>)
        BY DEF Norm
    <2> DEFINE l == Letters(x.id)
    <2> HIDE DEF l
    <2>4. FlattenSeq(<<l>>) = l
        BY <2>1, FlatOne DEF l
    <2> QED BY <2>2, <2>3, <2>4 DEF x, l
<1>4. ReadPieces(v, w) = LettersOf(w)
    BY <1>3 DEF ReadPieces, LettersOf
<1>5. w \in Seq(Units)
    BY WordFacts
<1>6. Norm(w) = FlattenSeq(LettersOf(w))
    BY <1>5, LettersFacts
<1> QED BY <1>2, <1>4, <1>6 DEF Reading

\* Given back, a redacted text of words reads as its pieces do.
LEMMA ReadingBack ==
    ASSUME NEW v \in Seq(Entry), NEW out \in Seq(Outs(v))
    PROVE  Norm(Clean(Repaired(out, v), v)) = Reading(v, out)
<1> DEFINE n == Len(out)
           m == Len(v)
           ss == Formed(out, v, 1 .. m)
           tt == ReadPieces(v, out)
<1>1. n \in Nat /\ DOMAIN out = 1 .. n /\ DOMAIN v = 1 .. m /\ \A i \in 1 .. n : out[i] \in Outs(v)
    OBVIOUS
<1>2. out \in Seq(Pieces)
    <2>1. \A x \in Outs(v) : x \in Pieces
        BY ReadByFacts
    <2> QED BY <2>1
<1>3. Repaired(out, v) = out
    <2>1. \A x \in Outs(v) : x.is = "word" \/ x.is = "token"
        BY WordFacts DEF Outs, TokenAt, Token, Unit
    <2>2. \A x \in Outs(v) : RepairOne(x, v) = <<x>>
        <3> TAKE x \in Outs(v)
        <3>1. x.is # "joined" /\ x.is # "bare"
            BY <2>1
        <3> QED BY <3>1 DEF RepairOne
    <2>3. [i \in DOMAIN out |-> RepairOne(out[i], v)] = Singles(out)
        BY <1>1, <2>2 DEF Singles
    <2>4. FlattenSeq(Singles(out)) = out
        BY <1>2, SinglesFlat
    <2> QED BY <2>3, <2>4 DEF Repaired
<1>4. Clean(out, v) = AtOnce(out, v)
    BY <1>2, CleanIsAtOnce
<1>5. AtOnce(out, v) = FlattenSeq(ss)
    BY <1>1 DEF AtOnce, Formed, Form, HasToken
<1>6. \A i \in 1 .. n : ss[i] \in Seq(Units) /\ tt[i] = Norm(ss[i])
    <2>1. \A i \in 1 .. n : Form(v, 1 .. m, out[i]) \in Seq(Units)
        BY <1>1, ReadByFacts
    <2> QED BY <2>1 DEF Formed, ReadPieces, ReadBy
<1>7. ss \in [1 .. n -> Seq(Units)]
    <2>1. DOMAIN ss = 1 .. n /\ ss = [i \in 1 .. n |-> ss[i]]
        BY DEF Formed
    <2> HIDE DEF ss, n
    <2> QED BY <1>6, <2>1
<1>8. tt \in [1 .. n -> Seq(STRING)]
    BY ReadPiecesFacts
<1> HIDE DEF n, ss, tt
<1>9. ReadEach(tt, ss, n)
    BY <1>6 DEF ReadEach
<1>10. Norm(FlattenSeq(ss)) = FlattenSeq(tt)
    BY <1>1, <1>7, <1>8, <1>9, NormFlat
<1> QED BY <1>3, <1>4, <1>5, <1>10 DEF tt, Reading

\* w is v with more entries at its end and other values for some of the keys K.
Grows(v, w, K) ==
    /\ w \in Seq(Entry)
    /\ Len(v) <= Len(w)
    /\ \A i \in 1 .. Len(v) : w[i].key = v[i].key /\ (w[i].key \in K \/ w[i].value = v[i].value)

\* Nothing grown, and one growth after another.
LEMMA GrowsNot ==
    ASSUME NEW v \in Seq(Entry), NEW K
    PROVE  Grows(v, v, K)
<1>1. Len(v) \in Nat
    OBVIOUS
<1> QED BY <1>1 DEF Grows

\* Growths add up.
LEMMA GrowsOn ==
    ASSUME NEW u \in Seq(Entry), NEW v, NEW w, NEW K, NEW L, NEW M,
           Grows(u, v, K), Grows(v, w, L), K \subseteq M, L \subseteq M
    PROVE  Grows(u, w, M)
<1>1. /\ v \in Seq(Entry) /\ w \in Seq(Entry) /\ Len(u) <= Len(v) /\ Len(v) <= Len(w)
      /\ \A i \in 1 .. Len(u) : v[i].key = u[i].key /\ (v[i].key \in K \/ v[i].value = u[i].value)
      /\ \A i \in 1 .. Len(v) : w[i].key = v[i].key /\ (w[i].key \in L \/ w[i].value = v[i].value)
    BY DEF Grows
<1>2. Len(u) \in Nat /\ Len(v) \in Nat /\ Len(w) \in Nat
    BY <1>1
<1>3. ASSUME NEW i \in 1 .. Len(u) PROVE w[i].key = u[i].key /\ (w[i].key \in M \/ w[i].value = u[i].value)
    <2>1. i \in 1 .. Len(v)
        BY <1>1, <1>2
    <2> QED BY <1>1, <2>1
<1> QED BY <1>1, <1>2, <1>3 DEF Grows

\* Keys stay, so tokens do, and a piece with none of the keys K reads as before.
LEMMA GrowsReading ==
    ASSUME NEW v \in Seq(Entry), NEW w, NEW K, Grows(v, w, K)
    PROVE  /\ Outs(v) \subseteq Outs(w)
           /\ \A x \in Outs(v) : x \in Words \/ x.id \notin K => ReadBy(w, x) = ReadBy(v, x)
<1>1. /\ w \in Seq(Entry) /\ Len(v) \in Nat /\ Len(w) \in Nat /\ Len(v) <= Len(w)
      /\ \A i \in 1 .. Len(v) :
            i \in 1 .. Len(w) /\ w[i].key = v[i].key /\ (w[i].key \in K \/ w[i].value = v[i].value)
    BY DEF Grows
<1>2. ASSUME NEW i \in 1 .. Len(v) PROVE TokenAt(w, i) = TokenAt(v, i)
    <2>1. \A j \in 1 .. i : j \in 1 .. Len(v)
        BY <1>1
    <2>2. {j \in 1 .. i : w[j].key = w[i].key} = {j \in 1 .. i : v[j].key = v[i].key}
        BY <1>1, <2>1
    <2> QED BY <1>1, <2>2 DEF TokenAt, Number
<1>3. Outs(v) \subseteq Outs(w)
    BY <1>1, <1>2 DEF Outs
<1>4. ASSUME NEW x \in Outs(v), x \in Words \/ x.id \notin K PROVE ReadBy(w, x) = ReadBy(v, x)
    <2>1. x \in Outs(w)
        BY <1>3
    <2>2. CASE x \in Words
        BY <1>1, <2>1, <2>2, ReadByFacts DEF ReadBy
    <2>3. CASE x \notin Words
        <3>1. PICK i \in 1 .. Len(v) : TokenAt(v, i) = x
            BY <2>3 DEF Outs
        <3>2. i \in 1 .. Len(w) /\ TokenAt(w, i) = x
            BY <1>1, <1>2, <3>1
        <3>3. Form(v, 1 .. Len(v), x) = v[i].value /\ x.id = v[i].key
            BY <3>1, ReadByFacts
        <3>4. Form(w, 1 .. Len(w), x) = w[i].value
            BY <1>1, <2>1, <3>2, ReadByFacts
        <3>5. w[i].value = v[i].value
            BY <1>1, <1>4, <2>3, <3>3
        <3> QED BY <3>3, <3>4, <3>5 DEF ReadBy
    <2> QED BY <2>2, <2>3
<1> QED BY <1>3, <1>4

\* So does a redacted text.
LEMMA ReadingStays ==
    ASSUME NEW v \in Seq(Entry), NEW w, NEW K, Grows(v, w, K), NEW out \in Seq(Outs(v)),
           \A x \in ToSet(out) : x \in Words \/ x.id \notin K
    PROVE  out \in Seq(Outs(w)) /\ Reading(w, out) = Reading(v, out)
<1>1. Outs(v) \subseteq Outs(w) /\ \A x \in Outs(v) : x \in Words \/ x.id \notin K => ReadBy(w, x) = ReadBy(v, x)
    BY GrowsReading
<1>2. \A i \in 1 .. Len(out) : out[i] \in Outs(v) /\ out[i] \in ToSet(out)
    BY DEF ToSet
<1>3. \A i \in 1 .. Len(out) : ReadBy(w, out[i]) = ReadBy(v, out[i])
    BY <1>1, <1>2
<1>4. ReadPieces(w, out) = ReadPieces(v, out)
    BY <1>3 DEF ReadPieces
<1>5. out \in Seq(Outs(w))
    BY <1>1
<1> QED BY <1>4, <1>5 DEF Reading

\* The keys whose values a registration may replace.
TakenOver(K, latest) == IF latest THEN K ELSE {}

\* What is registered leaves the other values, and is found where it says, up to spelling.
Stands(v, reg, key, value, latest) ==
    /\ Grows(v, reg.v, TakenOver({key}, latest))
    /\ reg.at \in 1 .. Len(reg.v)
    /\ reg.v[reg.at].key = key /\ Norm(reg.v[reg.at].value) = Norm(value)

\* Values that are the same once normalized have the same letters.
LEMMA NormalNorm ==
    ASSUME NEW key, NEW a \in Seq(Units), NEW b \in Seq(Units), Normal(key, a) = Normal(key, b)
    PROVE  Norm(a) = Norm(b)
<1>1. CASE key # "em"
    BY <1>1 DEF Normal
<1>2. CASE key = "em"
    <2> DEFINE sa == Spelled(a)
               sb == Spelled(b)
    <2>1. sa = sb
        BY <1>2 DEF Normal
    <2>2. DOMAIN sa = DOMAIN a /\ DOMAIN sb = DOMAIN b
        BY DEF Spelled
    <2>3. \A i \in DOMAIN a : sa[i] = Written(a[i].id)
        BY DEF Spelled
    <2>4. \A i \in DOMAIN b : sb[i] = Written(b[i].id)
        BY DEF Spelled
    <2> HIDE DEF sa, sb
    <2>5. DOMAIN a = DOMAIN b /\ \A i \in DOMAIN a : Written(a[i].id) = Written(b[i].id)
        BY <2>1, <2>2, <2>3, <2>4
    <2>6. \A i \in DOMAIN a : Letters(a[i].id) = Letters(b[i].id)
        BY <2>5 DEF Letters
    <2>7. [i \in DOMAIN a |-> Letters(a[i].id)] = [i \in DOMAIN b |-> Letters(b[i].id)]
        BY <2>5, <2>6
    <2> QED BY <2>7 DEF Norm
<1> QED BY <1>1, <1>2

\* Registering a value does.
LEMMA RegisteredReads ==
    ASSUME NEW v \in Seq(Entry), NEW key \in EntityKeys, NEW value \in Seq(Words) \ {<<>>},
           NEW latest \in BOOLEAN, NEW reg, reg = Registered(v, key, value, latest)
    PROVE  Stands(v, reg, key, value, latest)
<1>1. Len(v) \in Nat /\ DOMAIN v = 1 .. Len(v) /\ \A i \in 1 .. Len(v) : v[i] \in Entry
    OBVIOUS
<1>2. CASE Known(v, key, value) # {}
    <2>1. reg = [v |-> v, at |-> CHOOSE i \in Known(v, key, value) : TRUE]
        BY <1>2 DEF Registered
    <2>2. reg.v = v /\ reg.at \in Known(v, key, value)
        BY <1>2, <2>1
    <2> DEFINE at == reg.at
               old == v[at].value
    <2>3. at \in 1 .. Len(v) /\ v[at].key = key /\ Normal(key, old) = Normal(key, value)
        BY <1>1, <2>2 DEF Known, OfKey
    <2>4. old \in Seq(Units) /\ value \in Seq(Units)
        <3>1. v[at] \in Entry
            BY <1>1, <2>3
        <3>2. old \in Seq(Words)
            BY <3>1, EntryFacts
        <3> HIDE DEF old
        <3> QED BY <3>2, WordFacts
    <2>5. Norm(old) = Norm(value)
        <3> HIDE DEF old
        <3> QED BY <2>3, <2>4, NormalNorm
    <2> QED BY <2>2, <2>3, <2>5, GrowsNot DEF Stands
<1>3. CASE Known(v, key, value) = {} /\ latest /\ OfKey(v, key) # {}
    <2> DEFINE l == Latest(v, key)
               w == [v EXCEPT ![l].value = value]
    <2>1. reg = [v |-> w, at |-> l]
        BY <1>3 DEF Registered
    <2>2. l \in 1 .. Len(v) /\ v[l].key = key
        BY <1>1, <1>3, LatestFacts DEF OfKey
    <2>3. reg.v \in Seq(Entry)
        BY RegisteredFacts DEF Teaches
    <2> HIDE DEF l
    <2>4. Len(w) = Len(v) /\ w[l].value = value /\ w[l].key = key
          /\ \A i \in 1 .. Len(v) : i # l => w[i] = v[i]
        BY <1>1, <2>2, EntryFacts DEF Entry
    <2>5. reg.v = w /\ reg.at = l
        BY <2>1
    <2>6. TakenOver({key}, latest) = {key}
        BY <1>3 DEF TakenOver
    <2> HIDE DEF w
    <2>7. Grows(v, w, {key})
        BY <1>1, <2>2, <2>3, <2>4, <2>5 DEF Grows
    <2> QED BY <2>2, <2>4, <2>5, <2>6, <2>7 DEF Stands
<1>4. CASE Known(v, key, value) = {} /\ ~(latest /\ OfKey(v, key) # {})
    <2> DEFINE e == [key |-> key, value |-> value]
               w == Append(v, e)
    <2>1. reg = [v |-> w, at |-> Len(v) + 1]
        BY <1>4 DEF Registered
    <2>2. e \in Entry /\ e.key = key /\ e.value = value
        BY DEF Entry
    <2> HIDE DEF e
    <2>3. /\ w \in Seq(Entry) /\ Len(w) = Len(v) + 1
          /\ \A i \in 1 .. Len(v) : w[i] = v[i]
          /\ w[Len(v) + 1] = e
        BY <1>1, <2>2, AppendProperties
    <2>4. reg.v = w /\ reg.at = Len(v) + 1
        BY <2>1
    <2> HIDE DEF w
    <2>5. Grows(v, w, TakenOver({key}, latest))
        BY <1>1, <2>3 DEF Grows
    <2>6. reg.at \in 1 .. Len(w)
        BY <1>1, <2>3, <2>4
    <2> QED BY <2>2, <2>3, <2>4, <2>5, <2>6 DEF Stands
<1> QED BY <1>2, <1>3, <1>4

\* The parts have keys of their own.
Distinct(parts) == \A i, j \in DOMAIN parts : i < j => parts[i].key # parts[j].key
KeysTo(parts, k) == {parts[i].key : i \in 1 .. k}

\* The first k parts are registered: the values of other keys stay, and each part has
\* put out a token of its key that reads as it does.
Registers(v, r, parts, k, latest) ==
    /\ r.v \in Seq(Entry) /\ r.out \in Seq(Outs(r.v)) /\ Len(r.out) = k
    /\ Grows(v, r.v, TakenOver(KeysTo(parts, k), latest))
    /\ \A i \in 1 .. k : /\ r.out[i].id = parts[i].key
                         /\ ReadBy(r.v, r.out[i]) = Norm(parts[i].value)

\* One more.
LEMMA RegistersNext ==
    ASSUME NEW v \in Seq(Entry), NEW parts \in Seq(PartsOf(EntityKeys)), Distinct(parts),
           NEW latest \in BOOLEAN, NEW k \in 1 .. Len(parts), NEW r, Registers(v, r, parts, k - 1, latest)
    PROVE  Registers(v, AddPart(r, parts[k], latest), parts, k, latest)
<1> DEFINE p == parts[k]
           reg == Registered(r.v, p.key, p.value, latest)
           t == TokenAt(reg.v, reg.at)
           L == TakenOver({p.key}, latest)
           M == TakenOver(KeysTo(parts, k), latest)
<1>1. /\ r.v \in Seq(Entry) /\ r.out \in Seq(Outs(r.v)) /\ Len(r.out) = k - 1
      /\ Grows(v, r.v, TakenOver(KeysTo(parts, k - 1), latest))
      /\ \A i \in 1 .. k - 1 : r.out[i].id = parts[i].key /\ ReadBy(r.v, r.out[i]) = Norm(parts[i].value)
    BY DEF Registers
<1>2. p \in PartsOf(EntityKeys) /\ Len(parts) \in Nat /\ DOMAIN parts = 1 .. Len(parts)
    OBVIOUS
<1>3. p.key \in EntityKeys /\ p.value \in Seq(Words) \ {<<>>}
    BY <1>2 DEF PartsOf
<1> HIDE DEF reg
<1>4. /\ Grows(r.v, reg.v, L)
      /\ reg.at \in 1 .. Len(reg.v)
      /\ reg.v[reg.at].key = p.key /\ Norm(reg.v[reg.at].value) = Norm(p.value)
    <2> DEFINE key == p.key
               value == p.value
    <2>1. reg = Registered(r.v, key, value, latest) /\ r.v \in Seq(Entry)
        BY <1>1 DEF reg
    <2>2. key \in EntityKeys /\ value \in Seq(Words) \ {<<>>}
        BY <1>3
    <2> HIDE DEF key, value
    <2>3. Stands(r.v, reg, key, value, latest)
        BY <2>1, <2>2, RegisteredReads
    <2> QED BY <2>3 DEF Stands, key, value
<1>5. reg.v \in Seq(Entry)
    BY <1>4 DEF Grows
<1>6. t \in Outs(reg.v)
    BY <1>4 DEF Outs
<1>7. t.id = p.key /\ ReadBy(reg.v, t) = Norm(p.value)
    <2>1. Form(reg.v, 1 .. Len(reg.v), t) = reg.v[reg.at].value /\ t.id = reg.v[reg.at].key
        BY <1>4, <1>5, <1>6, ReadByFacts
    <2> QED BY <1>4, <2>1 DEF ReadBy
<1>8. /\ Outs(r.v) \subseteq Outs(reg.v)
      /\ \A x \in Outs(r.v) : x \in Words \/ x.id \notin L => ReadBy(reg.v, x) = ReadBy(r.v, x)
    BY <1>1, <1>4, GrowsReading
<1>9. Grows(v, reg.v, M)
    <2>1. TakenOver(KeysTo(parts, k - 1), latest) \subseteq M /\ L \subseteq M
        BY <1>2 DEF TakenOver, KeysTo
    <2> HIDE DEF L, M
    <2> QED BY <1>1, <1>4, <2>1, GrowsOn
<1> DEFINE b == AddPart(r, p, latest)
           out == Append(r.out, t)
<1>10. b.v = reg.v /\ b.out = out
    BY DEF AddPart, reg
<1> HIDE DEF b, t
<1>11. /\ out \in Seq(Outs(reg.v)) /\ Len(out) = k
       /\ \A i \in 1 .. k - 1 : out[i] = r.out[i]
       /\ out[k] = t
    <2>1. r.out \in Seq(Outs(reg.v))
        BY <1>1, <1>8
    <2>2. k - 1 + 1 = k
        BY <1>2
    <2> QED BY <1>1, <1>6, <2>1, <2>2, AppendProperties
<1> HIDE DEF out, L, M
<1>12. ASSUME NEW i \in 1 .. k
       PROVE  out[i].id = parts[i].key /\ ReadBy(reg.v, out[i]) = Norm(parts[i].value)
    <2>1. CASE i = k
        BY <1>7, <1>11, <2>1
    <2>2. CASE i # k
        <3>1. i \in 1 .. k - 1 /\ i \in 1 .. Len(parts) /\ i < k
            BY <1>2, <2>2
        <3>2. out[i] = r.out[i] /\ r.out[i].id = parts[i].key /\ ReadBy(r.v, r.out[i]) = Norm(parts[i].value)
            BY <1>1, <1>11, <3>1
        <3>3. parts[i].key # p.key
            BY <1>2, <3>1 DEF Distinct
        <3>4. r.out[i].id \notin L
            BY <3>2, <3>3 DEF L, TakenOver
        <3>5. r.out[i] \in Outs(r.v)
            BY <1>1, <3>1
        <3> QED BY <1>8, <3>2, <3>4, <3>5
    <2> QED BY <2>1, <2>2
<1>13. Registers(v, b, parts, k, latest)
    BY <1>5, <1>9, <1>10, <1>11, <1>12 DEF Registers, M
<1> QED BY <1>13 DEF b

\* All of them.
LEMMA RegisterReads ==
    ASSUME NEW v \in Seq(Entry), NEW parts \in Seq(PartsOf(EntityKeys)), Distinct(parts),
           NEW latest \in BOOLEAN, NEW n, n = Len(parts)
    PROVE  Registers(v, Register([v |-> v, out |-> <<>>], parts, latest), parts, n, latest)
<1> DEFINE start == [v |-> v, out |-> <<>>]
<1>1. n \in Nat
    OBVIOUS
<1>2. start \in Progress
    BY DEF Progress
<1>3. start.v = v /\ start.out = <<>>
    OBVIOUS
<1> HIDE DEF start
<1>4. PICK st \in [0 .. n -> Progress] : RegistersAll(st, start, parts, latest, n)
    BY <1>2, RegisterSteps
<1> DEFINE G == {k \in 0 .. n : Registers(v, st[k], parts, k, latest)}
<1>5. 0 \in G
    <2>1. st[0] = start
        BY <1>4 DEF RegistersAll
    <2>2. Grows(v, v, TakenOver(KeysTo(parts, 0), latest))
        BY GrowsNot
    <2>3. Registers(v, start, parts, 0, latest)
        BY <1>3, <2>2 DEF Registers
    <2> QED BY <1>1, <2>1, <2>3
<1>6. ASSUME NEW k \in 1 .. n, k - 1 \in G PROVE k \in G
    <2>1. k \in 0 .. n /\ k \in 1 .. Len(parts)
        BY <1>1
    <2> DEFINE a == st[k - 1]
    <2>2. Registers(v, a, parts, k - 1, latest) /\ st[k] = AddPart(a, parts[k], latest)
        BY <1>4, <1>6 DEF RegistersAll
    <2> HIDE DEF a
    <2>3. Registers(v, AddPart(a, parts[k], latest), parts, k, latest)
        BY <2>1, <2>2, RegistersNext
    <2> QED BY <2>1, <2>2, <2>3
<1>7. n \in G
    <2>1. n \in 0 .. n
        BY <1>1
    <2> HIDE DEF G
    <2> QED BY <1>1, <1>5, <1>6, <2>1, StepByStep
<1>8. st[n] = Register(start, parts, latest)
    BY <1>4 DEF RegistersAll
<1> QED BY <1>7, <1>8 DEF start

\* The first words of a text, and the next of them.
LEMMA SubSeqJoin ==
    ASSUME NEW S, NEW s \in Seq(S), NEW i \in 0 .. Len(s), NEW j \in i .. Len(s)
    PROVE  SubSeq(s, 1, j) = Cat(SubSeq(s, 1, i), SubSeq(s, i + 1, j))
<1> DEFINE a == SubSeq(s, 1, i)
           b == SubSeq(s, i + 1, j)
           c == Cat(a, b)
           d == SubSeq(s, 1, j)
<1>1. Len(s) \in Nat /\ i \in Nat /\ j \in Nat /\ i <= j /\ j <= Len(s)
    OBVIOUS
<1>2. /\ a \in Seq(S) /\ Len(a) = i
      /\ \A k \in 1 .. i : a[k] = s[k]
    BY <1>1
<1>3. /\ b \in Seq(S) /\ Len(b) = j - i
      /\ \A k \in 1 .. j - i : b[k] = s[i + k]
    BY <1>1
<1>4. /\ d \in Seq(S) /\ Len(d) = j
      /\ \A k \in 1 .. j : d[k] = s[k]
    BY <1>1
<1> HIDE DEF a, b, d
<1>5. /\ c \in Seq(S) /\ Len(c) = j
      /\ \A k \in 1 .. i : c[k] = a[k]
      /\ \A k \in 1 .. j : k > i => c[k] = b[k - i]
    BY <1>1, <1>2, <1>3, ConcatProperties DEF Cat
<1> HIDE DEF c
<1>6. \A k \in 1 .. j : c[k] = d[k]
    <2> TAKE k \in 1 .. j
    <2>1. CASE k <= i
        BY <1>1, <1>2, <1>4, <1>5, <2>1
    <2>2. CASE k > i
        <3>1. k - i \in 1 .. j - i /\ i + (k - i) = k
            BY <1>1, <2>2
        <3> QED BY <1>3, <1>4, <1>5, <2>2, <3>1
    <2> QED BY <1>1, <2>1, <2>2
<1>7. c = d
    BY <1>4, <1>5, <1>6, SeqEqual
<1> QED BY <1>7 DEF a, b, c, d

\* The keys of a name of so many words are as many, up to four, and differ.
LEMMA KeysForDiffer ==
    ASSUME NEW n \in Nat, NEW k, k = KeysFor(n)
    PROVE  /\ Len(k) = IF n > 4 THEN 4 ELSE n
           /\ \A i, j \in 1 .. Len(k) : i < j => k[i] # k[j]
<1>1. CASE n = 0
    BY <1>1 DEF KeysFor
<1>2. CASE n = 1
    BY <1>2 DEF KeysFor
<1>3. CASE n = 2
    BY <1>3 DEF KeysFor
<1>4. CASE n = 3
    BY <1>4 DEF KeysFor
<1>5. CASE n > 3
    <2>1. n # 0 /\ n # 1 /\ n # 2 /\ n # 3 /\ (n > 4 \/ n = 4)
        BY <1>5
    <2>2. k = <<"fn", "mn1", "mn2", "ln">>
        BY <2>1 DEF KeysFor, NameKeys
    <2> QED BY <2>1, <2>2
<1> QED BY <1>1, <1>2, <1>3, <1>4, <1>5

\* The values of parts, and their letters.
ValuesOf(parts) == [i \in 1 .. Len(parts) |-> parts[i].value]
SpeltParts(parts) == [i \in 1 .. Len(parts) |-> Norm(parts[i].value)]

\* The parts of a name are all of it, in order, with keys of their own.
LEMMA PartsAreAll ==
    ASSUME NEW value \in Seq(Units), Readable(value), NEW parts, parts = Parts(value)
    PROVE  /\ Distinct(parts) /\ ValuesOf(parts) \in [1 .. Len(parts) -> Seq(Words)]
           /\ FlattenSeq(ValuesOf(parts)) = Named(value)
           /\ parts = <<>> <=> Named(value) = <<>>
<1> DEFINE w == Named(value)
           n == Len(w)
           k == KeysFor(n)
           m == Len(k)
           ss == ValuesOf(parts)
           f == [l \in 0 .. m |-> IF l = 4 THEN w ELSE SubSeq(w, 1, l)]
<1>1. w \in Seq(Words)
    BY NamedFacts
<1>2. n \in Nat /\ \A i \in 1 .. n : w[i] \in Words
    <2> HIDE DEF w
    <2> QED BY <1>1
<1> HIDE DEF w
<1>3. k \in Seq(ToSet(NameKeys)) /\ m \in Nat /\ DOMAIN k = 1 .. m
    <2> HIDE DEF n
    <2>1. k \in Seq(ToSet(NameKeys))
        BY <1>2, KeysForFacts
    <2> HIDE DEF k
    <2> QED BY <2>1
<1>4. m = (IF n > 4 THEN 4 ELSE n) /\ \A i, j \in 1 .. m : i < j => k[i] # k[j]
    <2> HIDE DEF n
    <2> QED BY <1>2, KeysForDiffer
<1>5. parts = [i \in 1 .. m |-> [key |-> k[i], value |-> IF i = 4 THEN SubSeq(w, 4, n) ELSE <<w[i]>>]]
    BY <1>3 DEF Parts, Part, w
<1> HIDE DEF k, n, m
<1>6. parts \in Seq(PartsOf(ToSet(NameKeys)))
    BY PartsFacts
<1>7. DOMAIN parts = 1 .. m /\ Len(parts) = m
    BY <1>3, <1>5, <1>6
<1>8. \A i \in 1 .. m : parts[i].key = k[i] /\ parts[i].value = IF i = 4 THEN SubSeq(w, 4, n) ELSE <<w[i]>>
    BY <1>5
<1>9. Distinct(parts)
    <2>1. \A i \in 1 .. m : parts[i].key = k[i]
        BY <1>8
    <2> QED BY <1>4, <1>7, <2>1 DEF Distinct
<1>10. ss \in [1 .. m -> Seq(Words)]
    <2>1. \A i \in 1 .. m : parts[i] \in PartsOf(ToSet(NameKeys))
        BY <1>6, <1>7
    <2>2. \A i \in 1 .. m : parts[i].value \in Seq(Words)
        BY <2>1 DEF PartsOf
    <2> QED BY <1>7, <2>2 DEF ValuesOf
<1>11. f[0] = <<>>
    BY <1>3
<1>12. ASSUME NEW l \in 1 .. m PROVE f[l] = Cat(f[l - 1], ss[l])
    <2>1. l \in Nat /\ l <= 4 /\ l <= n /\ l - 1 \in 0 .. n /\ l - 1 \in 0 .. m /\ l \in 0 .. m /\ l - 1 # 4
        BY <1>2, <1>3, <1>4
    <2>2. ss[l] = IF l = 4 THEN SubSeq(w, 4, n) ELSE <<w[l]>>
        BY <1>7, <1>8 DEF ValuesOf
    <2>3. f[l - 1] = SubSeq(w, 1, l - 1)
        BY <2>1
    <2>4. CASE l = 4
        <3>1. f[l] = w /\ ss[l] = SubSeq(w, 4, n) /\ f[l - 1] = SubSeq(w, 1, 3)
            BY <2>1, <2>2, <2>3, <2>4
        <3>2. w = SubSeq(w, 1, n)
            BY <1>1 DEF n
        <3>3. 3 \in 0 .. Len(w) /\ n \in 3 .. Len(w)
            BY <1>2, <2>1, <2>4 DEF n
        <3> DEFINE three == 3
        <3>4. three + 1 = 4 /\ three \in 0 .. Len(w) /\ n \in three .. Len(w)
            BY <3>3
        <3> HIDE DEF three
        <3>5. SubSeq(w, 1, n) = Cat(SubSeq(w, 1, three), SubSeq(w, three + 1, n))
            BY <1>1, <3>4, SubSeqJoin
        <3> HIDE DEF f, ss
        <3>6. SubSeq(w, 1, n) = Cat(SubSeq(w, 1, 3), SubSeq(w, 4, n))
            BY <3>4, <3>5 DEF three
        <3> QED BY <3>1, <3>2, <3>6
    <2>5. CASE l # 4
        <3>1. f[l] = SubSeq(w, 1, l) /\ ss[l] = <<w[l]>>
            BY <2>1, <2>2, <2>5
        <3> HIDE DEF f, ss
        <3> DEFINE p == l - 1
        <3>2. p \in 0 .. Len(w) /\ l \in p .. Len(w) /\ p + 1 = l
            BY <1>2, <2>1 DEF n
        <3> HIDE DEF p
        <3>3. SubSeq(w, 1, l) = Cat(SubSeq(w, 1, p), SubSeq(w, p + 1, l))
            BY <1>1, <3>2, SubSeqJoin
        <3>4. SubSeq(w, l, l) = <<w[l]>>
            <4>1. l \in 1 .. Len(w)
                BY <1>2, <2>1, <3>2 DEF n
            <4> DEFINE b == SubSeq(w, l, l)
            <4>2. b \in Seq(Words) /\ Len(b) = 1 /\ b[1] = w[l]
                BY <1>1, <4>1
            <4> HIDE DEF b
            <4>3. b = <<w[l]>>
                BY <4>2
            <4> QED BY <4>3 DEF b
        <3> QED BY <2>3, <3>1, <3>2, <3>3, <3>4 DEF p
    <2> QED BY <2>4, <2>5
<1>13. f[m] = w
    <2>1. m \in 0 .. m /\ (m = 4 \/ m = n)
        BY <1>2, <1>3, <1>4
    <2>2. SubSeq(w, 1, n) = w
        BY <1>1 DEF n
    <2> QED BY <2>1, <2>2
<1> HIDE DEF f, ss
<1>14. Flattens(f, m, ss)
    BY <1>11, <1>12 DEF Flattens
<1>15. f[m] = FlattenSeq(ss)
    BY <1>3, <1>10, <1>14, FlatUnique
<1>16. parts = <<>> <=> w = <<>>
    <2>1. parts = <<>> <=> m = 0
        BY <1>3, <1>6, <1>7
    <2>2. w = <<>> <=> n = 0
        BY <1>1 DEF n
    <2>3. m = 0 <=> n = 0
        BY <1>2, <1>4
    <2> QED BY <2>1, <2>2, <2>3
<1> QED BY <1>7, <1>9, <1>10, <1>13, <1>15, <1>16 DEF w, ss

\* The pieces of p read as said, in place of the span, and the values of other keys stay.
Renders(v, p, span) ==
    /\ p.v \in Seq(Entry) /\ p.out \in Seq(Outs(p.v))
    /\ Grows(v, p.v, TakenOver(KeysOf(span), span.latest))
    /\ \A x \in ToSet(p.out) : x \in Words \/ x.id \in KeysOf(span)
    /\ Reading(p.v, p.out) = Norm(Said(span))

\* Registered parts read as they do, one after the other.
LEMMA RegisteredReading ==
    ASSUME NEW v \in Seq(Entry), NEW r, NEW parts, NEW latest, Registers(v, r, parts, Len(parts), latest),
           Len(parts) \in Nat, ValuesOf(parts) \in [1 .. Len(parts) -> Seq(Words)]
    PROVE  /\ Reading(r.v, r.out) = Norm(FlattenSeq(ValuesOf(parts)))
           /\ \A x \in ToSet(r.out) : \E i \in 1 .. Len(parts) : x.id = parts[i].key
<1> DEFINE n == Len(parts)
           ss == ValuesOf(parts)
           tt == ReadPieces(r.v, r.out)
<1>1. /\ r.v \in Seq(Entry) /\ r.out \in Seq(Outs(r.v)) /\ Len(r.out) = n
      /\ \A i \in 1 .. n : r.out[i].id = parts[i].key /\ ReadBy(r.v, r.out[i]) = Norm(parts[i].value)
    BY DEF Registers
<1>2. \A i \in 1 .. n : ss[i] = parts[i].value /\ tt[i] = Norm(ss[i])
    BY <1>1 DEF ValuesOf, ReadPieces
<1>3. tt \in [1 .. n -> Seq(STRING)]
    BY <1>1, ReadPiecesFacts
<1>4. ss \in [1 .. n -> Seq(Units)]
    <2>1. Seq(Words) \subseteq Seq(Units)
        BY WordFacts
    <2> HIDE DEF ss
    <2> QED BY <2>1 DEF ss
<1>5. n \in Nat
    OBVIOUS
<1> HIDE DEF n, ss, tt
<1>6. ReadEach(tt, ss, n)
    BY <1>2 DEF ReadEach
<1>7. Norm(FlattenSeq(ss)) = FlattenSeq(tt)
    BY <1>3, <1>4, <1>5, <1>6, NormFlat
<1>8. \A x \in ToSet(r.out) : \E i \in 1 .. n : x.id = parts[i].key
    BY <1>1 DEF ToSet
<1> QED BY <1>7, <1>8 DEF n, ss, tt, Reading

\* Two names in one have their tokens where their parts are, and the "and" in between.
LEMMA CoordinatedReads ==
    ASSUME NEW v \in Seq(Entry), NEW w, w \in Seq(Entry), NEW value \in Seq(Words), Len(value) = 4,
           NEW a \in Outs(w), NEW b \in Outs(w), NEW c \in Outs(w),
           ReadBy(w, a) = Norm(<<value[1]>>), ReadBy(w, b) = Norm(<<value[3]>>),
           ReadBy(w, c) = Norm(<<value[4]>>)
    PROVE  /\ <<a, value[2], b, c>> \in Seq(Outs(w))
           /\ Reading(w, <<a, value[2], b, c>>) = Norm(value)
<1> DEFINE out == <<a, value[2], b, c>>
           x == value[2]
<1>1. \A i \in 1 .. 4 : value[i] \in Words
    <2>1. \A i \in 1 .. Len(value) : value[i] \in Words
        BY ElementOfSeq
    <2> QED BY <2>1
<1>2. x \in Words /\ x \in Outs(w)
    BY <1>1 DEF Outs
<1>3. \A i \in 1 .. 4 : Norm(<<value[i]>>) = Letters(value[i].id)
    <2> TAKE i \in 1 .. 4
    <2> DEFINE l == Letters(value[i].id)
               y == value[i]
    <2>1. Norm(<<y>>) = FlattenSeq(<<l>>)
        BY DEF Norm
    <2>2. l \in Seq(STRING)
        BY <1>1, WordFacts
    <2> HIDE DEF l
    <2>3. FlattenSeq(<<l>>) = l
        BY <2>2, FlatOne
    <2> QED BY <2>1, <2>3 DEF l
<1>4. ReadBy(w, x) = Norm(<<x>>)
    <2> HIDE DEF x
    <2> QED BY <1>2, ReadByFacts DEF ReadBy
<1>5. out \in Seq(Outs(w)) /\ Len(out) = 4
    <2> HIDE DEF x
    <2>1. <<a, x, b, c>> \in Seq(Outs(w))
        BY <1>2
    <2> QED BY <2>1 DEF x
<1>6. /\ ReadBy(w, out[1]) = Letters(value[1].id)
      /\ ReadBy(w, out[2]) = Letters(value[2].id)
      /\ ReadBy(w, out[3]) = Letters(value[3].id)
      /\ ReadBy(w, out[4]) = Letters(value[4].id)
    <2>1. out[1] = a /\ out[2] = x /\ out[3] = b /\ out[4] = c
        OBVIOUS
    <2>2. 1 \in 1 .. 4 /\ 2 \in 1 .. 4 /\ 3 \in 1 .. 4 /\ 4 \in 1 .. 4
        OBVIOUS
    <2> HIDE DEF out
    <2> QED BY <1>3, <1>4, <2>1, <2>2 DEF x
<1>7. \A i \in 1 .. 4 : ReadBy(w, out[i]) = Letters(value[i].id)
    <2> TAKE i \in 1 .. 4
    <2>1. i = 1 \/ i = 2 \/ i = 3 \/ i = 4
        OBVIOUS
    <2> HIDE DEF out
    <2> QED BY <1>6, <2>1
<1> HIDE DEF out
<1>8. ReadPieces(w, out) = LettersOf(value)
    BY <1>5, <1>7 DEF ReadPieces, LettersOf
<1>9. value \in Seq(Units)
    BY WordFacts
<1>10. Norm(value) = FlattenSeq(LettersOf(value))
    BY <1>9, LettersFacts
<1> QED BY <1>5, <1>8, <1>10 DEF out, Reading

\* The replacement of a span does.
LEMMA PlaceholderReads ==
    ASSUME NEW text \in Seq(Units), NEW v \in Seq(Entry), NEW span \in SpansIn(text), AllWords(span.value),
           NEW p, p = Placeholder(v, span)
    PROVE  Renders(v, p, span)
<1> DEFINE start == [v |-> v, out |-> <<>>]
           val == span.value
           latest == span.latest
           couple == span.key = "name" /\ Coordinated(val)
           late == latest /\ ~couple
<1>1. /\ span.key \in SpanKeys /\ val \in Seq(Units) /\ val # <<>> /\ latest \in BOOLEAN
      /\ span.key = "name" => Readable(val)
    BY SpanFacts DEF SpansIn, SpansOf
<1>2. val \in Seq(Words)
    <2>1. val = span.value
        OBVIOUS
    <2> HIDE DEF val
    <2>2. \A i \in 1 .. Len(val) : val[i] \in Words
        BY <1>1, <2>1 DEF AllWords, ToSet, Words
    <2> QED BY <1>1, <2>2
<1>3. /\ couple => Said(span) = <<val[1], And, val[3], val[4]>>
      /\ ~couple => Said(span) = IF span.key # "name" \/ Named(val) = <<>> THEN val ELSE Named(val)
    BY DEF Said
<1>4. /\ p = IF Entries(span) = <<>> THEN [v |-> v, out |-> val]
              ELSE IF couple THEN [Register(start, Entries(span), late) EXCEPT !.out = <<@[1], And, @[2], @[3]>>]
              ELSE Register(start, Entries(span), late)
      /\ late \in BOOLEAN /\ (late => latest)
    BY DEF Placeholder
<1>5. couple <=> span.key = "name" /\ Coordinated(val)
    OBVIOUS
<1> HIDE DEF start, val, latest, couple, late
<1>6. ASSUME NEW parts, parts \in Seq(PartsOf(EntityKeys)), Distinct(parts),
             ValuesOf(parts) \in [1 .. Len(parts) -> Seq(Words)],
             \A i \in 1 .. Len(parts) : parts[i].key \in KeysOf(span),
             NEW l \in BOOLEAN, l => latest, NEW r, r = Register(start, parts, l)
      PROVE  /\ Registers(v, r, parts, Len(parts), l)
             /\ r.v \in Seq(Entry) /\ r.out \in Seq(Outs(r.v))
             /\ Grows(v, r.v, TakenOver(KeysOf(span), latest))
             /\ Reading(r.v, r.out) = Norm(FlattenSeq(ValuesOf(parts)))
             /\ \A x \in ToSet(r.out) : x.id \in KeysOf(span)
    <2> DEFINE n == Len(parts)
    <2>1. n = Len(parts) /\ n \in Nat
        BY <1>6
    <2> HIDE DEF n
    <2>2. Registers(v, r, parts, n, l)
        <3>1. Registers(v, Register([v |-> v, out |-> <<>>], parts, l), parts, n, l)
            BY <1>6, <2>1, RegisterReads
        <3> QED BY <1>6, <3>1 DEF start
    <2>3. Registers(v, r, parts, Len(parts), l)
        BY <2>1, <2>2
    <2>4. /\ Reading(r.v, r.out) = Norm(FlattenSeq(ValuesOf(parts)))
          /\ \A x \in ToSet(r.out) : \E i \in 1 .. Len(parts) : x.id = parts[i].key
        BY <1>6, <2>1, <2>3, RegisteredReading
    <2>5. Grows(v, r.v, TakenOver(KeysTo(parts, Len(parts)), l))
          /\ r.v \in Seq(Entry) /\ r.out \in Seq(Outs(r.v))
        BY <2>3 DEF Registers
    <2>6. TakenOver(KeysTo(parts, Len(parts)), l) \subseteq TakenOver(KeysOf(span), latest)
        BY <1>6 DEF TakenOver, KeysTo
    <2>7. Grows(v, v, {})
        BY GrowsNot
    <2>8. Grows(v, r.v, TakenOver(KeysOf(span), latest))
        BY <2>5, <2>6, <2>7, GrowsOn
    <2>9. \A x \in ToSet(r.out) : x.id \in KeysOf(span)
        BY <1>6, <2>4
    <2> QED BY <2>3, <2>4, <2>5, <2>8, <2>9
<1>7. CASE span.key # "name"
    <2> DEFINE e == [key |-> span.key, value |-> val]
               parts == <<e>>
    <2>1. e \in PartsOf(EntityKeys) /\ e.key = span.key /\ e.value = val
        BY <1>1, <1>2, <1>7 DEF PartsOf, SpanKeys
    <2>2. p = Register(start, parts, late)
        <3>1. Entries(span) = parts
            BY <1>7 DEF Entries, val
        <3>2. parts # <<>>
            OBVIOUS
        <3> HIDE DEF parts
        <3> QED BY <1>4, <1>5, <1>7, <3>1, <3>2
    <2> HIDE DEF e
    <2>3. parts \in Seq(PartsOf(EntityKeys)) /\ Len(parts) = 1 /\ DOMAIN parts = 1 .. 1 /\ parts[1] = e
        BY <2>1
    <2>4. Distinct(parts)
        BY <2>3 DEF Distinct
    <2>5. ValuesOf(parts) = <<val>>
        BY <2>1, <2>3 DEF ValuesOf
    <2>6. <<val>> \in [1 .. 1 -> Seq(Words)]
        BY <1>2
    <2>7. \A i \in 1 .. Len(parts) : parts[i].key \in KeysOf(span)
        BY <1>7, <2>1, <2>3 DEF KeysOf
    <2> HIDE DEF parts
    <2>8. /\ p.v \in Seq(Entry) /\ p.out \in Seq(Outs(p.v))
          /\ Grows(v, p.v, TakenOver(KeysOf(span), latest))
          /\ Reading(p.v, p.out) = Norm(FlattenSeq(ValuesOf(parts)))
          /\ \A x \in ToSet(p.out) : x.id \in KeysOf(span)
        BY <1>4, <1>6, <2>2, <2>3, <2>4, <2>5, <2>6, <2>7
    <2>9. FlattenSeq(<<val>>) = val
        BY <1>2, FlatOne
    <2> QED BY <1>5, <1>3, <1>7, <2>5, <2>8, <2>9 DEF Renders, latest
<1>8. CASE span.key = "name" /\ Coordinated(val)
    <2> DEFINE parts == <<PartOf(val, "fn", 1), PartOf(val, "mn1", 3), PartOf(val, "ln", 4)>>
               said == <<val[1], And, val[3], val[4]>>
               r == Register(start, parts, late)
    <2>1. /\ val[1] \in Words /\ val[3] \in Words /\ val[4] \in Words /\ And \in Words
        BY <1>1, <1>8, CoupleFacts, AndFacts
    <2>2. /\ parts[1].key = "fn" /\ parts[2].key = "mn1" /\ parts[3].key = "ln"
          /\ parts[1].value = <<val[1]>> /\ parts[2].value = <<val[3]>> /\ parts[3].value = <<val[4]>>
        BY DEF PartOf
    <2>3. "fn" \in ToSet(NameKeys) /\ "mn1" \in ToSet(NameKeys) /\ "ln" \in ToSet(NameKeys)
        BY NameKeysFacts
    <2>4. Entries(span) = parts /\ parts \in Seq(PartsOf(ToSet(NameKeys))) /\ Len(parts) = 3
        BY <1>1, <1>8, CoupleEntries DEF val
    <2>5. said \in Seq(Words) /\ Len(said) = 4 /\ said[1] = val[1] /\ said[2] = And /\ said[3] = val[3] /\ said[4] = val[4]
        BY <2>1
    <2>6. Said(span) = said
        BY <1>5, <1>3, <1>8
    <2>7. parts # <<>>
        OBVIOUS
    <2> HIDE DEF parts, said
    <2>8. parts \in Seq(PartsOf(EntityKeys))
        <3> DEFINE A == PartsOf(ToSet(NameKeys))
                   B == PartsOf(EntityKeys)
        <3>1. A \subseteq B
            BY NameKeysFacts DEF PartsOf
        <3>2. parts \in Seq(A)
            BY <2>4
        <3> HIDE DEF A, B
        <3>3. parts \in Seq(B)
            BY <3>1, <3>2
        <3> QED BY <3>3 DEF B
    <2>9. p = [r EXCEPT !.out = <<@[1], And, @[2], @[3]>>]
        <3>1. r = Register(start, Entries(span), late)
            BY <2>4
        <3> HIDE DEF r
        <3> QED BY <1>4, <1>5, <1>8, <2>4, <2>7, <3>1
    <2>10. /\ parts \in Seq(PartsOf(EntityKeys)) /\ Len(parts) = 3 /\ DOMAIN parts = 1 .. 3
          /\ parts[1].key = "fn" /\ parts[2].key = "mn1" /\ parts[3].key = "ln"
          /\ parts[1].value = <<val[1]>> /\ parts[2].value = <<val[3]>> /\ parts[3].value = <<val[4]>>
        BY <2>2, <2>4, <2>8
    <2>11. Distinct(parts)
        <3>1. \A i, j \in 1 .. 3 : i < j => (i = 1 /\ j = 2) \/ (i = 1 /\ j = 3) \/ (i = 2 /\ j = 3)
            OBVIOUS
        <3> QED BY <2>10, <3>1 DEF Distinct
    <2>12. ValuesOf(parts) \in [1 .. Len(parts) -> Seq(Words)]
        <3>1. \A i \in 1 .. 3 : parts[i] \in PartsOf(EntityKeys)
            <4>1. \A i \in 1 .. Len(parts) : parts[i] \in PartsOf(EntityKeys)
                BY <2>10, ElementOfSeq
            <4> QED BY <2>10, <4>1
        <3>2. \A i \in 1 .. 3 : parts[i].value \in Seq(Words)
            BY <3>1 DEF PartsOf
        <3> QED BY <2>10, <3>2 DEF ValuesOf
    <2>13. \A i \in 1 .. Len(parts) : parts[i].key \in KeysOf(span)
        <3>1. KeysOf(span) = ToSet(NameKeys)
            BY <1>8 DEF KeysOf
        <3>2. \A i \in 1 .. 3 : i = 1 \/ i = 2 \/ i = 3
            OBVIOUS
        <3> QED BY <2>3, <2>10, <3>1, <3>2
    <2>14. /\ Registers(v, r, parts, Len(parts), late)
          /\ r.v \in Seq(Entry) /\ r.out \in Seq(Outs(r.v))
          /\ Grows(v, r.v, TakenOver(KeysOf(span), latest))
          /\ \A x \in ToSet(r.out) : x.id \in KeysOf(span)
        <3> HIDE DEF r
        <3> QED BY <1>4, <1>6, <2>10, <2>11, <2>12, <2>13 DEF r
    <2>15. r \in Progress
        <3>1. start \in Progress
            BY DEF Progress, start
        <3>2. EntityKeys \in SUBSET EntityKeys
            OBVIOUS
        <3> QED BY <2>10, <3>1, <3>2, RegisterFacts
    <2> HIDE DEF r
    <2>16. p.v = r.v /\ p.out = <<r.out[1], said[2], r.out[2], r.out[3]>>
        BY <2>9, <2>15, <2>5 DEF Progress
    <2>17. /\ Len(r.out) = 3
           /\ ReadBy(r.v, r.out[1]) = Norm(<<said[1]>>)
           /\ ReadBy(r.v, r.out[2]) = Norm(<<said[3]>>)
           /\ ReadBy(r.v, r.out[3]) = Norm(<<said[4]>>)
        <3>1. 1 \in 1 .. 3 /\ 2 \in 1 .. 3 /\ 3 \in 1 .. 3
            OBVIOUS
        <3>2. Len(r.out) = 3 /\ \A i \in 1 .. 3 : ReadBy(r.v, r.out[i]) = Norm(parts[i].value)
            BY <2>10, <2>14 DEF Registers
        <3> QED BY <2>10, <2>5, <3>1, <3>2
    <2> DEFINE a == r.out[1]  b == r.out[2]  c == r.out[3]
    <2>18. a \in Outs(r.v) /\ b \in Outs(r.v) /\ c \in Outs(r.v)
           /\ a \in ToSet(r.out) /\ b \in ToSet(r.out) /\ c \in ToSet(r.out)
        BY <2>14, <2>17 DEF ToSet
    <2>19. p.v = r.v /\ p.out = <<a, said[2], b, c>>
        BY <2>16
    <2>20. ReadBy(r.v, a) = Norm(<<said[1]>>) /\ ReadBy(r.v, b) = Norm(<<said[3]>>) /\ ReadBy(r.v, c) = Norm(<<said[4]>>)
        BY <2>17
    <2> HIDE DEF a, b, c
    <2>21. <<a, said[2], b, c>> \in Seq(Outs(r.v)) /\ Reading(r.v, <<a, said[2], b, c>>) = Norm(said)
        BY <2>14, <2>18, <2>20, <2>5, CoordinatedReads
    <2>22. \A x \in ToSet(p.out) : x \in Words \/ x.id \in KeysOf(span)
        <3>1. ToSet(p.out) = {a, said[2], b, c}
            BY <2>19 DEF ToSet
        <3>2. said[2] \in Words
            BY <2>1, <2>5
        <3> QED BY <2>14, <2>18, <3>1, <3>2
    <2> QED BY <2>14, <2>19, <2>21, <2>22, <2>6 DEF Renders, latest
<1>9. CASE span.key = "name" /\ ~Coordinated(val) /\ Parts(val) = <<>>
    <2>1. Entries(span) = <<>>
        BY <1>9 DEF Entries, val
    <2>2. p.v = v /\ p.out = val
        BY <1>4, <2>1
    <2>3. Named(val) = <<>>
        BY <1>1, <1>9, PartsAreAll
    <2>4. Said(span) = val
        BY <1>5, <1>3, <1>9, <2>3
    <2>5. val \in Seq(Outs(v)) /\ Reading(v, val) = Norm(val)
        BY <1>2, ReadingWords
    <2>6. \A x \in ToSet(val) : x \in Words
        BY <1>2 DEF ToSet
    <2>7. Grows(v, v, TakenOver(KeysOf(span), span.latest))
        BY GrowsNot
    <2> QED BY <2>2, <2>4, <2>5, <2>6, <2>7 DEF Renders
<1>10. CASE span.key = "name" /\ ~Coordinated(val) /\ Parts(val) # <<>>
    <2> DEFINE parts == Parts(val)
    <2>1. parts \in Seq(PartsOf(ToSet(NameKeys)))
        BY <1>1, <1>10, PartsFacts
    <2>2. p = Register(start, parts, late)
        <3>1. Entries(span) = parts
            BY <1>10 DEF Entries, val
        <3>2. parts # <<>>
            BY <1>10
        <3> HIDE DEF parts
        <3> QED BY <1>4, <1>5, <1>10, <3>1, <3>2
    <2>3. /\ Distinct(parts) /\ ValuesOf(parts) \in [1 .. Len(parts) -> Seq(Words)]
          /\ FlattenSeq(ValuesOf(parts)) = Named(val)
          /\ Named(val) # <<>>
        BY <1>1, <1>10, PartsAreAll
    <2> HIDE DEF parts
    <2>4. parts \in Seq(PartsOf(EntityKeys))
        <3>1. PartsOf(ToSet(NameKeys)) \subseteq PartsOf(EntityKeys)
            BY NameKeysFacts DEF PartsOf
        <3> QED BY <2>1, <3>1
    <2>5. \A i \in 1 .. Len(parts) : parts[i].key \in KeysOf(span)
        <3>1. KeysOf(span) = ToSet(NameKeys)
            BY <1>10 DEF KeysOf
        <3>2. \A i \in 1 .. Len(parts) : parts[i] \in PartsOf(ToSet(NameKeys))
            BY <2>1
        <3> QED BY <3>1, <3>2 DEF PartsOf
    <2>6. /\ p.v \in Seq(Entry) /\ p.out \in Seq(Outs(p.v))
          /\ Grows(v, p.v, TakenOver(KeysOf(span), latest))
          /\ Reading(p.v, p.out) = Norm(FlattenSeq(ValuesOf(parts)))
          /\ \A x \in ToSet(p.out) : x.id \in KeysOf(span)
        BY <1>4, <1>6, <2>2, <2>3, <2>4, <2>5
    <2>7. Said(span) = Named(val)
        BY <1>5, <1>3, <1>10, <2>3
    <2> QED BY <2>3, <2>6, <2>7 DEF Renders, latest
<1> QED BY <1>7, <1>8, <1>9, <1>10

\* What is said in place of a span is a text.
LEMMA SaidIsText ==
    ASSUME NEW text, NEW span \in SpansIn(text), text \in Seq(Units)
    PROVE  Said(span) \in Seq(Units)
<1> DEFINE value == span.value
           couple == <<value[1], And, value[3], value[4]>>
<1>1. value \in Seq(Units) /\ value # <<>> /\ (span.key = "name" => Readable(value))
    BY SpanFacts
<1>2. span.key = "name" => Named(value) \in Seq(Units)
    BY <1>1, NamedFacts, WordFacts
<1>3. Coordinated(value) => couple \in Seq(Units)
    <2> SUFFICES ASSUME Coordinated(value) PROVE couple \in Seq(Units)
        OBVIOUS
    <2>1. value[1] \in Words /\ value[3] \in Words /\ value[4] \in Words /\ And \in Words
        BY <1>1, CoupleFacts, AndFacts
    <2>2. couple \in Seq(Words)
        BY <2>1
    <2> QED BY <2>2, WordFacts
<1>4. Said(span) = IF span.key # "name" THEN value
                   ELSE IF Coordinated(value) THEN couple
                   ELSE IF Named(value) = <<>> THEN value ELSE Named(value)
    BY DEF Said
<1> HIDE DEF value, couple
<1> QED BY <1>1, <1>2, <1>3, <1>4

\* The words before the k-th span, and what is heard up to its end.
CursorTo(chosen, k) == IF k = 1 THEN 1 ELSE chosen[k - 1].to + 1
GapTo(text, chosen, k) ==
    SubSeq(text, CursorTo(chosen, k), IF k > Len(chosen) THEN Len(text) ELSE chosen[k].from - 1)
HeardTo(text, chosen, k) ==
    GapTo(text, chosen, k) \o IF k > Len(chosen) THEN <<>> ELSE Said(chosen[k])

\* What goes before a span, or the end, are words of the text.
LEMMA GapIsWords ==
    ASSUME NEW text \in Seq(Units), AllWords(text), NEW i \in Nat \ {0}, NEW j \in Nat, j <= Len(text)
    PROVE  SubSeq(text, i, j) \in Seq(Words)
<1>1. text \in Seq(Words)
    <2>1. \A k \in 1 .. Len(text) : text[k] \in Words
        BY DEF AllWords, ToSet, Words
    <2> QED BY <2>1
<1> QED BY <1>1

\* The spans, all words, of a text of words, none of which takes over the tokens of
\* another before it.
Plainly(text, chosen) ==
    /\ text \in Seq(Units) /\ AllWords(text)
    /\ chosen \in Seq(SpansIn(text))
    /\ \A k \in 1 .. Len(chosen) : AllWords(chosen[k].value)
    /\ ~CorrectsItself(chosen)

\* The last words and every span are heard as texts.
LEMMA HeardIsText ==
    ASSUME NEW text, NEW chosen, Plainly(text, chosen), NEW k \in 1 .. Len(chosen)
    PROVE  /\ GapTo(text, chosen, k) \in Seq(Words)
           /\ Said(chosen[k]) \in Seq(Units)
           /\ HeardTo(text, chosen, k) = Cat(GapTo(text, chosen, k), Said(chosen[k]))
           /\ HeardTo(text, chosen, k) \in Seq(Units)
<1> DEFINE span == chosen[k]
           gap == GapTo(text, chosen, k)
           said == Said(span)
<1>1. /\ text \in Seq(Units) /\ AllWords(text) /\ chosen \in Seq(SpansIn(text))
      /\ Len(chosen) \in Nat /\ k \in Nat /\ ~(k > Len(chosen))
    BY DEF Plainly
<1>2. span \in SpansIn(text) /\ AllWords(span.value)
    <2>1. chosen[k] \in SpansIn(text)
        BY <1>1, ElementOfSeq
    <2> QED BY <2>1 DEF Plainly
<1>3. gap \in Seq(Words) /\ gap \in Seq(Units)
    <2> DEFINE i == CursorTo(chosen, k)
               j == span.from - 1
    <2>1. j \in Nat /\ j <= Len(text)
        BY <1>1, <1>2, SpanFacts
    <2>2. i \in Nat \ {0}
        <3>1. CASE k = 1
            BY <3>1 DEF CursorTo
        <3>2. CASE k # 1
            <4>1. k - 1 \in 1 .. Len(chosen)
                BY <1>1, <3>2
            <4>2. chosen[k - 1] \in SpansIn(text)
                BY <1>1, <4>1, ElementOfSeq
            <4>3. chosen[k - 1].to \in Nat
                BY <1>1, <4>2, SpanFacts
            <4> QED BY <3>2, <4>3 DEF CursorTo
        <3> QED BY <3>1, <3>2
    <2>3. gap = SubSeq(text, i, j)
        BY <1>1 DEF GapTo
    <2> HIDE DEF i, j, gap
    <2>4. SubSeq(text, i, j) \in Seq(Words)
        BY <1>1, <2>1, <2>2, GapIsWords
    <2> QED BY <2>3, <2>4, WordFacts
<1>4. said \in Seq(Units)
    BY <1>1, <1>2, SaidIsText
<1>5. HeardTo(text, chosen, k) = Cat(gap, said)
    BY <1>1 DEF HeardTo, Cat
<1> HIDE DEF gap, said
<1>6. Cat(gap, said) \in Seq(Units)
    BY <1>3, <1>4, CatFacts
<1> QED BY <1>3, <1>4, <1>5, <1>6 DEF gap, said

\* The first k spans are replaced, and what is put out reads as the text h does.
ReadsSo(chosen, r, h, k) ==
    /\ r.v \in Seq(Entry) /\ r.out \in Seq(Outs(r.v))
    /\ r.cursor = CursorTo(chosen, k + 1)
    /\ \A x \in ToSet(r.out) : x \in Words \/ \E j \in 1 .. k : x.id \in KeysOf(chosen[j])
    /\ Reading(r.v, r.out) = Norm(h)

\* A span replaced more.
LEMMA ReadsOn ==
    ASSUME NEW text, NEW chosen, Plainly(text, chosen), NEW k \in 1 .. Len(chosen),
           NEW r, NEW h \in Seq(Units), ReadsSo(chosen, r, h, k - 1)
    PROVE  ReadsSo(chosen, ReplaceOne(text, r, chosen[k]), Cat(h, HeardTo(text, chosen, k)), k)
<1> DEFINE span == chosen[k]
           v == r.v
           p == Placeholder(v, span)
           gap == SubSeq(text, r.cursor, span.from - 1)
           said == Said(span)
           K == TakenOver(KeysOf(span), span.latest)
           b == ReplaceOne(text, r, span)
<1>1. /\ text \in Seq(Units) /\ AllWords(text) /\ chosen \in Seq(SpansIn(text))
      /\ Len(chosen) \in Nat /\ k \in Nat /\ ~(k > Len(chosen)) /\ (k - 1) + 1 = k
    BY DEF Plainly
<1>2. span \in SpansIn(text) /\ AllWords(span.value)
    <2>1. chosen[k] \in SpansIn(text)
        BY <1>1, ElementOfSeq
    <2> QED BY <2>1 DEF Plainly
<1>3. /\ v \in Seq(Entry) /\ r.out \in Seq(Outs(v)) /\ r.cursor = CursorTo(chosen, k)
      /\ \A x \in ToSet(r.out) : x \in Words \/ \E j \in 1 .. k - 1 : x.id \in KeysOf(chosen[j])
      /\ Reading(v, r.out) = Norm(h)
    BY <1>1 DEF ReadsSo
<1>4. gap = GapTo(text, chosen, k)
    BY <1>1, <1>3 DEF GapTo
<1>5. /\ gap \in Seq(Words) /\ gap \in Seq(Units) /\ said \in Seq(Units)
      /\ HeardTo(text, chosen, k) = Cat(gap, said)
    <2>1. /\ GapTo(text, chosen, k) \in Seq(Words)
          /\ Said(chosen[k]) \in Seq(Units)
          /\ HeardTo(text, chosen, k) = Cat(GapTo(text, chosen, k), Said(chosen[k]))
        BY HeardIsText
    <2> HIDE DEF gap
    <2> QED BY <1>4, <2>1, WordFacts
<1>6. /\ b.v = p.v /\ b.cursor = span.to + 1
      /\ b.out = Cat(Cat(r.out, gap), p.out)
    BY DEF ReplaceOne, Cat
<1>7. Renders(v, p, span)
    BY <1>1, <1>2, <1>3, PlaceholderReads
<1> HIDE DEF p, gap, said, b
<1>8. /\ p.v \in Seq(Entry) /\ p.out \in Seq(Outs(p.v)) /\ Grows(v, p.v, K)
      /\ \A x \in ToSet(p.out) : x \in Words \/ x.id \in KeysOf(span)
      /\ Reading(p.v, p.out) = Norm(said)
    BY <1>7 DEF Renders, said
<1>9. \A x \in ToSet(r.out) : x \in Words \/ x.id \notin K
    <2> SUFFICES ASSUME NEW x \in ToSet(r.out), x \notin Words, x.id \in K PROVE FALSE
        OBVIOUS
    <2>1. PICK j \in 1 .. k - 1 : x.id \in KeysOf(chosen[j])
        BY <1>3
    <2>2. span.latest /\ x.id \in KeysOf(span)
        <3>1. CASE span.latest
            BY <3>1 DEF TakenOver
        <3>2. CASE ~span.latest
            BY <3>2 DEF TakenOver
        <3> QED BY <3>1, <3>2
    <2>3. k \in DOMAIN chosen
        BY <1>1
    <2>4. chosen[j].key # span.key /\ span.key # "name" /\ chosen[j].key # "name"
        BY <2>2, <2>3 DEF Plainly, CorrectsItself
    <2> QED BY <2>1, <2>2, <2>4 DEF KeysOf
<1>10. r.out \in Seq(Outs(p.v)) /\ Reading(p.v, r.out) = Norm(h)
    <2> HIDE DEF K, v
    <2>1. v \in Seq(Entry) /\ r.out \in Seq(Outs(v))
        BY <1>3
    <2> DEFINE w == p.v
               out == r.out
    <2> HIDE DEF w, out
    <2>2. v \in Seq(Entry) /\ Grows(v, w, K) /\ out \in Seq(Outs(v))
          /\ \A x \in ToSet(out) : x \in Words \/ x.id \notin K
        BY <1>8, <1>9, <2>1 DEF w, out
    <2>3. out \in Seq(Outs(w)) /\ Reading(w, out) = Reading(v, out)
        BY <2>2, ReadingStays
    <2> QED BY <1>3, <2>3 DEF w, out
<1>11. gap \in Seq(Outs(p.v)) /\ Reading(p.v, gap) = Norm(gap)
    BY <1>5, <1>8, ReadingWords
<1> DEFINE c == Cat(r.out, gap)
           d == Cat(c, p.out)
<1>12. c \in Seq(Outs(p.v)) /\ Reading(p.v, c) = Cat(Norm(h), Norm(gap))
    BY <1>8, <1>10, <1>11, ReadingJoin
<1>13. ToSet(c) = ToSet(r.out) \cup ToSet(gap)
    BY <1>10, <1>11, JoinedMembers DEF Cat
<1> HIDE DEF c
<1>14. d \in Seq(Outs(p.v)) /\ Reading(p.v, d) = Cat(Cat(Norm(h), Norm(gap)), Norm(said))
    BY <1>8, <1>12, ReadingJoin
<1>15. ToSet(d) = ToSet(c) \cup ToSet(p.out)
    BY <1>8, <1>12, JoinedMembers DEF Cat
<1>16. b.out = d
    BY <1>6 DEF c
<1> HIDE DEF d
<1>17. \A x \in ToSet(d) : x \in Words \/ \E j \in 1 .. k : x.id \in KeysOf(chosen[j])
    <2>1. \A x \in ToSet(gap) : x \in Words
        BY <1>5 DEF ToSet
    <2>2. \A j \in 1 .. k - 1 : j \in 1 .. k
        BY <1>1
    <2>3. k \in 1 .. k
        BY <1>1
    <2> QED BY <1>3, <1>8, <1>13, <1>15, <2>1, <2>2, <2>3
<1>18. Reading(p.v, d) = Norm(Cat(h, Cat(gap, said)))
    <2>1. Norm(Cat(h, gap)) = Cat(Norm(h), Norm(gap)) /\ Cat(h, gap) \in Seq(Units)
        BY <1>5, NormJoin, CatFacts
    <2> DEFINE e == Cat(h, gap)
    <2> HIDE DEF e
    <2>2. e \in Seq(Units)
        BY <2>1 DEF e
    <2>3. Norm(Cat(e, said)) = Cat(Norm(e), Norm(said))
        BY <1>5, <2>2, NormJoin
    <2>4. Cat(Cat(h, gap), said) = Cat(h, Cat(gap, said))
        BY <1>5, CatAssociates
    <2> QED BY <1>14, <2>1, <2>3, <2>4 DEF e
<1>19. b.cursor = CursorTo(chosen, k + 1)
    <2>1. (k + 1) - 1 = k /\ k + 1 # 1
        BY <1>1
    <2> QED BY <1>6, <2>1 DEF CursorTo
<1>20. ReadsSo(chosen, b, Cat(h, HeardTo(text, chosen, k)), k)
    BY <1>5, <1>6, <1>8, <1>14, <1>16, <1>17, <1>18, <1>19 DEF ReadsSo
<1> QED BY <1>20 DEF b, span

\* All spans are replaced, and the rest of the text follows.
LEMMA ReadsToEnd ==
    ASSUME NEW text, NEW chosen, Plainly(text, chosen), NEW v \in Seq(Entry),
           NEW w, w = Replaced(text, chosen, v)
    PROVE  /\ w.v \in Seq(Entry) /\ w.out \in Seq(Outs(w.v))
           /\ Reading(w.v, w.out) = Norm(Heard(text, chosen))
<1> DEFINE n == Len(chosen)
           hs == [k \in 1 .. n + 1 |-> HeardTo(text, chosen, k)]
           gap == GapTo(text, chosen, n + 1)
<1>1. /\ text \in Seq(Units) /\ AllWords(text) /\ chosen \in Seq(SpansIn(text)) /\ n \in Nat
      /\ n + 1 \in Nat /\ (n + 1) - 1 = n /\ n + 1 > n /\ n + 1 \in 1 .. n + 1
    BY DEF Plainly
<1>2. PICK st \in [0 .. n -> Going] : ReplacesAll(st, text, chosen, v, n)
    BY <1>1, ReplacedSteps
<1>3. Heard(text, chosen) = FlattenSeq(hs)
    BY DEF Heard, HeardTo, GapTo, CursorTo
<1>4. gap \in Seq(Words) /\ gap = SubSeq(text, CursorTo(chosen, n + 1), Len(text))
    <2> DEFINE i == CursorTo(chosen, n + 1)
    <2>1. gap = SubSeq(text, i, Len(text))
        BY <1>1 DEF GapTo
    <2>2. i \in Nat \ {0}
        <3>1. CASE n = 0
            BY <3>1 DEF CursorTo
        <3>2. CASE n # 0
            <4>1. chosen[n] \in SpansIn(text)
                BY <1>1, <3>2, ElementOfSeq
            <4>2. chosen[n].to \in Nat
                BY <1>1, <4>1, SpanFacts
            <4> QED BY <1>1, <3>2, <4>2 DEF CursorTo
        <3> QED BY <3>1, <3>2
    <2> DEFINE j == Len(text)
    <2>3. j \in Nat /\ j <= Len(text)
        BY <1>1
    <2> HIDE DEF i, gap, j
    <2>4. SubSeq(text, i, j) \in Seq(Words)
        BY <1>1, <2>2, <2>3, GapIsWords
    <2> QED BY <2>1, <2>4 DEF i, j
<1>5. HeardTo(text, chosen, n + 1) = gap /\ gap \in Seq(Units)
    <2>1. gap \in Seq(Units)
        BY <1>4, WordFacts
    <2>2. HeardTo(text, chosen, n + 1) = Cat(gap, <<>>)
        BY <1>1 DEF HeardTo, Cat
    <2> HIDE DEF gap
    <2> QED BY <2>1, <2>2, CatFacts
<1> HIDE DEF n, gap
<1>6. hs \in [1 .. n + 1 -> Seq(Units)]
    <2>1. ASSUME NEW k \in 1 .. n + 1 PROVE HeardTo(text, chosen, k) \in Seq(Units)
        <3>1. CASE k = n + 1
            BY <1>5, <3>1
        <3>2. CASE k # n + 1
            <4>1. k \in 1 .. n
                BY <1>1, <3>2
            <4>2. k \in 1 .. Len(chosen)
                BY <4>1 DEF n
            <4> QED BY <4>2, HeardIsText
        <3> QED BY <3>1, <3>2
    <2> QED BY <2>1
<1>7. \A k \in 1 .. n + 1 : hs[k] = HeardTo(text, chosen, k)
    OBVIOUS
<1> HIDE DEF hs
<1> DEFINE m == n + 1
<1>8. PICK h \in [0 .. m -> Seq(Units)] : Flattens(h, m, hs) /\ h[m] = FlattenSeq(hs)
    <2>1. m \in Nat /\ hs \in [1 .. m -> Seq(Units)]
        BY <1>1, <1>6
    <2> HIDE DEF m
    <2> QED BY <2>1, FlatSteps
<1>9. /\ h[0] = <<>> /\ h[m] = Cat(h[n], hs[m])
      /\ \A k \in 1 .. n : h[k] = Cat(h[k - 1], hs[k])
    <2>1. \A k \in 1 .. n : k \in 1 .. m
        BY <1>1
    <2> QED BY <1>1, <1>8, <2>1 DEF Flattens
<1>10. \A k \in 0 .. n : h[k] \in Seq(Units)
    <2>1. \A k \in 0 .. n : k \in 0 .. m
        BY <1>1
    <2> QED BY <1>8, <2>1
<1> HIDE DEF m
<1> DEFINE G == {k \in 0 .. n : ReadsSo(chosen, st[k], h[k], k)}
<1>11. 0 \in G
    <2>1. st[0].v = v /\ st[0].cursor = 1 /\ st[0].out = <<>>
        BY <1>2 DEF ReplacesAll, First
    <2>2. Reading(v, <<>>) = Norm(<<>>) /\ <<>> \in Seq(Outs(v))
        <3> DEFINE none == <<>>
        <3>1. none \in Seq(Words)
            OBVIOUS
        <3> HIDE DEF none
        <3>2. none \in Seq(Outs(v)) /\ Reading(v, none) = Norm(none)
            BY <3>1, ReadingWords
        <3> QED BY <3>2 DEF none
    <2>3. ToSet(<<>>) = {} /\ 0 + 1 = 1
        BY DEF ToSet
    <2>4. CursorTo(chosen, 0 + 1) = 1
        BY <2>3 DEF CursorTo
    <2>5. ReadsSo(chosen, st[0], h[0], 0)
        BY <1>9, <2>1, <2>2, <2>3, <2>4 DEF ReadsSo
    <2> QED BY <1>1, <2>5
<1>12. ASSUME NEW k \in 1 .. n, k - 1 \in G PROVE k \in G
    <2>1. k - 1 \in 0 .. n /\ k \in 0 .. n /\ k \in 1 .. n + 1 /\ k \in 1 .. Len(chosen)
        BY <1>1 DEF n
    <2> DEFINE r == st[k - 1]
               g == h[k - 1]
    <2>2. ReadsSo(chosen, r, g, k - 1) /\ g \in Seq(Units)
        BY <1>10, <1>12, <2>1
    <2>3. st[k] = ReplaceOne(text, r, chosen[k]) /\ h[k] = Cat(g, HeardTo(text, chosen, k))
        BY <1>2, <1>7, <1>9, <2>1 DEF ReplacesAll
    <2> HIDE DEF r, g
    <2>4. ReadsSo(chosen, ReplaceOne(text, r, chosen[k]), Cat(g, HeardTo(text, chosen, k)), k)
        BY <2>1, <2>2, ReadsOn
    <2> QED BY <2>1, <2>3, <2>4
<1>13. n \in G
    <2>1. n \in 0 .. n
        BY <1>1
    <2> HIDE DEF G
    <2> QED BY <1>1, <1>11, <1>12, <2>1, StepByStep
<1> DEFINE r == st[n]
           g == h[n]
<1>14. /\ r.v \in Seq(Entry) /\ r.out \in Seq(Outs(r.v))
       /\ r.cursor = CursorTo(chosen, n + 1)
       /\ Reading(r.v, r.out) = Norm(g) /\ g \in Seq(Units)
    <2>1. n \in 0 .. n
        BY <1>1
    <2> QED BY <1>10, <1>13, <2>1 DEF ReadsSo
<1>15. w = WithRest(text, r)
    BY <1>2 DEF ReplacesAll
<1> HIDE DEF r, g
<1>16. w.v = r.v /\ w.out = Cat(r.out, gap)
    <2> DEFINE rest == SubSeq(text, r.cursor, Len(text))
               c == r.out \o rest
    <2>1. gap = rest
        BY <1>4, <1>14
    <2>2. w = [v |-> r.v, out |-> c]
        BY <1>15 DEF WithRest
    <2>3. c = Cat(r.out, gap)
        BY <2>1 DEF Cat
    <2> HIDE DEF c
    <2> QED BY <2>2, <2>3
<1>17. gap \in Seq(Outs(r.v)) /\ Reading(r.v, gap) = Norm(gap)
    BY <1>4, <1>14, ReadingWords
<1>18. Cat(r.out, gap) \in Seq(Outs(r.v)) /\ Reading(r.v, Cat(r.out, gap)) = Cat(Norm(g), Norm(gap))
    BY <1>14, <1>17, ReadingJoin
<1>19. Norm(Cat(g, gap)) = Cat(Norm(g), Norm(gap))
    BY <1>5, <1>14, NormJoin
<1>20. Heard(text, chosen) = Cat(g, gap)
    <2>1. hs[m] = gap
        BY <1>1, <1>5, <1>7 DEF m
    <2> QED BY <1>3, <1>8, <1>9, <2>1 DEF g
<1> QED BY <1>14, <1>16, <1>18, <1>19, <1>20

\* RoundTrip: given back, a redacted message of words reads letter for letter as the
\* message did with what was said in place of every span, however its values are split,
\* known already or taken over.
THEOREM ReadsBack == Spec => []RoundTrip
<1>1. EngineTyped /\ LastRedacted => RoundTrip
    <2> SUFFICES ASSUME EngineTyped, LastRedacted, last.made, ~CorrectsItself(last.chosen),
                        AllWords(last.m.text), \A span \in ToSet(last.chosen) : AllWords(span.value)
                 PROVE  Norm(Clean(Repaired(last.out, vault), vault)) = Norm(Heard(last.m.text, last.chosen))
        BY DEF RoundTrip
    <2>1. PICK r \in Requests, suppressed \in BOOLEAN : \E inferred \in SUBSET InferredIn(r.m) :
             LastIs(r, suppressed, inferred)
        BY DEF LastRedacted
    <2> DEFINE text == last.m.text
               chosen == last.chosen
               before == last.before
               out == last.out
               w == Replaced(text, chosen, before)
    <2>2. /\ text \in Seq(Units) /\ chosen \in Seq(SpansIn(text)) /\ before \in Seq(Entry)
          /\ vault = w.v /\ out = w.out
        BY <2>1, RequestsAssumption DEF LastIs, Chosen
    <2>3. Plainly(text, chosen)
        <3>1. \A k \in 1 .. Len(chosen) : chosen[k] \in ToSet(chosen)
            BY <2>2 DEF ToSet
        <3> QED BY <2>2, <3>1 DEF Plainly
    <2> HIDE DEF text, chosen, before, out, w
    <2>4. /\ w.v \in Seq(Entry) /\ w.out \in Seq(Outs(w.v))
          /\ Reading(w.v, w.out) = Norm(Heard(text, chosen))
        BY <2>2, <2>3, ReadsToEnd DEF w
    <2>5. Norm(Clean(Repaired(w.out, w.v), w.v)) = Reading(w.v, w.out)
        <3> DEFINE u == w.v
                   o == w.out
        <3> HIDE DEF u, o
        <3>1. u \in Seq(Entry) /\ o \in Seq(Outs(u))
            BY <2>4 DEF u, o
        <3>2. Norm(Clean(Repaired(o, u), u)) = Reading(u, o)
            BY <3>1, ReadingBack
        <3> QED BY <3>2 DEF u, o
    <2> QED BY <2>2, <2>4, <2>5 DEF text, chosen, out
<1> QED BY <1>1, TypedInvariant, LastInvariant, PTL
================================================================================
