--------------------------- MODULE VaultSnapshotProofs ---------------------------
(***************************************************************************)
(* What holds of VaultSnapshot for every choice of keys, values, stores and  *)
(* bounds: a row taken while others registered is safe to number on from,    *)
(* and a row taken alone brings the vault back.                              *)
(*                                                                         *)
(* The inductive invariant follows the reads of a snapshot.  TornInv speaks  *)
(* of what has been read in a vault that only grew: the values are those of  *)
(* an earlier vault, and every dictionary read after them covers them.       *)
(* CleanInv says that with no change the copies are exact.                    *)
(***************************************************************************)
EXTENDS VaultSnapshot, PIIVaultProofs, FiniteOrders

Steps == {"none", "failed", "values", "tokens", "counters", "built", "stored"}
Fields == {"step", "data", "todo", "size", "moved", "destroyed", "payload", "version", "expired"}
DataFields == {"profile", "values", "tokens", "counters", "legacy"}

\* The shape of the row in the making.
SnapShape ==
    /\ DOMAIN snap = Fields
    /\ snap.step \in Steps
    /\ snap.todo \in SUBSET ENTITY_KEYS
    /\ snap.moved \in Nat
    /\ DOMAIN snap.data = DataFields
    /\ snap.data.tokens \in [ENTITY_KEYS -> Seq(Tokens)]
    /\ snap.data.counters \in [ENTITY_KEYS -> Nat]

\* The steps in which the values have been read, the lists, and the counters.
HasValues == snap.step \in {"tokens", "counters", "built", "stored"}
HasLists == snap.step \in {"counters", "built", "stored"}
HasCounters == snap.step \in {"built", "stored"}

\* The values are those a vault could hold.
ValuesSound ==
    LET values == snap.data.values
    IN  /\ DOMAIN values \subseteq Tokens
        /\ \A t \in DOMAIN values : values[t] # EmptyValue
        /\ \A t, u \in DOMAIN values :
              t[1] = u[1] /\ Norm(t[1], values[t]) = Norm(u[1], values[u]) => t = u

\* What was read for key e covers the values.
Lists(e) ==
    \A t \in DOMAIN snap.data.values : t[1] = e =>
        t[2] \in DOMAIN snap.data.tokens[e] /\ snap.data.tokens[e][t[2]] = t
Counts(e) == \A t \in DOMAIN snap.data.values : t[1] = e => t[2] <= snap.data.counters[e]

\* What has been read of a vault that was not destroyed meanwhile.
TornInv ==
    snap.destroyed = FALSE =>
        /\ snap.step = "values" => snap.data.legacy \subseteq DOMAIN tokenToValue
        /\ HasValues => ValuesSound /\ snap.data.legacy \subseteq DOMAIN snap.data.values
        /\ snap.step \in {"tokens", "counters"} => DOMAIN snap.data.values \subseteq DOMAIN tokenToValue
        /\ snap.step = "tokens" => \A e \in ENTITY_KEYS \ snap.todo : Lists(e)
        /\ HasLists => \A e \in ENTITY_KEYS : Lists(e)
        /\ snap.step = "counters" => \A e \in ENTITY_KEYS \ snap.todo : Counts(e)
        /\ HasCounters => \A e \in ENTITY_KEYS : Counts(e)

\* What has been read of a vault that did not change meanwhile.
CleanInv ==
    snap.moved = 0 =>
        /\ snap.step = "values" \/ HasValues => snap.data.legacy = DOMAIN tokenToValue
        /\ HasValues => snap.data.values = tokenToValue /\ snap.data.profile = currentProfile
        /\ snap.step = "tokens" =>
              \A e \in ENTITY_KEYS \ snap.todo : snap.data.tokens[e] = entityToTokens[e]
        /\ HasLists => snap.data.tokens = entityToTokens
        /\ snap.step = "counters" =>
              \A e \in ENTITY_KEYS \ snap.todo : snap.data.counters[e] = entityCounters[e]
        /\ HasCounters => snap.data.counters = entityCounters

\* What has not been read is empty, and a stored row is the encrypted one.
RowInv ==
    /\ snap.step = "values" => snap.data.tokens = NoLists
    /\ snap.step \in {"values", "tokens"} => snap.data.counters = NoCounters
    /\ snap.step = "stored" => snap.payload = Encrypt(snap.data, snap.version)

\* The reverse index is a function.
IndexIsFunction == valueIndex = [k \in DOMAIN valueIndex |-> valueIndex[k]]

SnapInv == VaultInv /\ IndexIsFunction /\ SnapShape /\ TornInv /\ CleanInv /\ RowInv

--------------------------------------------------------------------------------
(* The order of the reads, and what each reads.                               *)

\* The dictionary that is read next.
LEMMA AfterFacts ==
    /\ ReadOrder[1] = "values"
    /\ After("values") = "tokens"
    /\ After("tokens") = "counters"
    /\ After("counters") = "built"
<1>1. DOMAIN ReadOrder = {1, 2, 3, 4}
    BY DEF ReadOrder
<1>2. \A i \in {1, 2, 3, 4} :
        /\ ReadOrder[i] = "values" <=> i = 1
        /\ ReadOrder[i] = "tokens" <=> i = 2
        /\ ReadOrder[i] = "counters" <=> i = 3
    BY DEF ReadOrder
<1>3. (CHOOSE i \in DOMAIN ReadOrder : ReadOrder[i] = "values") = 1
    BY <1>1, <1>2
<1>4. (CHOOSE i \in DOMAIN ReadOrder : ReadOrder[i] = "tokens") = 2
    BY <1>1, <1>2
<1>5. (CHOOSE i \in DOMAIN ReadOrder : ReadOrder[i] = "counters") = 3
    BY <1>1, <1>2
<1>6. ReadOrder[1] = "values" /\ ReadOrder[1 + 1] = "tokens" /\ ReadOrder[1 + 2] = "counters"
      /\ ReadOrder[1 + 3] = "built"
    BY DEF ReadOrder
<1> QED BY <1>3, <1>4, <1>5, <1>6 DEF After

\* Entering a step changes what the comprehension goes through, and nothing read.
LEMMA EnterFacts ==
    ASSUME NEW s, DOMAIN s = Fields, NEW step
    PROVE  /\ DOMAIN Enter(step, s) = Fields
           /\ Enter(step, s).step = step
           /\ Enter(step, s).todo = Keys(step)
           /\ Enter(step, s).data = s.data
           /\ Enter(step, s).moved = s.moved
           /\ Enter(step, s).destroyed = s.destroyed
           /\ Enter(step, s).payload = s.payload
           /\ Enter(step, s).version = s.version
    BY DEF Enter, Fields

\* A vault grows, but for destroy().
LEMMA VaultGrows ==
    ASSUME VaultInv, Next, reply'.call # "destroy"
    PROVE  DOMAIN tokenToValue \subseteq DOMAIN tokenToValue'
<1>1. CASE AdvanceProfile
    BY <1>1 DEF AdvanceProfile
<1>2. ASSUME NEW e \in ENTITY_KEYS, NEW v \in Values[e], NEW p \in BOOLEAN, Register(e, v, p)
      PROVE  DOMAIN tokenToValue \subseteq DOMAIN tokenToValue'
    BY <1>2 DEF Register, RegisterExisting, OverwriteLatest, AllocateToken, Put, vaultVars
<1>3. ASSUME NEW e, RegisterRefused(e, EmptyValue)
      PROVE  DOMAIN tokenToValue \subseteq DOMAIN tokenToValue'
    BY <1>3 DEF RegisterRefused, vaultVars
<1>4. ~Destroy
    BY DEF Destroy
<1> QED BY <1>1, <1>2, <1>3, <1>4 DEF Next, PreferLatest

\* The index stays a function.
LEMMA IndexStays ==
    ASSUME IndexIsFunction, [Next]_vars
    PROVE  IndexIsFunction'
<1>1. CASE AdvanceProfile
    BY <1>1 DEF AdvanceProfile, IndexIsFunction
<1>2. ASSUME NEW e \in ENTITY_KEYS, NEW v \in Values[e], NEW p \in BOOLEAN, Register(e, v, p)
      PROVE  IndexIsFunction'
    <2>1. CASE RegisterExisting(e, v)
        BY <2>1 DEF RegisterExisting, vaultVars, IndexIsFunction
    <2>2. CASE OverwriteLatest(e, v)
        BY <2>2 DEF OverwriteLatest, Put, IndexIsFunction
    <2>3. CASE AllocateToken(e, v)
        BY <2>3 DEF AllocateToken, Put, IndexIsFunction
    <2> QED BY <1>2, <2>1, <2>2, <2>3 DEF Register
<1>3. ASSUME NEW e, RegisterRefused(e, EmptyValue)
      PROVE  IndexIsFunction'
    BY <1>3 DEF RegisterRefused, vaultVars, IndexIsFunction
<1>4. CASE Destroy
    BY <1>4 DEF Destroy, IndexIsFunction
<1>5. CASE UNCHANGED vars
    BY <1>5 DEF vars, IndexIsFunction
<1> QED BY <1>1, <1>2, <1>3, <1>4, <1>5 DEF Next, PreferLatest

\* The dictionary of values of a vault is sound.
LEMMA VaultValuesSound ==
    ASSUME VaultInv
    PROVE  /\ DOMAIN tokenToValue \subseteq Tokens
           /\ \A t \in DOMAIN tokenToValue : tokenToValue[t] # EmptyValue
           /\ \A t, u \in DOMAIN tokenToValue :
                 t[1] = u[1] /\ Norm(t[1], tokenToValue[t]) = Norm(u[1], tokenToValue[u]) => t = u
<1>1. DOMAIN tokenToValue \subseteq Tokens
    BY DEF VaultInv, TypeOK
<1>2. \A t \in DOMAIN tokenToValue : tokenToValue[t] # EmptyValue
    BY <1>1, KeysAssumption DEF VaultInv, TypeOK, Tokens
<1>3. \A t \in DOMAIN tokenToValue : valueIndex[<<t[1], Norm(t[1], tokenToValue[t])>>] = t
    BY DEF VaultInv, IndexExact
<1> QED BY <1>1, <1>2, <1>3

\* The lists and counters of a vault cover its values.
LEMMA VaultCovers ==
    ASSUME VaultInv, NEW t \in DOMAIN tokenToValue, NEW e \in ENTITY_KEYS, t[1] = e
    PROVE  /\ t[2] \in Nat \ {0}
           /\ t[2] <= entityCounters[e]
           /\ t[2] \in DOMAIN entityToTokens[e] /\ entityToTokens[e][t[2]] = t
           /\ e \in Keys("tokens") /\ e \in Keys("counters")
<1>1. t \in Tokens /\ t = <<e, t[2]>> /\ t[2] \in Nat \ {0}
    BY DEF VaultInv, TypeOK, Tokens
<1>2. t[2] <= entityCounters[e] /\ entityCounters[e] \in Nat
    BY DEF VaultInv, TypeOK, TokensDense
<1>3. entityToTokens[e] = [i \in 1 .. entityCounters[e] |-> <<e, i>>]
    BY DEF VaultInv, TokensDense
<1>4. t[2] \in 1 .. entityCounters[e]
    BY <1>1, <1>2
<1>5. t[2] \in DOMAIN entityToTokens[e] /\ entityToTokens[e][t[2]] = t
    BY <1>1, <1>3, <1>4
<1>6. entityToTokens[e] # <<>> /\ entityCounters[e] > 0
    BY <1>1, <1>2, <1>5
<1> QED BY <1>1, <1>2, <1>5, <1>6 DEF Keys

--------------------------------------------------------------------------------
(* The steps of a snapshot keep the invariant.                                *)

\* The parts that speak of the vault alone, when it does not change.
LEMMA VaultUnchanged ==
    ASSUME VaultInv, IndexIsFunction, UNCHANGED vaultVars
    PROVE  VaultInv' /\ IndexIsFunction'
BY DEF vaultVars, VaultInv, TypeOK, TokensDense, IndexExact, IndexIsFunction

\* No row: nothing has been read.
LEMMA NoSnapFacts ==
    /\ DOMAIN NoSnap = Fields
    /\ NoSnap.step = "none" /\ NoSnap.todo = {} /\ NoSnap.moved = 0 /\ NoSnap.destroyed = FALSE
    /\ NoSnap.data = NoData
    /\ DOMAIN NoData = DataFields
    /\ NoData.tokens = NoLists /\ NoData.counters = NoCounters /\ NoData.legacy = {}
    /\ NoLists \in [ENTITY_KEYS -> Seq(Tokens)] /\ NoCounters \in [ENTITY_KEYS -> Nat]
<1>1. NoLists \in [ENTITY_KEYS -> Seq(Tokens)] /\ NoCounters \in [ENTITY_KEYS -> Nat]
    BY DEF NoLists, NoCounters
<1>2. /\ DOMAIN NoData = DataFields
      /\ NoData.tokens = NoLists /\ NoData.counters = NoCounters /\ NoData.legacy = {}
    BY DEF NoData, DataFields
<1>3. /\ DOMAIN NoSnap = Fields
      /\ NoSnap.step = "none" /\ NoSnap.todo = {} /\ NoSnap.moved = 0
    BY DEF NoSnap, Fields
<1>4. NoSnap.destroyed = FALSE /\ NoSnap.data = NoData
    BY DEF NoSnap
<1> QED BY <1>1, <1>2, <1>3, <1>4

\* A state with no row, or with a failed one, satisfies the invariant.
LEMMA NoRowKeeps ==
    ASSUME snap = NoSnap \/ snap = [NoSnap EXCEPT !.step = "failed"]
    PROVE  SnapShape /\ TornInv /\ CleanInv /\ RowInv
<1>1. /\ DOMAIN snap = Fields
      /\ snap.step \in {"none", "failed"}
      /\ snap.todo = {} /\ snap.moved = 0 /\ snap.data = NoData
    BY NoSnapFacts DEF Fields
<1>2. SnapShape
    BY <1>1, NoSnapFacts DEF SnapShape, Steps
<1> QED BY <1>1, <1>2 DEF TornInv, CleanInv, RowInv, HasValues, HasLists, HasCounters

\* The iteration over the profile map is complete: every number is below the
\* highest counter.
LEMMA LegacyComplete ==
    ASSUME VaultInv
    PROVE  LegacyMap = DOMAIN tokenToValue
<1> DEFINE C == {entityCounters[e] : e \in ENTITY_KEYS}
<1>1. C \in SUBSET Nat
    BY DEF VaultInv, TypeOK
<1>2. IsFiniteSet(C \cup {0})
    <2>1. IsFiniteSet(C)
        <3>1. entityCounters \in [ENTITY_KEYS -> C]
            BY DEF VaultInv, TypeOK
        <3>2. \A c \in C : \E e \in ENTITY_KEYS : entityCounters[e] = c
            OBVIOUS
        <3> HIDE DEF C
        <3>3. entityCounters \in Surjection(ENTITY_KEYS, C)
            BY <3>1, <3>2 DEF Surjection
        <3> QED BY <3>3, SnapshotAssumption, FS_Surjection
    <2> HIDE DEF C
    <2> QED BY <2>1, FS_AddElement
<1>3. PICK n \in C \cup {0} : \A m \in C \cup {0} : m <= n
    <2> HIDE DEF C
    <2>1. C \cup {0} \in SUBSET Nat /\ C \cup {0} # {}
        BY <1>1
    <2> QED BY <1>2, <2>1, GreatestNatural
<1>7. MaxCounter = Highest(C)
    BY DEF MaxCounter
<1> HIDE DEF C
<1>4. \A m \in C : m <= MaxCounter
    BY <1>3, <1>7 DEF Highest
<1>5. MaxCounter \in Nat
    <2>1. Highest(C) \in C \cup {0}
        BY <1>3 DEF Highest
    <2>2. C \cup {0} \subseteq Nat
        BY <1>1
    <2> QED BY <1>7, <2>1, <2>2
<1> USE DEF C
<1>6. ASSUME NEW t \in DOMAIN tokenToValue
      PROVE  t[2] <= MaxCounter
    <2>1. t[1] \in ENTITY_KEYS
        BY DEF VaultInv, TypeOK, Tokens
    <2>2. t[2] \in Nat /\ t[2] <= entityCounters[t[1]]
        BY <2>1, VaultCovers
    <2>3. entityCounters[t[1]] \in Nat /\ entityCounters[t[1]] <= MaxCounter
        BY <1>4, <2>1 DEF VaultInv, TypeOK
    <2> QED BY <1>5, <2>2, <2>3
<1> QED BY <1>6 DEF LegacyMap

\* Beginning a snapshot keeps the invariant: nothing is read yet but, with no
\* profile map, the iteration that finds nothing in it is over at once.
LEMMA SnapBeginKeeps ==
    ASSUME SnapInv, SnapBegin
    PROVE  SnapInv'
<1> DEFINE d == [NoData EXCEPT !.legacy = LegacyMap]
           s == [NoSnap EXCEPT !.data.legacy = LegacyMap]
<1>1. /\ DOMAIN s = Fields /\ s.moved = 0 /\ s.destroyed = FALSE /\ s.data = d
    BY NoSnapFacts DEF Fields
<1>2. /\ DOMAIN d = DataFields
      /\ d.tokens = NoLists /\ d.counters = NoCounters /\ d.legacy = LegacyMap
    BY NoSnapFacts DEF DataFields
<1> HIDE DEF d, s
<1>3. snap' = Enter("values", s) /\ UNCHANGED vaultVars
    BY AfterFacts DEF SnapBegin, s
<1>4. /\ DOMAIN snap' = Fields
      /\ snap'.step = "values" /\ snap'.todo = Keys("values")
      /\ snap'.data = d /\ snap'.moved = 0 /\ snap'.destroyed = FALSE
    BY <1>1, <1>3, EnterFacts
<1>5. VaultInv' /\ IndexIsFunction' /\ DOMAIN tokenToValue' = DOMAIN tokenToValue
    BY <1>3, VaultUnchanged DEF SnapInv, vaultVars
<1>6. LegacyMap = DOMAIN tokenToValue
    BY LegacyComplete DEF SnapInv
<1>7. SnapShape'
    BY <1>2, <1>4, NoSnapFacts DEF SnapShape, Steps, Keys
<1>8. TornInv'
    BY <1>2, <1>4, <1>5, <1>6 DEF TornInv, HasValues, HasLists, HasCounters
<1>9. CleanInv'
    BY <1>2, <1>4, <1>5, <1>6 DEF CleanInv, HasValues, HasLists, HasCounters
<1>10. RowInv'
    BY <1>2, <1>4 DEF RowInv
<1> QED BY <1>5, <1>7, <1>8, <1>9, <1>10 DEF SnapInv

\* The keys that the iteration over the lists leaves out have no value; a vault
\* that did not change since the values were read lists what they hold.
LEMMA ReadValuesKeeps ==
    ASSUME SnapInv, ReadValues
    PROVE  SnapInv'
<1> DEFINE s == [snap EXCEPT !.data.values = tokenToValue, !.data.profile = currentProfile]
           d == [snap.data EXCEPT !.values = tokenToValue, !.profile = currentProfile]
<1>0. SnapShape /\ snap.step = "values"
    BY DEF SnapInv, ReadValues
<1>1. /\ DOMAIN s = Fields /\ s.moved = snap.moved /\ s.destroyed = snap.destroyed
      /\ s.data = d
    BY <1>0 DEF SnapShape, Fields, DataFields
<1>2. /\ DOMAIN d = DataFields
      /\ d.values = tokenToValue /\ d.profile = currentProfile
      /\ d.tokens = NoLists /\ d.counters = NoCounters /\ d.legacy = snap.data.legacy
    BY <1>0 DEF SnapShape, DataFields, SnapInv, RowInv
<1>3. snap' = Enter("tokens", s) /\ UNCHANGED vaultVars
    BY AfterFacts DEF ReadValues, s, vars, vaultVars
<1> HIDE DEF d, s
<1>4. /\ DOMAIN snap' = Fields
      /\ snap'.step = "tokens" /\ snap'.todo = Keys("tokens")
      /\ snap'.data = d /\ snap'.moved = snap.moved /\ snap'.destroyed = snap.destroyed
    BY <1>1, <1>3, EnterFacts
<1>5. VaultInv' /\ IndexIsFunction'
    BY <1>3, VaultUnchanged DEF SnapInv
<1>6. tokenToValue' = tokenToValue /\ entityToTokens' = entityToTokens
      /\ currentProfile' = currentProfile
    BY <1>3 DEF vaultVars
<1>7. SnapShape'
    BY <1>0, <1>2, <1>4, NoSnapFacts DEF SnapShape, Steps, Keys
<1>8. TornInv'
    <2> SUFFICES ASSUME snap.destroyed = FALSE
                 PROVE  /\ ValuesSound' /\ d.legacy \subseteq DOMAIN tokenToValue
                        /\ \A e \in ENTITY_KEYS \ Keys("tokens") : Lists(e)'
        BY <1>2, <1>4, <1>6 DEF TornInv, HasLists, HasCounters
    <2>1. d.legacy \subseteq DOMAIN tokenToValue
        BY <1>0, <1>2 DEF SnapInv, TornInv
    <2>2. ValuesSound'
        BY <1>2, <1>4, VaultValuesSound DEF SnapInv, ValuesSound
    <2>3. ASSUME NEW e \in ENTITY_KEYS \ Keys("tokens")
          PROVE  Lists(e)'
        <3>1. ~\E t \in DOMAIN tokenToValue : t[1] = e
            BY VaultCovers DEF SnapInv
        <3> QED BY <1>2, <1>4, <3>1 DEF Lists
    <2> QED BY <2>1, <2>2, <2>3
<1>9. CleanInv'
    <2> SUFFICES ASSUME snap.moved = 0
                 PROVE  /\ d.legacy = DOMAIN tokenToValue
                        /\ \A e \in ENTITY_KEYS \ Keys("tokens") : NoLists[e] = entityToTokens[e]
        BY <1>2, <1>4, <1>6 DEF CleanInv, HasLists, HasCounters
    <2>1. d.legacy = DOMAIN tokenToValue
        BY <1>0, <1>2 DEF SnapInv, CleanInv
    <2>2. \A e \in ENTITY_KEYS \ Keys("tokens") : NoLists[e] = entityToTokens[e]
        BY DEF Keys, NoLists
    <2> QED BY <2>1, <2>2
<1>10. RowInv'
    BY <1>2, <1>4 DEF RowInv
<1> QED BY <1>5, <1>7, <1>8, <1>9, <1>10 DEF SnapInv

\* One key of the lists or of the counters is read: it covers the values, and is
\* the vault's own if nothing changed.
LEMMA ReadKeyKeeps ==
    ASSUME SnapInv, NEW e \in ENTITY_KEYS, ReadKey(e)
    PROVE  SnapInv'
<1> DEFINE list == IF snap.step = "tokens" THEN entityToTokens[e] ELSE snap.data.tokens[e]
           count == IF snap.step = "counters" THEN entityCounters[e] ELSE snap.data.counters[e]
<1>0. SnapShape /\ snap.step \in {"tokens", "counters"} /\ e \in snap.todo
    BY DEF SnapInv, ReadKey
<1>1. /\ DOMAIN snap' = Fields
      /\ snap'.step = snap.step /\ snap'.todo = snap.todo \ {e}
      /\ snap'.moved = snap.moved /\ snap'.destroyed = snap.destroyed
    BY <1>0 DEF ReadKey, SnapShape, Fields
<1>2. /\ DOMAIN snap'.data = DataFields
      /\ snap'.data.values = snap.data.values /\ snap'.data.profile = snap.data.profile
      /\ snap'.data.legacy = snap.data.legacy
      /\ snap'.data.tokens = [snap.data.tokens EXCEPT ![e] = list]
      /\ snap'.data.counters = [snap.data.counters EXCEPT ![e] = count]
    BY <1>0 DEF ReadKey, SnapShape, Fields, DataFields
<1>3. UNCHANGED vaultVars
    BY DEF ReadKey, vars, vaultVars
<1>4. list \in Seq(Tokens) /\ count \in Nat
    BY <1>0 DEF SnapInv, SnapShape, VaultInv, TypeOK
<1>5. /\ \A f \in ENTITY_KEYS : snap'.data.tokens[f] = IF f = e THEN list ELSE snap.data.tokens[f]
      /\ \A f \in ENTITY_KEYS : snap'.data.counters[f] = IF f = e THEN count ELSE snap.data.counters[f]
      /\ snap'.data.tokens \in [ENTITY_KEYS -> Seq(Tokens)]
      /\ snap'.data.counters \in [ENTITY_KEYS -> Nat]
    BY <1>0, <1>2, <1>4 DEF SnapShape
<1>6. VaultInv' /\ IndexIsFunction'
    BY <1>3, VaultUnchanged DEF SnapInv
<1>7. tokenToValue' = tokenToValue /\ entityToTokens' = entityToTokens
      /\ entityCounters' = entityCounters /\ currentProfile' = currentProfile
    BY <1>3 DEF vaultVars
<1>8. SnapShape'
    BY <1>0, <1>1, <1>2, <1>5 DEF SnapShape
<1>9. TornInv'
    <2> SUFFICES ASSUME snap.destroyed = FALSE
                 PROVE  TornInv'
        BY <1>1 DEF TornInv
    <2>1. ValuesSound' /\ snap'.data.legacy \subseteq DOMAIN snap'.data.values
          /\ DOMAIN snap'.data.values \subseteq DOMAIN tokenToValue'
        BY <1>0, <1>2, <1>7 DEF SnapInv, TornInv, HasValues, ValuesSound
    <2>2. CASE snap.step = "tokens"
        <3>1. Lists(e)'
            BY <1>2, <1>5, <1>7, <2>1, <2>2, VaultCovers DEF SnapInv, Lists
        <3>2. ASSUME NEW f \in ENTITY_KEYS \ snap.todo
              PROVE  Lists(f)'
            <4>1. Lists(f) /\ f # e
                BY <1>0, <2>2 DEF SnapInv, TornInv
            <4> QED BY <1>2, <1>5, <4>1 DEF Lists
        <3>3. \A f \in ENTITY_KEYS \ snap'.todo : Lists(f)'
            BY <1>1, <3>1, <3>2
        <3> QED BY <1>1, <2>1, <2>2, <3>3 DEF TornInv, HasValues, HasLists, HasCounters
    <2>3. CASE snap.step = "counters"
        <3>1. Counts(e)'
            BY <1>2, <1>5, <1>7, <2>1, <2>3, VaultCovers DEF SnapInv, Counts
        <3>2. ASSUME NEW f \in ENTITY_KEYS \ snap.todo
              PROVE  Counts(f)'
            <4>1. Counts(f) /\ f # e
                BY <1>0, <2>3 DEF SnapInv, TornInv
            <4> QED BY <1>2, <1>5, <4>1 DEF Counts
        <3>3. \A f \in ENTITY_KEYS \ snap'.todo : Counts(f)'
            BY <1>1, <3>1, <3>2
        <3>4. ASSUME NEW f \in ENTITY_KEYS
              PROVE  Lists(f)'
            <4>1. Lists(f)
                BY <2>3 DEF SnapInv, TornInv, HasLists
            <4>2. snap'.data.tokens[f] = snap.data.tokens[f]
                BY <1>5, <2>3
            <4> QED BY <1>2, <4>1, <4>2 DEF Lists
        <3> QED BY <1>1, <2>1, <2>3, <3>3, <3>4 DEF TornInv, HasValues, HasLists, HasCounters
    <2> QED BY <1>0, <2>2, <2>3
<1>10. CleanInv'
    <2> SUFFICES ASSUME snap.moved = 0
                 PROVE  CleanInv'
        BY <1>1 DEF CleanInv
    <2>1. /\ snap'.data.legacy = DOMAIN tokenToValue'
          /\ snap'.data.values = tokenToValue' /\ snap'.data.profile = currentProfile'
        BY <1>0, <1>2, <1>7 DEF SnapInv, CleanInv, HasValues
    <2>2. CASE snap.step = "tokens"
        <3>1. \A f \in ENTITY_KEYS \ snap'.todo : snap'.data.tokens[f] = entityToTokens'[f]
            BY <1>1, <1>5, <1>7, <2>2 DEF SnapInv, CleanInv
        <3> QED BY <1>1, <2>1, <2>2, <3>1 DEF CleanInv, HasValues, HasLists, HasCounters
    <2>3. CASE snap.step = "counters"
        <3>1. \A f \in ENTITY_KEYS \ snap'.todo : snap'.data.counters[f] = entityCounters'[f]
            BY <1>1, <1>5, <1>7, <2>3 DEF SnapInv, CleanInv
        <3>2. snap'.data.tokens = entityToTokens'
            <4>1. snap.data.tokens = entityToTokens
                BY <2>3 DEF SnapInv, CleanInv, HasLists
            <4>2. snap'.data.tokens = snap.data.tokens
                BY <1>0, <1>2, <2>3 DEF SnapShape
            <4> QED BY <1>7, <4>1, <4>2
        <3> QED BY <1>1, <2>1, <2>3, <3>1, <3>2 DEF CleanInv, HasValues, HasLists, HasCounters
    <2> QED BY <1>0, <2>2, <2>3
<1>11. RowInv'
    <2>1. snap.step = "tokens" => snap'.data.counters = NoCounters
        BY <1>0, <1>2 DEF SnapShape, SnapInv, RowInv
    <2> QED BY <1>0, <1>1, <2>1 DEF RowInv
<1> QED BY <1>6, <1>8, <1>9, <1>10, <1>11 DEF SnapInv

\* An iteration ends over the keys it began with: those it never had are empty
\* and cover nothing.
LEMMA EndIterationKeeps ==
    ASSUME SnapInv, EndIteration
    PROVE  SnapInv'
<1>0. SnapShape /\ snap.step \in {"tokens", "counters"} /\ snap.todo = {}
    BY DEF SnapInv, EndIteration
<1>1. snap' = Enter(After(snap.step), snap) /\ UNCHANGED vaultVars
    BY DEF EndIteration, vars, vaultVars
<1>2. /\ DOMAIN snap' = Fields
      /\ snap'.step = After(snap.step) /\ snap'.todo = Keys(After(snap.step))
      /\ snap'.data = snap.data /\ snap'.moved = snap.moved /\ snap'.destroyed = snap.destroyed
    BY <1>0, <1>1, EnterFacts DEF SnapShape
<1>3. VaultInv' /\ IndexIsFunction'
    BY <1>1, VaultUnchanged DEF SnapInv
<1>4. tokenToValue' = tokenToValue /\ entityToTokens' = entityToTokens
      /\ entityCounters' = entityCounters /\ currentProfile' = currentProfile
    BY <1>1 DEF vaultVars
<1>5. snap'.step = IF snap.step = "tokens" THEN "counters" ELSE "built"
    BY <1>0, <1>2, AfterFacts
<1>6. SnapShape'
    BY <1>0, <1>2, <1>5 DEF SnapShape, Steps, Keys
<1>7. TornInv'
    <2> SUFFICES ASSUME snap.destroyed = FALSE
                 PROVE  TornInv'
        BY <1>2 DEF TornInv
    <2>1. ValuesSound' /\ snap'.data.legacy \subseteq DOMAIN snap'.data.values
          /\ DOMAIN snap'.data.values \subseteq DOMAIN tokenToValue'
        BY <1>0, <1>2, <1>4 DEF SnapInv, TornInv, HasValues, ValuesSound
    <2>2. ASSUME NEW e \in ENTITY_KEYS
          PROVE  Lists(e)'
        <3>1. Lists(e)
            BY <1>0 DEF SnapInv, TornInv, HasLists
        <3> QED BY <1>2, <3>1 DEF Lists
    <2>3. CASE snap.step = "tokens"
        <3>1. ASSUME NEW e \in ENTITY_KEYS \ Keys("counters")
              PROVE  Counts(e)'
            <4>1. ~\E t \in DOMAIN tokenToValue : t[1] = e
                BY VaultCovers DEF SnapInv
            <4> QED BY <1>4, <2>1, <4>1 DEF Counts
        <3>2. \A e \in ENTITY_KEYS \ snap'.todo : Counts(e)'
            BY <1>2, <2>3, <3>1, AfterFacts
        <3> QED BY <1>5, <2>1, <2>2, <2>3, <3>2 DEF TornInv, HasValues, HasLists, HasCounters
    <2>4. CASE snap.step = "counters"
        <3>1. ASSUME NEW e \in ENTITY_KEYS
              PROVE  Counts(e)'
            <4>1. Counts(e)
                BY <1>0, <2>4 DEF SnapInv, TornInv
            <4> QED BY <1>2, <4>1 DEF Counts
        <3> QED BY <1>5, <2>1, <2>2, <2>4, <3>1 DEF TornInv, HasValues, HasLists, HasCounters
    <2> QED BY <1>0, <2>3, <2>4
<1>8. CleanInv'
    <2> SUFFICES ASSUME snap.moved = 0
                 PROVE  CleanInv'
        BY <1>2 DEF CleanInv
    <2>1. /\ snap'.data.legacy = DOMAIN tokenToValue'
          /\ snap'.data.values = tokenToValue' /\ snap'.data.profile = currentProfile'
        BY <1>0, <1>2, <1>4 DEF SnapInv, CleanInv, HasValues
    <2>2. snap'.data.tokens = entityToTokens'
        <3>1. CASE snap.step = "tokens"
            <4>1. \A e \in ENTITY_KEYS : snap.data.tokens[e] = entityToTokens[e]
                BY <1>0, <3>1 DEF SnapInv, CleanInv
            <4> QED BY <1>0, <1>2, <1>4, <4>1 DEF SnapShape, SnapInv, VaultInv, TypeOK
        <3>2. CASE snap.step = "counters"
            BY <1>2, <1>4, <3>2 DEF SnapInv, CleanInv, HasLists
        <3> QED BY <1>0, <3>1, <3>2
    <2>3. CASE snap.step = "tokens"
        <3>1. \A e \in ENTITY_KEYS \ Keys("counters") : entityCounters[e] = 0
            BY DEF Keys, SnapInv, VaultInv, TypeOK
        <3>2. snap.data.counters = NoCounters
            BY <2>3 DEF SnapInv, RowInv
        <3>3. \A e \in ENTITY_KEYS \ snap'.todo : snap'.data.counters[e] = entityCounters'[e]
            BY <1>2, <1>4, <2>3, <3>1, <3>2, AfterFacts DEF NoCounters
        <3> QED BY <1>5, <2>1, <2>2, <2>3, <3>3 DEF CleanInv, HasValues, HasLists, HasCounters
    <2>4. CASE snap.step = "counters"
        <3>1. \A e \in ENTITY_KEYS : snap.data.counters[e] = entityCounters[e]
            BY <1>0, <2>4 DEF SnapInv, CleanInv
        <3>2. snap'.data.counters = entityCounters'
            BY <1>0, <1>2, <1>4, <3>1 DEF SnapShape, SnapInv, VaultInv, TypeOK
        <3> QED BY <1>5, <2>1, <2>2, <2>4, <3>2 DEF CleanInv, HasValues, HasLists, HasCounters
    <2> QED BY <1>0, <2>3, <2>4
<1>9. RowInv'
    BY <1>5 DEF RowInv
<1> QED BY <1>3, <1>6, <1>7, <1>8, <1>9 DEF SnapInv

\* Storing the row, and what may happen to it then, leave what was read alone.
LEMMA RowStepKeeps ==
    ASSUME SnapInv, Save \/ RotateKey \/ Expire
    PROVE  SnapInv'
<1>0. SnapShape /\ snap.step \in {"built", "stored"} /\ UNCHANGED vaultVars
    BY DEF SnapInv, Save, RotateKey, Expire, vars, vaultVars
<1>1. /\ DOMAIN snap' = Fields
      /\ snap'.step = "stored" /\ snap'.todo = snap.todo
      /\ snap'.data = snap.data /\ snap'.moved = snap.moved /\ snap'.destroyed = snap.destroyed
    <2>1. CASE Save
        BY <1>0, <2>1 DEF Save, SnapShape, Fields
    <2>2. CASE RotateKey
        BY <1>0, <2>2 DEF RotateKey, SnapShape
    <2>3. CASE Expire
        BY <1>0, <2>3 DEF Expire, SnapShape, Fields
    <2> QED BY <2>1, <2>2, <2>3
<1>2. snap'.payload = Encrypt(snap'.data, snap'.version)
    <2>1. CASE Save
        BY <1>0, <2>1 DEF Save, SnapShape, Fields
    <2>2. CASE RotateKey
        BY <1>0, <2>2 DEF RotateKey, SnapInv, RowInv
    <2>3. CASE Expire
        BY <1>0, <2>3 DEF Expire, SnapShape, Fields, SnapInv, RowInv
    <2> QED BY <2>1, <2>2, <2>3
<1>3. VaultInv' /\ IndexIsFunction'
    BY <1>0, VaultUnchanged DEF SnapInv
<1>4. SnapShape'
    BY <1>0, <1>1 DEF SnapShape, Steps
<1>5. TornInv'
    BY <1>0, <1>1 DEF SnapInv, TornInv, HasValues, HasLists, HasCounters, ValuesSound, Lists, Counts
<1>6. CleanInv'
    BY <1>0, <1>1 DEF SnapInv, CleanInv, HasValues, HasLists, HasCounters, vaultVars
<1>7. RowInv'
    BY <1>1, <1>2 DEF RowInv
<1> QED BY <1>3, <1>4, <1>5, <1>6, <1>7 DEF SnapInv

\* A request of another thread between two reads: the vault grows, or is destroyed.
LEMMA RequestDuringKeeps ==
    ASSUME SnapInv, RequestDuring
    PROVE  SnapInv'
<1>0. SnapShape /\ snap.step \in {"values", "tokens", "counters"} /\ Next
    BY DEF SnapInv, RequestDuring
<1>1. /\ DOMAIN snap' = Fields
      /\ snap'.step = snap.step /\ snap'.todo = snap.todo /\ snap'.data = snap.data
      /\ snap'.moved = snap.moved + 1
    BY <1>0 DEF RequestDuring, SnapShape, Fields
<1>2. snap'.destroyed = (snap.destroyed \/ reply'.call = "destroy")
    BY <1>0 DEF RequestDuring, SnapShape, Fields
<1>3. VaultInv' /\ IndexIsFunction'
    BY <1>0, VaultStep, IndexStays DEF SnapInv
<1>4. SnapShape'
    BY <1>0, <1>1 DEF SnapShape
<1>5. TornInv'
    <2> SUFFICES ASSUME snap'.destroyed = FALSE
                 PROVE  TornInv'
        BY DEF TornInv
    <2>1. ~snap.destroyed /\ reply'.call # "destroy"
        BY <1>2
    <2>2. DOMAIN tokenToValue \subseteq DOMAIN tokenToValue'
        BY <1>0, <2>1, VaultGrows DEF SnapInv
    <2> QED BY <1>0, <1>1, <2>1, <2>2
            DEF SnapInv, TornInv, HasValues, HasLists, HasCounters, ValuesSound, Lists, Counts
<1>6. CleanInv'
    BY <1>0, <1>1 DEF SnapShape, CleanInv
<1>7. RowInv'
    BY <1>0, <1>1 DEF SnapInv, RowInv
<1> QED BY <1>3, <1>4, <1>5, <1>6, <1>7 DEF SnapInv

\* Every step keeps the invariant.
LEMMA SnapStep ==
    ASSUME SnapInv, [SnapshotNext]_<<vars, snapVars>>
    PROVE  SnapInv'
<1>1. CASE RequestDuring
    BY <1>1, RequestDuringKeeps
<1>2. CASE SnapBegin
    BY <1>2, SnapBeginKeeps
<1>3. CASE ReadValues
    BY <1>3, ReadValuesKeeps
<1>4. CASE \E e \in ENTITY_KEYS : ReadKey(e)
    BY <1>4, ReadKeyKeeps
<1>5. CASE EndIteration
    BY <1>5, EndIterationKeeps
<1>6. CASE Save \/ RotateKey \/ Expire
    BY <1>6, RowStepKeeps
<1>7. CASE RequestOutside \/ SnapFails \/ DeleteRow
    <2>1. snap' = NoSnap \/ snap' = [NoSnap EXCEPT !.step = "failed"]
        BY <1>7 DEF RequestOutside, SnapFails, DeleteRow
    <2>2. Next \/ UNCHANGED vaultVars
        BY <1>7 DEF RequestOutside, SnapFails, DeleteRow, vars, vaultVars
    <2>3. VaultInv' /\ IndexIsFunction'
        BY <2>2, VaultStep, IndexStays, VaultUnchanged DEF SnapInv
    <2>4. (snap = NoSnap \/ snap = [NoSnap EXCEPT !.step = "failed"]
              => SnapShape /\ TornInv /\ CleanInv /\ RowInv)'
        BY NoRowKeeps, PTL
    <2>5. (snap = NoSnap \/ snap = [NoSnap EXCEPT !.step = "failed"])'
        BY <2>1 DEF NoSnap, NoData, NoLists, NoCounters, None
    <2> QED BY <2>3, <2>4, <2>5 DEF SnapInv
<1>8. CASE UNCHANGED <<vars, snapVars>>
    <2>1. UNCHANGED vaultVars /\ snap' = snap
        BY <1>8 DEF vars, snapVars, vaultVars
    <2>2. VaultInv' /\ IndexIsFunction'
        BY <2>1, VaultUnchanged DEF SnapInv
    <2> QED BY <2>1, <2>2 DEF SnapInv, SnapShape, TornInv, CleanInv, RowInv, HasValues, HasLists,
            HasCounters, ValuesSound, Lists, Counts, vaultVars
<1> QED BY <1>1, <1>2, <1>3, <1>4, <1>5, <1>6, <1>7, <1>8 DEF SnapshotNext

\* In every reachable state the row in the making is what was read of the vault.
THEOREM SnapInvariant == SnapshotSpec => []SnapInv
<1>1. SnapshotInit => SnapInv
    <2> SUFFICES ASSUME SnapshotInit PROVE SnapInv
        OBVIOUS
    <2>1. VaultInv
        BY EmptyVault DEF SnapshotInit, Init, Empty
    <2>2. IndexIsFunction
        BY DEF SnapshotInit, Init, IndexIsFunction
    <2>3. SnapShape /\ TornInv /\ CleanInv /\ RowInv
        BY NoRowKeeps DEF SnapshotInit
    <2> QED BY <2>1, <2>2, <2>3 DEF SnapInv
<1>2. SnapInv /\ [SnapshotNext]_<<vars, snapVars>> => SnapInv'
    BY SnapStep
<1> QED BY <1>1, <1>2, PTL DEF SnapshotSpec

--------------------------------------------------------------------------------
(* What from_snapshot makes of a row.                                         *)

\* The lists as they are stored decide, if any of them has a token.
LEMMA TokensAsStored ==
    ASSUME NEW data, NEW e \in ENTITY_KEYS, data.tokens[e] # <<>>
    PROVE  RestoredTokens(data) = data.tokens
<1>1. data.tokens # NoLists
    BY DEF NoLists
<1> QED BY <1>1 DEF RestoredTokens

\* The counters as they are stored decide, if any of them is there.
LEMMA CountersAsStored ==
    ASSUME NEW data, NEW e \in ENTITY_KEYS, data.counters[e] # 0
    PROVE  RestoredCounters(data) = data.counters
<1>1. data.counters # NoCounters
    BY DEF NoCounters
<1> QED BY <1>1 DEF RestoredCounters

\* Where no two values of a key normalize alike, the index finds each token.
LEMMA RestoredIndexFact ==
    ASSUME NEW values, NEW data, data.values = values,
           \A t \in DOMAIN values : values[t] # EmptyValue,
           \A t, u \in DOMAIN values :
              t[1] = u[1] /\ Norm(t[1], values[t]) = Norm(u[1], values[u]) => t = u
    PROVE  /\ \A k : k \in DOMAIN RestoredIndex(data) <=>
                    \E t \in DOMAIN values : k = <<t[1], Norm(t[1], values[t])>>
           /\ \A t \in DOMAIN values : RestoredIndex(data)[<<t[1], Norm(t[1], values[t])>>] = t
           /\ \A f : f = [k \in DOMAIN f |-> f[k]]
                      /\ DOMAIN f = DOMAIN RestoredIndex(data)
                      /\ (\A k \in DOMAIN f : f[k] = RestoredIndex(data)[k])
                  => f = RestoredIndex(data)
<1> DEFINE entry(t) == <<t[1], Norm(t[1], values[t])>>
           D == DOMAIN values
           R == [k \in {entry(t) : t \in D} |-> CHOOSE t \in D : entry(t) = k]
<1>1. {t \in DOMAIN values : values[t] # EmptyValue} = D
    OBVIOUS
<1>2. RestoredIndex(data) = R
    BY <1>1 DEF RestoredIndex
<1>3. ASSUME NEW t \in D
      PROVE  R[entry(t)] = t
    <2>1. \A u \in D : entry(u) = entry(t) => u = t
        OBVIOUS
    <2>2. (CHOOSE u \in D : entry(u) = entry(t)) = t
        BY <2>1
    <2>3. entry(t) \in {entry(u) : u \in D}
        OBVIOUS
    <2> QED BY <2>2, <2>3
<1>4. \A k : k \in DOMAIN R <=> \E t \in D : k = entry(t)
    OBVIOUS
<1>5. ASSUME NEW f, f = [k \in DOMAIN f |-> f[k]], DOMAIN f = DOMAIN R,
             \A k \in DOMAIN f : f[k] = R[k]
      PROVE  f = R
    <2>1. R = [k \in DOMAIN R |-> R[k]]
        OBVIOUS
    <2> HIDE DEF R
    <2> QED BY <1>5, <2>1
<1> HIDE DEF R
<1> QED BY <1>2, <1>3, <1>4, <1>5

\* The tokens of a key numbered 1..c are listed by number.
LEMMA ByNumberFact ==
    ASSUME NEW T, NEW e, NEW c \in Nat, Numbers(T, e) = 1 .. c
    PROVE  ByNumber(T, e) = [i \in 1 .. c |-> <<e, i>>]
<1> DEFINE rank(n) == Cardinality({m \in Numbers(T, e) : m <= n})
<1>1. \A n \in 1 .. c : rank(n) = n
    <2> SUFFICES ASSUME NEW n \in 1 .. c PROVE rank(n) = n
        OBVIOUS
    <2>1. {m \in Numbers(T, e) : m <= n} = 1 .. n
        OBVIOUS
    <2>2. Cardinality(1 .. n) = n
        BY FS_Interval
    <2> QED BY <2>1, <2>2
<1>2. Cardinality(Numbers(T, e)) = c
    BY FS_Interval
<1> HIDE DEF rank
<1>3. \A i \in 1 .. c : (CHOOSE n \in Numbers(T, e) : rank(n) = i) = i
    <2> SUFFICES ASSUME NEW i \in 1 .. c
                 PROVE  (CHOOSE n \in Numbers(T, e) : rank(n) = i) = i
        OBVIOUS
    <2>1. i \in Numbers(T, e) /\ rank(i) = i
        BY <1>1
    <2>2. \A n \in Numbers(T, e) : rank(n) = i => n = i
        BY <1>1
    <2> QED BY <2>1, <2>2
<1>4. ByNumber(T, e) = [i \in 1 .. Cardinality(Numbers(T, e)) |->
                            <<e, CHOOSE n \in Numbers(T, e) : rank(n) = i>>]
    BY DEF ByNumber, rank
<1> QED BY <1>2, <1>3, <1>4

\* The numbers up to c have c as their highest.
LEMMA HighestFact ==
    ASSUME NEW c \in Nat
    PROVE  Highest(1 .. c) = c
<1>1. c \in 1 .. c \cup {0} /\ \A m \in 1 .. c : m <= c
    OBVIOUS
<1>2. \A n \in 1 .. c \cup {0} : (\A m \in 1 .. c : m <= n) => n = c
    OBVIOUS
<1>3. (CHOOSE n \in 1 .. c \cup {0} : \A m \in 1 .. c : m <= n) = c
    BY <1>1, <1>2
<1> QED BY <1>3 DEF Highest

\* However the reads fell between the registrations, a row numbers on safely.
LEMMA TornFact ==
    ASSUME SnapInv
    PROVE  TornRowSafe
<1> SUFFICES ASSUME HasCounters, ~snap.destroyed
             PROVE  TornRowSafe
    BY DEF TornRowSafe, HasCounters
<1> DEFINE data == snap.data
           vault == FromSnapshot(data)
<1>1. ValuesSound /\ data.legacy \subseteq DOMAIN data.values
    BY DEF SnapInv, TornInv, HasValues, HasCounters
<1>2. /\ vault.values = data.values /\ vault.tokens = RestoredTokens(data)
      /\ vault.counters = RestoredCounters(data) /\ vault.index = RestoredIndex(data)
    BY DEF FromSnapshot
<1>3. ASSUME NEW t \in DOMAIN data.values
      PROVE  /\ t[2] <= RestoredCounters(data)[t[1]]
             /\ RestoredTokens(data)[t[1]][t[2]] = t
             /\ RestoredIndex(data)[<<t[1], Norm(t[1], data.values[t])>>] = t
    <2>1. t[1] \in ENTITY_KEYS /\ t[2] \in Nat \ {0}
        BY <1>1 DEF ValuesSound, Tokens
    <2>2. Lists(t[1]) /\ Counts(t[1])
        BY <2>1 DEF SnapInv, TornInv, HasLists, HasCounters
    <2>3. t[2] \in DOMAIN data.tokens[t[1]] /\ data.tokens[t[1]][t[2]] = t
        BY <2>2 DEF Lists
    <2>4. t[2] <= data.counters[t[1]] /\ data.counters[t[1]] \in Nat
        BY <2>1, <2>2 DEF Counts, SnapInv, SnapShape
    <2>5. data.tokens[t[1]] # <<>>
        BY <2>3
    <2>6. data.counters[t[1]] # 0
        BY <2>1, <2>4
    <2>7. RestoredTokens(data) = data.tokens
        BY <2>1, <2>5, TokensAsStored
    <2>8. RestoredCounters(data) = data.counters
        BY <2>1, <2>6, CountersAsStored
    <2>9. RestoredIndex(data)[<<t[1], Norm(t[1], data.values[t])>>] = t
        BY <1>1, RestoredIndexFact DEF ValuesSound
    <2> QED BY <2>3, <2>4, <2>7, <2>8, <2>9
<1> HIDE DEF data, vault
<1>4. \A t \in DOMAIN vault.values :
         /\ t[2] <= vault.counters[t[1]]
         /\ vault.tokens[t[1]][t[2]] = t
         /\ vault.index[<<t[1], Norm(t[1], vault.values[t])>>] = t
    BY <1>2, <1>3
<1>5. data.legacy \subseteq DOMAIN vault.values
    BY <1>1, <1>2 DEF data
<1> USE DEF data, vault
<1> QED BY <1>4, <1>5 DEF TornRowSafe

\* A row whose reads fell between registrations restores to a vault that never
\* hands out a token twice and loses no value it read (PIIVault.snapshot, from_snapshot).
THEOREM TornRowsSafe == SnapshotSpec => []TornRowSafe
<1>1. SnapInv => TornRowSafe
    BY TornFact
<1> QED BY <1>1, SnapInvariant, PTL

\* The lists, the counters and the index of a vault follow from its values.
LEMMA VaultByNumber ==
    ASSUME VaultInv, NEW e \in ENTITY_KEYS
    PROVE  ByNumber(DOMAIN tokenToValue, e) = entityToTokens[e]
<1> DEFINE T == DOMAIN tokenToValue
           c == entityCounters[e]
<1>1. c \in Nat /\ entityToTokens[e] = [i \in 1 .. c |-> <<e, i>>]
    BY DEF VaultInv, TypeOK, TokensDense
<1>2. \A n \in 1 .. c : <<e, n>> \in T
    BY DEF VaultInv, TokensDense
<1>3. \A t \in T : t[1] = e => t[2] \in 1 .. c
    BY <1>1, VaultCovers
<1> HIDE DEF T, c
<1>4. Numbers(T, e) = 1 .. c
    <2>1. ASSUME NEW n \in 1 .. c
          PROVE  n \in Numbers(T, e)
        <3>1. <<e, n>> \in {u \in T : u[1] = e} /\ <<e, n>>[2] = n
            BY <1>2
        <3> QED BY <3>1 DEF Numbers
    <2>2. ASSUME NEW n \in Numbers(T, e)
          PROVE  n \in 1 .. c
        BY <1>3 DEF Numbers
    <2> QED BY <2>1, <2>2
<1>5. ByNumber(T, e) = [i \in 1 .. c |-> <<e, i>>]
    BY <1>1, <1>4, ByNumberFact
<1> QED BY <1>1, <1>5 DEF T

\* The highest number of a key of a vault is its counter.
LEMMA VaultHighest ==
    ASSUME VaultInv, NEW e \in ENTITY_KEYS
    PROVE  Highest({entityToTokens[e][i][2] : i \in DOMAIN entityToTokens[e]}) = entityCounters[e]
<1> DEFINE list == entityToTokens[e]
           c == entityCounters[e]
<1>1. c \in Nat /\ list = [i \in 1 .. c |-> <<e, i>>]
    BY DEF VaultInv, TypeOK, TokensDense
<1> HIDE DEF list, c
<1>2. DOMAIN list = 1 .. c /\ \A i \in 1 .. c : list[i][2] = i
    BY <1>1
<1>3. {list[i][2] : i \in DOMAIN list} = 1 .. c
    BY <1>2
<1>4. Highest(1 .. c) = c
    BY <1>1, HighestFact
<1> QED BY <1>3, <1>4 DEF list, c

\* The index rebuilt from a vault's values and lists is the index of the vault.
LEMMA VaultIndexRestored ==
    ASSUME VaultInv, IndexIsFunction, NEW data, data.values = tokenToValue
    PROVE  RestoredIndex(data) = valueIndex
<1> DEFINE values == tokenToValue
           R == RestoredIndex(data)
           key(t) == <<t[1], Norm(t[1], values[t])>>
<1>1. /\ \A t \in DOMAIN values : values[t] # EmptyValue
      /\ \A t, u \in DOMAIN values :
            t[1] = u[1] /\ Norm(t[1], values[t]) = Norm(u[1], values[u]) => t = u
    BY VaultValuesSound
<1>2. data.values = values
    OBVIOUS
<1>3. /\ \A t \in DOMAIN values : key(t) \in DOMAIN valueIndex
      /\ \A k \in DOMAIN valueIndex :
            valueIndex[k] \in DOMAIN values /\ k = key(valueIndex[k])
    BY DEF VaultInv, IndexExact
<1> HIDE DEF values
<1>4. /\ \A k : k \in DOMAIN R <=> \E t \in DOMAIN values : k = key(t)
      /\ \A t \in DOMAIN values : R[key(t)] = t
    BY <1>1, <1>2, RestoredIndexFact
<1>8. valueIndex = [k \in DOMAIN valueIndex |-> valueIndex[k]] /\ DOMAIN valueIndex = DOMAIN R
          /\ (\A k \in DOMAIN valueIndex : valueIndex[k] = R[k])
      => valueIndex = R
    BY <1>1, <1>2, RestoredIndexFact
<1> HIDE DEF R, key
<1>5. DOMAIN R = DOMAIN valueIndex
    <2>1. \A k \in DOMAIN R : k \in DOMAIN valueIndex
        BY <1>3, <1>4
    <2>2. \A k \in DOMAIN valueIndex : k \in DOMAIN R
        BY <1>3, <1>4
    <2> QED BY <2>1, <2>2
<1>6. \A k \in DOMAIN valueIndex : R[k] = valueIndex[k]
    BY <1>3, <1>4
<1>7. R = valueIndex
    BY <1>5, <1>6, <1>8 DEF IndexIsFunction
<1> QED BY <1>7 DEF R

\* A row that holds the dictionaries of the vault, with or without the lists and
\* counters and with or without the profile map, is made into that vault.
LEMMA RestoredFact ==
    ASSUME VaultInv, IndexIsFunction, NEW data,
           data.profile = currentProfile, data.values = tokenToValue,
           data.legacy \in {DOMAIN tokenToValue, {}},
           data.tokens \in {entityToTokens, NoLists},
           data.counters \in {entityCounters, NoCounters}
    PROVE  FromSnapshot(data) =
              [profile |-> currentProfile, values |-> tokenToValue, tokens |-> entityToTokens,
               counters |-> entityCounters, index |-> valueIndex]
<1>1. /\ entityToTokens \in [ENTITY_KEYS -> Seq(Tokens)] /\ entityCounters \in [ENTITY_KEYS -> Nat]
      /\ \A e \in ENTITY_KEYS : entityToTokens[e] = [i \in 1 .. entityCounters[e] |-> <<e, i>>]
    BY DEF VaultInv, TypeOK, TokensDense
<1>2. \A e \in ENTITY_KEYS : ByNumber(DOMAIN tokenToValue, e) = entityToTokens[e]
    BY VaultByNumber
<1>3. RestoredTokens(data) = entityToTokens
    <2>1. CASE data.tokens # NoLists
        BY <2>1 DEF RestoredTokens
    <2>2. CASE data.tokens = NoLists /\ data.legacy # {}
        <3>1. RestoredTokens(data) = [e \in ENTITY_KEYS |-> ByNumber(DOMAIN tokenToValue, e)]
            BY <2>2 DEF RestoredTokens
        <3> QED BY <1>1, <1>2, <3>1
    <2>3. CASE data.tokens = NoLists /\ data.legacy = {}
        <3>1. RestoredTokens(data) = [e \in ENTITY_KEYS |-> ByNumber(DOMAIN tokenToValue, e)]
            BY <2>3 DEF RestoredTokens
        <3> QED BY <1>1, <1>2, <3>1
    <2> QED BY <2>1, <2>2, <2>3
<1>4. RestoredCounters(data) = entityCounters
    <2>1. CASE data.counters # NoCounters
        BY <2>1 DEF RestoredCounters
    <2>2. CASE data.counters = NoCounters
        <3> DEFINE top(e) == Highest({entityToTokens[e][i][2] : i \in DOMAIN entityToTokens[e]})
        <3>1. RestoredCounters(data) = [e \in ENTITY_KEYS |-> top(e)]
            BY <1>3, <2>2 DEF RestoredCounters
        <3>2. \A e \in ENTITY_KEYS : top(e) = entityCounters[e]
            <4> SUFFICES ASSUME NEW e \in ENTITY_KEYS PROVE top(e) = entityCounters[e]
                OBVIOUS
            <4> QED BY VaultHighest
        <3> HIDE DEF top
        <3> QED BY <1>1, <3>1, <3>2
    <2> QED BY <2>1, <2>2
<1>5. RestoredIndex(data) = valueIndex
    BY VaultIndexRestored
<1> QED BY <1>3, <1>4, <1>5 DEF FromSnapshot

\* A row stored while nobody registered brings back the vault it was taken from.
LEMMA CleanFact ==
    ASSUME SnapInv
    PROVE  CleanRowRestores
<1> SUFFICES ASSUME snap.step = "stored", snap.moved = 0
             PROVE  CleanRowRestores
    BY DEF CleanRowRestores
<1>1. /\ DOMAIN snap.data = DataFields
      /\ snap.data.profile = currentProfile /\ snap.data.values = tokenToValue
      /\ snap.data.legacy = DOMAIN tokenToValue /\ snap.data.tokens = entityToTokens
      /\ snap.data.counters = entityCounters
    BY DEF SnapInv, SnapShape, CleanInv, HasValues, HasLists, HasCounters
<1>2. snap.data # None
    <2>1. DOMAIN None = {"row"}
        BY DEF None
    <2> QED BY <1>1, <2>1 DEF DataFields
<1>3. Decrypt(snap.payload, RowVersion) = snap.data
    BY DEF SnapInv, RowInv, Encrypt, Decrypt, RowVersion
<1>4. ASSUME NEW impl \in StoreImpls
      PROVE  /\ StoreLoad(impl) = None <=> (impl = "supabase" /\ snap.expired)
             /\ StoreLoad(impl) # None => StoreLoad(impl) = snap.data
    <2>1. CASE impl = "memory"
        BY <1>2, <2>1 DEF StoreLoad
    <2>2. CASE impl = "supabase"
        BY <1>2, <1>3, <2>2 DEF StoreLoad
    <2> QED BY <2>1, <2>2, SnapshotAssumption
<1>5. ASSUME NEW data \in {snap.data, LegacyFormat(snap.data), ValuesFormat(snap.data)}
      PROVE  /\ data.profile = currentProfile /\ data.values = tokenToValue
             /\ data.legacy \in {DOMAIN tokenToValue, {}}
             /\ data.tokens \in {entityToTokens, NoLists}
             /\ data.counters \in {entityCounters, NoCounters}
    <2>1. CASE data = snap.data
        BY <1>1, <2>1
    <2>2. CASE data = LegacyFormat(snap.data)
        BY <1>1, <2>2 DEF LegacyFormat, DataFields
    <2>3. CASE data = ValuesFormat(snap.data)
        BY <1>1, <2>3 DEF ValuesFormat, LegacyFormat, DataFields
    <2> QED BY <2>1, <2>2, <2>3
<1>6. \A data \in {snap.data, LegacyFormat(snap.data), ValuesFormat(snap.data)} :
         FromSnapshot(data) =
            [profile |-> currentProfile, values |-> tokenToValue, tokens |-> entityToTokens,
             counters |-> entityCounters, index |-> valueIndex]
    BY <1>5, RestoredFact DEF SnapInv
<1> QED BY <1>4, <1>6 DEF CleanRowRestores

\* A row taken while nobody registered restores to the vault it was taken from,
\* from the current and from the earlier row formats (PIIVault.from_snapshot).
THEOREM CleanRowsRestore == SnapshotSpec => []CleanRowRestores
<1>1. SnapInv => CleanRowRestores
    BY CleanFact
<1> QED BY <1>1, SnapInvariant, PTL
================================================================================
