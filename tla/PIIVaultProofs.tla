----------------------------- MODULE PIIVaultProofs -----------------------------
(***************************************************************************)
(* What holds of PIIVault for every choice of keys, values and bounds.  The *)
(* inductive invariant is VaultInv: the three token dictionaries agree, and *)
(* the value index is their exact inverse.  Neither half is inductive alone: *)
(* a fresh number is fresh because the dictionaries agree, and what the      *)
(* displaced value of an overwrite frees is the right index entry because    *)
(* the index is exact.                                                       *)
(***************************************************************************)
EXTENDS PIIVault, SequenceTheorems, TLAPS

VaultInv == TypeOK /\ TokensDense /\ IndexExact

--------------------------------------------------------------------------------
(* Facts about the helpers.                                                   *)

\* Numbering the tokens 1..c and appending number c+1 numbers them 1..c+1.
LEMMA AppendNumbered ==
    ASSUME NEW e \in ENTITY_KEYS, NEW c \in Nat, NEW s \in Seq(Tokens),
           s = [i \in 1 .. c |-> <<e, i>>]
    PROVE  Append(s, <<e, c + 1>>) = [i \in 1 .. c + 1 |-> <<e, i>>]
<1> DEFINE a == Append(s, <<e, c + 1>>)
           b == [i \in 1 .. c + 1 |-> <<e, i>>]
<1>1. <<e, c + 1>> \in Tokens
    BY DEF Tokens
<1>2. Len(s) = c
    OBVIOUS
<1>3. a \in Seq(Tokens) /\ Len(a) = c + 1
    BY <1>1, <1>2
<1>4. a[c + 1] = <<e, c + 1>>
    BY <1>1, <1>2
<1>5. \A i \in 1 .. c : a[i] = <<e, i>>
    BY <1>1, <1>2
<1>6. \A i \in 1 .. c + 1 : a[i] = b[i]
    BY <1>4, <1>5
<1>7. DOMAIN a = 1 .. c + 1 /\ a = [i \in 1 .. c + 1 |-> a[i]]
    BY <1>3
<1> HIDE DEF a
<1> QED BY <1>6, <1>7

\* The search of register() ends at the number after the counter.
LEMMA NextIdxFact ==
    ASSUME VaultInv, NEW e \in ENTITY_KEYS
    PROVE  NextIdx(e) = entityCounters[e] + 1
<1> DEFINE c == entityCounters[e]
<1>1. c \in Nat /\ MaxTokens \in Nat
    BY BoundsAssumption DEF VaultInv, TypeOK
<1>2. <<e, c + 1>> \notin DOMAIN tokenToValue
    <2>1. \A t \in DOMAIN tokenToValue : t[1] = e => t[2] <= c
        BY DEF VaultInv, TokensDense
    <2>2. ~(c + 1 <= c)
        BY <1>1
    <2> QED BY <2>1, <2>2
<1>3. c + 1 \in FreeIdx(e)
    BY <1>1, <1>2 DEF FreeIdx
<1>4. \A m \in FreeIdx(e) : m \in Nat /\ c + 1 <= m
    BY <1>1 DEF FreeIdx
<1>5. \A n \in FreeIdx(e) : (\A m \in FreeIdx(e) : n <= m) => n = c + 1
    BY <1>1, <1>3, <1>4
<1> QED
    BY <1>3, <1>4, <1>5 DEF NextIdx

\* The last token issued for a key is the one numbered by its counter.
LEMMA LatestFact ==
    ASSUME VaultInv, NEW e \in ENTITY_KEYS
    PROVE  /\ entityCounters[e] = 0 => LatestToken(e) = NoToken
           /\ entityCounters[e] # 0 =>
                /\ LatestToken(e) = <<e, entityCounters[e]>>
                /\ LatestToken(e) \in DOMAIN tokenToValue
           /\ Len(entityToTokens[e]) = entityCounters[e]
<1> DEFINE c == entityCounters[e]
           s == entityToTokens[e]
<1>1. c \in Nat /\ s \in Seq(Tokens)
    BY DEF VaultInv, TypeOK
<1>2. s = [i \in 1 .. c |-> <<e, i>>]
    BY DEF VaultInv, TokensDense
<1>3. Len(s) = c
    BY <1>1, <1>2
<1>4. c # 0 => s # <<>> /\ s[c] = <<e, c>> /\ c \in 1 .. c
    BY <1>1, <1>2, <1>3
<1>5. c # 0 => <<e, c>> \in DOMAIN tokenToValue
    BY <1>4 DEF VaultInv, TokensDense
<1>6. c = 0 => s = <<>>
    BY <1>1, <1>3
<1> QED BY <1>3, <1>4, <1>5, <1>6 DEF LatestToken

--------------------------------------------------------------------------------
(* VaultInv is inductive.                                                     *)

\* The vault as __init__ and destroy() leave it.
Empty ==
    /\ currentProfile = 1
    /\ tokenToValue = <<>>
    /\ entityToTokens = [e \in ENTITY_KEYS |-> <<>>]
    /\ entityCounters = [e \in ENTITY_KEYS |-> 0]
    /\ valueIndex = <<>>

\* A vault without tokens satisfies the invariant.
LEMMA EmptyVault == Empty => VaultInv
<1> SUFFICES ASSUME Empty PROVE VaultInv
    OBVIOUS
<1> USE DEF Empty
<1>1. DOMAIN tokenToValue = {} /\ DOMAIN valueIndex = {}
    OBVIOUS
<1>2. TypeOK
    BY <1>1 DEF TypeOK
<1>3. TokensDense
    <2> SUFFICES ASSUME NEW e \in ENTITY_KEYS
                 PROVE  entityToTokens[e] = [i \in 1 .. entityCounters[e] |-> <<e, i>>]
        BY <1>1 DEF TokensDense
    <2>1. entityToTokens[e] = <<>> /\ entityCounters[e] = 0
        OBVIOUS
    <2> QED BY <2>1
<1>4. IndexExact
    BY <1>1 DEF IndexExact
<1> QED BY <1>2, <1>3, <1>4 DEF VaultInv

\* A fresh token extends the numbering by one and the index by one entry.
LEMMA AllocateKeeps ==
    ASSUME VaultInv, NEW e \in ENTITY_KEYS, NEW v \in Values[e], AllocateToken(e, v)
    PROVE  VaultInv'
<1> DEFINE c == entityCounters[e]
           n == c + 1
           t == <<e, n>>
           k == <<e, Norm(e, v)>>
<1>0. t[1] = e /\ t[2] = n /\ k[1] = e
    OBVIOUS
<1>1. NextIdx(e) = n /\ c \in Nat
    BY NextIdxFact DEF VaultInv, TypeOK
<1>2. /\ k \notin DOMAIN valueIndex
      /\ entityCounters' = [entityCounters EXCEPT ![e] = n]
      /\ entityToTokens' = [entityToTokens EXCEPT ![e] = Append(@, t)]
      /\ tokenToValue' = Put(tokenToValue, t, v)
      /\ valueIndex' = Put(valueIndex, k, t)
      /\ UNCHANGED currentProfile
    BY <1>1 DEF AllocateToken
<1>3. t \in Tokens
    BY <1>1 DEF Tokens
<1> HIDE DEF t, k
<1>4. t \notin DOMAIN tokenToValue
    <2>1. \A u \in DOMAIN tokenToValue : u[1] = e => u[2] <= c
        BY DEF VaultInv, TokensDense
    <2>2. ~(n <= c)
        BY <1>1
    <2> QED BY <1>0, <2>1, <2>2
<1>5. /\ DOMAIN tokenToValue' = DOMAIN tokenToValue \cup {t}
      /\ tokenToValue'[t] = v
      /\ \A u \in DOMAIN tokenToValue : tokenToValue'[u] = tokenToValue[u]
    BY <1>2, <1>4 DEF Put
<1>6. /\ DOMAIN valueIndex' = DOMAIN valueIndex \cup {k}
      /\ valueIndex'[k] = t
      /\ \A j \in DOMAIN valueIndex : valueIndex'[j] = valueIndex[j]
    BY <1>2 DEF Put
<1>7. TypeOK'
    <2>1. currentProfile' \in Nat \ {0}
        BY <1>2 DEF VaultInv, TypeOK
    <2>2. DOMAIN tokenToValue' \subseteq Tokens
        BY <1>3, <1>5 DEF VaultInv, TypeOK
    <2>3. \A u \in DOMAIN tokenToValue' : tokenToValue'[u] \in Values[u[1]]
        BY <1>0, <1>5 DEF VaultInv, TypeOK
    <2>4. entityToTokens' \in [ENTITY_KEYS -> Seq(Tokens)]
        BY <1>2, <1>3 DEF VaultInv, TypeOK
    <2>5. entityCounters' \in [ENTITY_KEYS -> Nat]
        BY <1>1, <1>2 DEF VaultInv, TypeOK
    <2>6. \A j \in DOMAIN valueIndex' : j[1] \in ENTITY_KEYS /\ valueIndex'[j] \in Tokens
        BY <1>0, <1>3, <1>6 DEF VaultInv, TypeOK
    <2> QED BY <2>1, <2>2, <2>3, <2>4, <2>5, <2>6 DEF TypeOK
<1>8. TokensDense'
    <2> SUFFICES ASSUME NEW d \in ENTITY_KEYS
                 PROVE  /\ entityToTokens'[d] = [i \in 1 .. entityCounters'[d] |-> <<d, i>>]
                        /\ \A i \in 1 .. entityCounters'[d] : <<d, i>> \in DOMAIN tokenToValue'
                        /\ \A u \in DOMAIN tokenToValue' : u[1] = d => u[2] <= entityCounters'[d]
        BY DEF TokensDense
    <2>0. /\ entityToTokens[d] = [i \in 1 .. entityCounters[d] |-> <<d, i>>]
          /\ \A i \in 1 .. entityCounters[d] : <<d, i>> \in DOMAIN tokenToValue
          /\ \A u \in DOMAIN tokenToValue : u[1] = d => u[2] <= entityCounters[d]
          /\ entityCounters[d] \in Nat
          /\ entityToTokens[d] \in Seq(Tokens)
          /\ entityCounters \in [ENTITY_KEYS -> Nat]
          /\ entityToTokens \in [ENTITY_KEYS -> Seq(Tokens)]
        BY DEF VaultInv, TypeOK, TokensDense
    <2>1. CASE d = e
        <3>1. entityCounters'[d] = n /\ entityToTokens'[d] = Append(entityToTokens[d], t)
            BY <1>2, <2>0, <2>1
        <3>2. entityToTokens'[d] = [i \in 1 .. n |-> <<e, i>>]
            <4>1. entityToTokens[e] \in Seq(Tokens)
                  /\ entityToTokens[e] = [i \in 1 .. c |-> <<e, i>>]
                BY <2>0, <2>1
            <4>2. Append(entityToTokens[e], <<e, c + 1>>) = [i \in 1 .. c + 1 |-> <<e, i>>]
                BY <1>1, <4>1, AppendNumbered
            <4> QED BY <2>1, <3>1, <4>2 DEF t
        <3>3. \A i \in 1 .. n : <<d, i>> \in DOMAIN tokenToValue'
            BY <1>1, <1>5, <2>0, <2>1 DEF t
        <3>4. \A u \in DOMAIN tokenToValue : u[1] = d => u[2] <= n
            <4> SUFFICES ASSUME NEW u \in DOMAIN tokenToValue, u[1] = d PROVE u[2] <= n
                OBVIOUS
            <4>1. u[2] <= c /\ u[2] \in Nat
                BY <2>0, <2>1 DEF VaultInv, TypeOK, Tokens
            <4> QED BY <1>1, <4>1
        <3>5. t[2] <= n
            BY <1>0, <1>1
        <3> QED BY <1>5, <2>1, <3>1, <3>2, <3>3, <3>4, <3>5
    <2>2. CASE d # e
        <3>1. entityCounters'[d] = entityCounters[d] /\ entityToTokens'[d] = entityToTokens[d]
            BY <1>2, <2>0, <2>2
        <3>2. t[1] # d
            BY <1>0, <2>2
        <3> QED BY <1>5, <2>0, <3>1, <3>2
    <2> QED BY <2>1, <2>2
<1>9. IndexExact'
    <2>1. \A u \in DOMAIN tokenToValue' :
             /\ <<u[1], Norm(u[1], tokenToValue'[u])>> \in DOMAIN valueIndex'
             /\ valueIndex'[<<u[1], Norm(u[1], tokenToValue'[u])>>] = u
        BY <1>0, <1>2, <1>5, <1>6 DEF VaultInv, IndexExact, k
    <2>2. \A j \in DOMAIN valueIndex' :
             /\ valueIndex'[j] \in DOMAIN tokenToValue'
             /\ j = <<valueIndex'[j][1], Norm(valueIndex'[j][1], tokenToValue'[valueIndex'[j]])>>
        BY <1>0, <1>2, <1>5, <1>6 DEF VaultInv, IndexExact, k
    <2> QED BY <2>1, <2>2 DEF IndexExact
<1> QED BY <1>7, <1>8, <1>9 DEF VaultInv

\* An overwrite moves the latest token to its new index entry and no other.
LEMMA OverwriteKeeps ==
    ASSUME VaultInv, NEW e \in ENTITY_KEYS, NEW v \in Values[e], OverwriteLatest(e, v)
    PROVE  VaultInv'
<1> DEFINE c == entityCounters[e]
           t == LatestToken(e)
           k == <<e, Norm(e, v)>>
           o == <<e, Norm(e, tokenToValue[t])>>
<1>1. /\ c \in Nat
      /\ t = <<e, c>>
      /\ t \in DOMAIN tokenToValue
    BY LatestFact DEF OverwriteLatest, VaultInv, TypeOK
<1>2. /\ k \notin DOMAIN valueIndex
      /\ tokenToValue' = Put(tokenToValue, t, v)
      /\ valueIndex' = Put(Drop(valueIndex, o), k, t)
      /\ UNCHANGED <<currentProfile, entityToTokens, entityCounters>>
    BY <1>1 DEF OverwriteLatest
<1>3. t[1] = e /\ k[1] = e
    BY <1>1
<1>4. o \in DOMAIN valueIndex /\ valueIndex[o] = t
    BY <1>1, <1>3 DEF VaultInv, IndexExact
<1>5. \A j \in DOMAIN valueIndex : j # o => valueIndex[j] # t
    BY <1>1, <1>3 DEF VaultInv, IndexExact
<1> HIDE DEF t, k, o
<1>6. /\ DOMAIN tokenToValue' = DOMAIN tokenToValue
      /\ tokenToValue'[t] = v
      /\ \A u \in DOMAIN tokenToValue : u # t => tokenToValue'[u] = tokenToValue[u]
    BY <1>1, <1>2 DEF Put
<1>7. /\ DOMAIN valueIndex' = (DOMAIN valueIndex \ {o}) \cup {k}
      /\ valueIndex'[k] = t
      /\ \A j \in DOMAIN valueIndex \ {o} : valueIndex'[j] = valueIndex[j]
    BY <1>2 DEF Put, Drop
<1>8. t \in Tokens
    BY <1>1 DEF VaultInv, TypeOK
<1>9. TypeOK'
    BY <1>2, <1>3, <1>6, <1>7, <1>8 DEF VaultInv, TypeOK
<1>10. TokensDense'
    BY <1>2, <1>6 DEF VaultInv, TokensDense
<1>11. IndexExact'
    <2>1. ASSUME NEW u \in DOMAIN tokenToValue'
          PROVE  /\ <<u[1], Norm(u[1], tokenToValue'[u])>> \in DOMAIN valueIndex'
                 /\ valueIndex'[<<u[1], Norm(u[1], tokenToValue'[u])>>] = u
        <3>1. CASE u = t
            BY <1>3, <1>6, <1>7, <3>1 DEF k
        <3>2. CASE u # t
            <4> DEFINE j == <<u[1], Norm(u[1], tokenToValue[u])>>
            <4>1. u \in DOMAIN tokenToValue /\ tokenToValue'[u] = tokenToValue[u]
                BY <1>6, <3>2
            <4>2. j \in DOMAIN valueIndex /\ valueIndex[j] = u
                BY <4>1 DEF VaultInv, IndexExact
            <4>3. j # o
                BY <1>4, <3>2, <4>2
            <4> QED BY <1>7, <4>1, <4>2, <4>3
        <3> QED BY <3>1, <3>2
    <2>2. ASSUME NEW j \in DOMAIN valueIndex'
          PROVE  /\ valueIndex'[j] \in DOMAIN tokenToValue'
                 /\ j = <<valueIndex'[j][1], Norm(valueIndex'[j][1], tokenToValue'[valueIndex'[j]])>>
        <3>1. CASE j = k
            BY <1>1, <1>3, <1>6, <1>7, <3>1 DEF k
        <3>2. CASE j # k
            <4>1. j \in DOMAIN valueIndex /\ j # o /\ valueIndex'[j] = valueIndex[j]
                BY <1>7, <3>2
            <4>2. valueIndex[j] # t
                BY <1>5, <4>1
            <4>3. /\ valueIndex[j] \in DOMAIN tokenToValue
                  /\ j = <<valueIndex[j][1], Norm(valueIndex[j][1], tokenToValue[valueIndex[j]])>>
                BY <4>1 DEF VaultInv, IndexExact
            <4> QED BY <1>6, <4>1, <4>2, <4>3
        <3> QED BY <3>1, <3>2
    <2> QED BY <2>1, <2>2 DEF IndexExact
<1> QED BY <1>9, <1>10, <1>11 DEF VaultInv

\* Every step of the vault keeps the invariant.
LEMMA VaultStep ==
    ASSUME VaultInv, [Next]_vars
    PROVE  VaultInv'
<1>1. CASE AdvanceProfile
    BY <1>1 DEF AdvanceProfile, VaultInv, TypeOK, TokensDense, IndexExact
<1>2. ASSUME NEW e \in ENTITY_KEYS, NEW v \in Values[e], NEW p \in BOOLEAN, Register(e, v, p)
      PROVE  VaultInv'
    <2>1. CASE RegisterExisting(e, v)
        BY <2>1 DEF RegisterExisting, vaultVars, VaultInv, TypeOK, TokensDense, IndexExact
    <2>2. CASE OverwriteLatest(e, v)
        BY <2>2, OverwriteKeeps
    <2>3. CASE AllocateToken(e, v)
        BY <2>3, AllocateKeeps
    <2> QED BY <1>2, <2>1, <2>2, <2>3 DEF Register
<1>3. ASSUME NEW e, RegisterRefused(e, EmptyValue)
      PROVE  VaultInv'
    BY <1>3 DEF RegisterRefused, vaultVars, VaultInv, TypeOK, TokensDense, IndexExact
<1>4. CASE Destroy
    <2>1. Empty'
        BY <1>4 DEF Destroy, Empty
    <2>2. (Empty => VaultInv)'
        BY EmptyVault, PTL
    <2> QED BY <2>1, <2>2
<1>5. CASE UNCHANGED vars
    BY <1>5 DEF vars, VaultInv, TypeOK, TokensDense, IndexExact
<1> QED BY <1>1, <1>2, <1>3, <1>4, <1>5 DEF Next, PreferLatest

\* In every reachable state the dictionaries agree and the index is exact.
THEOREM VaultInvariant == Spec => []VaultInv
<1>1. Init => VaultInv
    BY EmptyVault DEF Init, Empty
<1>2. VaultInv /\ [Next]_vars => VaultInv'
    BY VaultStep
<1> QED BY <1>1, <1>2, PTL DEF Spec

\* Type correctness.
THEOREM TypeCorrect == Spec => []TypeOK
<1>1. VaultInv => TypeOK
    BY DEF VaultInv
<1> QED BY <1>1, VaultInvariant, PTL

\* Token numbers are dense, for every set of keys and values.
THEOREM NumbersDense == Spec => []TokensDense
<1>1. VaultInv => TokensDense
    BY DEF VaultInv
<1> QED BY <1>1, VaultInvariant, PTL

\* The value index is the exact inverse of the token dictionary.
THEOREM IndexInverse == Spec => []IndexExact
<1>1. VaultInv => IndexExact
    BY DEF VaultInv
<1> QED BY <1>1, VaultInvariant, PTL

--------------------------------------------------------------------------------
(* What one call does, given VaultInv.                                        *)

\* A call that registers e with v answers with a token of e that holds, after
\* the call, a value that normalizes as v does.
LEMMA RegisterReply ==
    ASSUME VaultInv, NEW e \in ENTITY_KEYS, NEW v \in Values[e], NEW p \in BOOLEAN,
           Register(e, v, p)
    PROVE  /\ reply'.key = e /\ reply'.value = v
           /\ reply'.token \in DOMAIN tokenToValue'
           /\ reply'.token[1] = e
           /\ Norm(e, tokenToValue'[reply'.token]) = Norm(e, v)
<1>1. CASE RegisterExisting(e, v)
    <2> DEFINE t == valueIndex[<<e, Norm(e, v)>>]
    <2>1. t \in DOMAIN tokenToValue /\ t[1] = e /\ Norm(t[1], tokenToValue[t]) = Norm(e, v)
        BY <1>1 DEF RegisterExisting, VaultInv, IndexExact
    <2>2. reply'.key = e /\ reply'.value = v /\ reply'.token = t
        BY <1>1 DEF RegisterExisting, Reply
    <2> QED BY <1>1, <2>1, <2>2 DEF RegisterExisting, vaultVars
<1>2. CASE OverwriteLatest(e, v)
    <2>1. reply'.key = e /\ reply'.value = v /\ reply'.token = LatestToken(e)
        BY <1>2 DEF OverwriteLatest, Reply
    <2>2. LatestToken(e) = <<e, entityCounters[e]>>
        BY <1>2, LatestFact DEF OverwriteLatest
    <2>3. LatestToken(e) \in DOMAIN tokenToValue' /\ tokenToValue'[LatestToken(e)] = v
        BY <1>2 DEF OverwriteLatest, Put
    <2> QED BY <2>1, <2>2, <2>3
<1>3. CASE AllocateToken(e, v)
    <2> DEFINE t == <<e, NextIdx(e)>>
    <2>1. reply'.key = e /\ reply'.value = v /\ reply'.token = t
        BY <1>3 DEF AllocateToken, Reply
    <2>2. t \in DOMAIN tokenToValue' /\ tokenToValue'[t] = v
        BY <1>3 DEF AllocateToken, Put
    <2> QED BY <2>1, <2>2
<1> QED BY <1>1, <1>2, <1>3 DEF Register

\* register() always answers with a token that resolves to the registered value.
THEOREM RepliesResolve == Spec => []ReplyResolves
<1>1. Init => ReplyResolves
    BY DEF Init, NoReply, ReplyResolves
<1>2. VaultInv /\ ReplyResolves /\ [Next]_vars => ReplyResolves'
    <2> SUFFICES ASSUME VaultInv, ReplyResolves, [Next]_vars
                 PROVE  ReplyResolves'
        OBVIOUS
    <2>1. CASE AdvanceProfile
        BY <2>1 DEF AdvanceProfile, ReplyResolves
    <2>2. ASSUME NEW e \in ENTITY_KEYS, NEW v \in Values[e], NEW p \in BOOLEAN, Register(e, v, p)
          PROVE  ReplyResolves'
        BY <2>2, RegisterReply DEF ReplyResolves
    <2>3. ASSUME NEW e, RegisterRefused(e, EmptyValue)
          PROVE  ReplyResolves'
        BY <2>3 DEF RegisterRefused, Reply, ReplyResolves
    <2>4. CASE Destroy
        BY <2>4 DEF Destroy, ReplyResolves
    <2>5. CASE UNCHANGED vars
        BY <2>5 DEF vars, ReplyResolves
    <2> QED BY <2>1, <2>2, <2>3, <2>4, <2>5 DEF Next, PreferLatest
<1> QED BY <1>1, <1>2, VaultInvariant, PTL DEF Spec

\* A token keeps its value but for destroy() and a rewrite of the latest one.
THEOREM RewritesOnlyLatest == Spec => OnlyLatestRewritten
<1> DEFINE Kept(t) ==
        \/ t \in DOMAIN tokenToValue' /\ tokenToValue'[t] = tokenToValue[t]
        \/ reply'.call = "destroy" /\ DOMAIN tokenToValue' = {}
        \/ reply'.call = "overwrite" /\ reply'.token = t /\ t = LatestToken(t[1])
<1>1. VaultInv /\ [Next]_vars => [\A t \in DOMAIN tokenToValue : Kept(t)]_vars
    <2> SUFFICES ASSUME VaultInv, Next, NEW t \in DOMAIN tokenToValue
                 PROVE  Kept(t)
        OBVIOUS
    <2>1. CASE UNCHANGED tokenToValue
        BY <2>1
    <2>2. ASSUME NEW e \in ENTITY_KEYS, NEW v \in Values[e], OverwriteLatest(e, v)
          PROVE  Kept(t)
        <3>1. LatestToken(e)[1] = e
            BY <2>2, LatestFact DEF OverwriteLatest
        <3>2. CASE t = LatestToken(e)
            BY <2>2, <3>1, <3>2 DEF OverwriteLatest, Reply
        <3>3. CASE t # LatestToken(e)
            BY <2>2, <3>3 DEF OverwriteLatest, Put
        <3> QED BY <3>2, <3>3
    <2>3. ASSUME NEW e \in ENTITY_KEYS, NEW v \in Values[e], AllocateToken(e, v)
          PROVE  Kept(t)
        <3>1. \A u \in DOMAIN tokenToValue : u[1] = e => u[2] <= entityCounters[e]
            BY DEF VaultInv, TokensDense
        <3>2. NextIdx(e) = entityCounters[e] + 1 /\ entityCounters[e] \in Nat
            BY NextIdxFact DEF VaultInv, TypeOK
        <3>3. t # <<e, NextIdx(e)>>
            BY <3>1, <3>2
        <3> QED BY <2>3, <3>3 DEF AllocateToken, Put
    <2>4. CASE Destroy
        BY <2>4 DEF Destroy
    <2> QED BY <2>1, <2>2, <2>3, <2>4
            DEF Next, Register, RegisterExisting, RegisterRefused, AdvanceProfile, vaultVars
<1> QED BY <1>1, VaultInvariant, PTL DEF Spec, OnlyLatestRewritten

--------------------------------------------------------------------------------
(* The vault implements the ledger.                                           *)

\* The ledger of a key has one entry for every token issued for it.
LEMMA LedgerFact ==
    ASSUME VaultInv, NEW e \in ENTITY_KEYS
    PROVE  /\ LedgerOf[e] = [i \in 1 .. entityCounters[e] |-> tokenToValue[<<e, i>>]]
           /\ LedgerOf[e] \in Seq(Values[e])
           /\ Len(LedgerOf[e]) = entityCounters[e]
<1>1. LedgerOf[e] = [i \in 1 .. entityCounters[e] |-> tokenToValue[<<e, i>>]]
    BY DEF LedgerOf
<1>2. \A i \in 1 .. entityCounters[e] : tokenToValue[<<e, i>>] \in Values[e]
    <2> TAKE i \in 1 .. entityCounters[e]
    <2>1. <<e, i>> \in DOMAIN tokenToValue
        BY DEF VaultInv, TokensDense
    <2>2. tokenToValue[<<e, i>>] \in Values[<<e, i>>[1]]
        BY <2>1 DEF VaultInv, TypeOK
    <2> QED BY <2>2
<1>3. entityCounters[e] \in Nat
    BY DEF VaultInv, TypeOK
<1> DEFINE s == [i \in 1 .. entityCounters[e] |-> tokenToValue[<<e, i>>]]
<1>4. s \in [1 .. entityCounters[e] -> Values[e]]
    BY <1>2
<1> HIDE DEF s
<1>5. s \in Seq(Values[e]) /\ DOMAIN s = 1 .. entityCounters[e]
    BY <1>3, <1>4
<1>6. Len(s) = entityCounters[e]
    BY <1>3, <1>5
<1>7. LedgerOf[e] = s
    BY <1>1 DEF s
<1> QED BY <1>1, <1>5, <1>6, <1>7

\* A value is known to the ledger exactly where the index points.
LEMMA KnownFact ==
    ASSUME VaultInv, NEW e \in ENTITY_KEYS, NEW v \in Values[e]
    PROVE  /\ <<e, Norm(e, v)>> \notin DOMAIN valueIndex => Ledger!Known(e, v) = {}
           /\ <<e, Norm(e, v)>> \in DOMAIN valueIndex =>
                 /\ valueIndex[<<e, Norm(e, v)>>][2] \in Ledger!Known(e, v)
                 /\ valueIndex[<<e, Norm(e, v)>>] # NoToken
<1> DEFINE k == <<e, Norm(e, v)>>
           t == valueIndex[k]
<1>1. DOMAIN LedgerOf[e] = 1 .. entityCounters[e]
    BY LedgerFact
<1>2. \A i \in 1 .. entityCounters[e] :
        /\ <<e, i>> \in DOMAIN tokenToValue
        /\ LedgerOf[e][i] = tokenToValue[<<e, i>>]
    <2>1. LedgerOf[e] = [i \in 1 .. entityCounters[e] |-> tokenToValue[<<e, i>>]]
        BY LedgerFact
    <2>2. \A i \in 1 .. entityCounters[e] : <<e, i>> \in DOMAIN tokenToValue
        BY DEF VaultInv, TokensDense
    <2> QED BY <2>1, <2>2
<1>3. ASSUME k \notin DOMAIN valueIndex
      PROVE  Ledger!Known(e, v) = {}
    <2> SUFFICES ASSUME NEW i \in 1 .. entityCounters[e],
                        Norm(e, tokenToValue[<<e, i>>]) = Norm(e, v)
                 PROVE  FALSE
        BY <1>1, <1>2 DEF Ledger!Known, Same
    <2>1. <<e, Norm(e, tokenToValue[<<e, i>>])>> \in DOMAIN valueIndex
        BY <1>2 DEF VaultInv, IndexExact
    <2> QED BY <1>3, <2>1
<1>4. ASSUME k \in DOMAIN valueIndex
      PROVE  t[2] \in Ledger!Known(e, v) /\ t # NoToken
    <2>1. t \in DOMAIN tokenToValue /\ t[1] = e /\ Norm(e, tokenToValue[t]) = Norm(e, v)
        BY <1>4 DEF VaultInv, IndexExact
    <2>2. t \in Tokens
        BY <2>1 DEF VaultInv, TypeOK
    <2>3. t = <<e, t[2]>> /\ t[2] \in Nat \ {0} /\ t # NoToken
        BY <2>1, <2>2 DEF Tokens, NoToken
    <2>4. t[2] <= entityCounters[e] /\ entityCounters[e] \in Nat
        BY <2>1 DEF VaultInv, TypeOK, TokensDense
    <2> HIDE DEF t
    <2>5. t[2] \in 1 .. entityCounters[e]
        BY <2>3, <2>4
    <2>6. tokenToValue[<<e, t[2]>>] = tokenToValue[t]
        BY <2>3
    <2>7. Same(e, LedgerOf[e][t[2]], v)
        BY <1>2, <2>1, <2>5, <2>6 DEF Same
    <2> QED BY <1>1, <2>3, <2>5, <2>7 DEF Ledger!Known
<1> QED BY <1>3, <1>4

\* An allocation appends to the ledger of its key.
LEMMA AllocateIssues ==
    ASSUME VaultInv, VaultInv', NEW e \in ENTITY_KEYS, NEW v \in Values[e],
           AllocateToken(e, v)
    PROVE  Ledger!Issue(e, v)
<1> DEFINE c == entityCounters[e]
           n == c + 1
<1>1. NextIdx(e) = n /\ c \in Nat
    BY NextIdxFact DEF VaultInv, TypeOK
<1>2. /\ entityCounters' = [entityCounters EXCEPT ![e] = n]
      /\ tokenToValue' = Put(tokenToValue, <<e, n>>, v)
      /\ reply'.token = <<e, n>>
      /\ <<e, Norm(e, v)>> \notin DOMAIN valueIndex
    BY <1>1 DEF AllocateToken, Reply
<1>3. entityCounters \in [ENTITY_KEYS -> Nat]
    BY DEF VaultInv, TypeOK
<1>4. \A d \in ENTITY_KEYS : \A i \in 1 .. entityCounters[d] :
         <<d, i>> \in DOMAIN tokenToValue /\ tokenToValue'[<<d, i>>] = tokenToValue[<<d, i>>]
    <2> SUFFICES ASSUME NEW d \in ENTITY_KEYS, NEW i \in 1 .. entityCounters[d]
                 PROVE  /\ <<d, i>> \in DOMAIN tokenToValue
                        /\ tokenToValue'[<<d, i>>] = tokenToValue[<<d, i>>]
        OBVIOUS
    <2>1. <<d, i>> \in DOMAIN tokenToValue
        BY DEF VaultInv, TokensDense
    <2>2. <<d, i>> # <<e, n>>
        BY <1>1, <1>3
    <2> QED BY <1>2, <2>1, <2>2 DEF Put
<1>5. LedgerOf'[e] = Append(LedgerOf[e], v)
    <2> DEFINE a == Append(LedgerOf[e], v)
               b == LedgerOf'[e]
    <2>1. /\ LedgerOf[e] \in Seq(Values[e])
          /\ Len(LedgerOf[e]) = c
          /\ \A i \in 1 .. c : LedgerOf[e][i] = tokenToValue[<<e, i>>]
        BY <1>3, LedgerFact
    <2>2. /\ b = [i \in 1 .. n |-> tokenToValue'[<<e, i>>]]
          /\ tokenToValue'[<<e, n>>] = v
        BY <1>2, <1>3 DEF LedgerOf, Put
    <2>3. a \in Seq(Values[e]) /\ Len(a) = n
        <3> DEFINE s == LedgerOf[e]
        <3>1. s \in Seq(Values[e]) /\ Len(s) = c
            BY <2>1
        <3> HIDE DEF s
        <3>2. Append(s, v) \in Seq(Values[e]) /\ Len(Append(s, v)) = n
            BY <3>1, AppendProperties
        <3> QED BY <3>2 DEF s
    <2>4. a[n] = v /\ \A i \in 1 .. c : a[i] = LedgerOf[e][i]
        BY <1>1, <2>1
    <2>5. \A i \in 1 .. n : a[i] = b[i]
        BY <1>1, <1>4, <2>1, <2>2, <2>4
    <2>6. a = [i \in 1 .. n |-> a[i]]
        BY <2>3
    <2> HIDE DEF a, b
    <2>7. b = [i \in 1 .. n |-> b[i]]
        BY <2>2
    <2>8. a = b
        BY <2>5, <2>6, <2>7
    <2> QED BY <2>8 DEF a, b
<1>6. ASSUME NEW d \in ENTITY_KEYS, d # e
      PROVE  LedgerOf'[d] = LedgerOf[d]
    <2>1. entityCounters'[d] = entityCounters[d]
        BY <1>2, <1>3, <1>6
    <2> QED BY <1>4, <2>1 DEF LedgerOf
<1>7. LedgerOf' = [LedgerOf EXCEPT ![e] = Append(@, v)]
    BY <1>5, <1>6 DEF LedgerOf
<1>8. AnswerOf' = Len(LedgerOf[e]) + 1
    <2>1. Len(LedgerOf[e]) = c
        BY LedgerFact
    <2>2. AnswerOf' = n
        BY <1>2 DEF AnswerOf, NoToken
    <2> QED BY <2>1, <2>2
<1>9. Ledger!Known(e, v) = {}
    BY <1>2, KnownFact
<1> QED BY <1>7, <1>8, <1>9 DEF Ledger!Issue

\* An overwrite replaces the last entry of the ledger of its key.
LEMMA OverwriteCorrects ==
    ASSUME VaultInv, NEW e \in ENTITY_KEYS, NEW v \in Values[e], OverwriteLatest(e, v)
    PROVE  Ledger!Correct(e, v)
<1> DEFINE c == entityCounters[e]
<1>1. /\ c \in Nat \ {0}
      /\ LatestToken(e) = <<e, c>>
      /\ <<e, c>> \in DOMAIN tokenToValue
    BY LatestFact DEF OverwriteLatest, VaultInv, TypeOK
<1>2. /\ entityCounters' = entityCounters
      /\ tokenToValue' = Put(tokenToValue, <<e, c>>, v)
      /\ reply'.token = <<e, c>>
      /\ <<e, Norm(e, v)>> \notin DOMAIN valueIndex
    BY <1>1 DEF OverwriteLatest, Reply
<1>3. /\ tokenToValue'[<<e, c>>] = v
      /\ \A u \in DOMAIN tokenToValue : u # <<e, c>> => tokenToValue'[u] = tokenToValue[u]
    BY <1>1, <1>2 DEF Put
<1>4. /\ LedgerOf[e] = [i \in 1 .. c |-> tokenToValue[<<e, i>>]]
      /\ LedgerOf[e] \in Seq(Values[e])
      /\ Len(LedgerOf[e]) = c
    BY LedgerFact
<1>5. \A d \in ENTITY_KEYS : \A i \in 1 .. entityCounters[d] :
         /\ <<d, i>> \in DOMAIN tokenToValue
         /\ <<d, i>> # <<e, c>> => tokenToValue'[<<d, i>>] = tokenToValue[<<d, i>>]
    BY <1>3 DEF VaultInv, TokensDense
<1>6. LedgerOf'[e] = [LedgerOf[e] EXCEPT ![c] = v]
    <2>1. LedgerOf'[e] = [i \in 1 .. c |-> tokenToValue'[<<e, i>>]]
        BY <1>2 DEF LedgerOf
    <2>2. \A i \in 1 .. c : tokenToValue'[<<e, i>>] = IF i = c THEN v ELSE tokenToValue[<<e, i>>]
        BY <1>3, <1>5
    <2>3. LedgerOf'[e] = [i \in 1 .. c |-> IF i = c THEN v ELSE tokenToValue[<<e, i>>]]
        BY <2>1, <2>2
    <2> QED BY <1>1, <1>4, <2>3
<1>7. ASSUME NEW d \in ENTITY_KEYS, d # e
      PROVE  LedgerOf'[d] = LedgerOf[d]
    <2>1. \A i \in 1 .. entityCounters[d] : tokenToValue'[<<d, i>>] = tokenToValue[<<d, i>>]
        BY <1>5, <1>7
    <2> QED BY <1>2, <2>1 DEF LedgerOf
<1>8. LedgerOf' = [LedgerOf EXCEPT ![e][c] = v]
    BY <1>6, <1>7 DEF LedgerOf
<1>9. AnswerOf' = c
    BY <1>1, <1>2 DEF AnswerOf, NoToken
<1>10. Ledger!Known(e, v) = {}
    BY <1>2, KnownFact
<1>11. LedgerOf[e] # <<>>
    BY <1>1, <1>4
<1> QED BY <1>4, <1>8, <1>9, <1>10, <1>11 DEF Ledger!Correct

\* Every step of the vault is a step of the ledger, or leaves it as it is.
LEMMA LedgerStep ==
    ASSUME VaultInv, VaultInv', [Next]_vars
    PROVE  [Ledger!Next]_Ledger!vars
<1>1. ASSUME UNCHANGED <<tokenToValue, entityCounters>>
      PROVE  LedgerOf' = LedgerOf
    BY <1>1 DEF LedgerOf
<1>2. CASE AdvanceProfile
    <2>1. LedgerOf' = LedgerOf /\ AnswerOf' = 0
        BY <1>1, <1>2 DEF AdvanceProfile, AnswerOf
    <2> QED BY <2>1 DEF Ledger!Next, Ledger!Refuse
<1>3. ASSUME NEW e \in ENTITY_KEYS, NEW v \in Values[e], NEW p \in BOOLEAN, Register(e, v, p)
      PROVE  Ledger!Next
    <2>1. CASE RegisterExisting(e, v)
        <3>1. LedgerOf' = LedgerOf
            BY <1>1, <2>1 DEF RegisterExisting, vaultVars
        <3>2. /\ reply'.token = valueIndex[<<e, Norm(e, v)>>]
              /\ <<e, Norm(e, v)>> \in DOMAIN valueIndex
            BY <2>1 DEF RegisterExisting, Reply
        <3>3. AnswerOf' \in Ledger!Known(e, v)
            BY <3>2, KnownFact DEF AnswerOf
        <3> QED BY <3>1, <3>3 DEF Ledger!Next, Ledger!Reuse
    <2>2. CASE OverwriteLatest(e, v)
        BY <2>2, OverwriteCorrects DEF Ledger!Next
    <2>3. CASE AllocateToken(e, v)
        BY <2>3, AllocateIssues DEF Ledger!Next
    <2> QED BY <1>3, <2>1, <2>2, <2>3 DEF Register
<1>4. ASSUME NEW e, RegisterRefused(e, EmptyValue)
      PROVE  Ledger!Next
    <2>1. LedgerOf' = LedgerOf /\ AnswerOf' = 0
        BY <1>1, <1>4 DEF RegisterRefused, vaultVars, AnswerOf, Reply
    <2> QED BY <2>1 DEF Ledger!Next, Ledger!Refuse
<1>5. CASE Destroy
    <2>1. AnswerOf' = 0
        BY <1>5 DEF Destroy, AnswerOf
    <2>2. LedgerOf' = [k \in ENTITY_KEYS |-> <<>>]
        BY <1>5 DEF Destroy, LedgerOf
    <2> QED BY <2>1, <2>2 DEF Ledger!Next, Ledger!Forget
<1>6. CASE UNCHANGED vars
    BY <1>1, <1>6 DEF vars, Ledger!vars, AnswerOf
<1> QED BY <1>2, <1>3, <1>4, <1>5, <1>6 DEF Next, PreferLatest

\* The vault implements the ledger, whatever the keys, values and bounds.
THEOREM ImplementsLedger == Spec => LedgerSpec
<1>1. Init => Ledger!Init
    <2> SUFFICES ASSUME Init PROVE Ledger!Init
        OBVIOUS
    <2>1. AnswerOf = 0
        BY DEF Init, NoReply, AnswerOf
    <2>2. LedgerOf = [k \in ENTITY_KEYS |-> <<>>]
        BY DEF Init, LedgerOf
    <2> QED BY <2>1, <2>2 DEF Ledger!Init
<1>2. VaultInv /\ VaultInv' /\ [Next]_vars => [Ledger!Next]_Ledger!vars
    BY LedgerStep
<1> QED BY <1>1, <1>2, VaultInvariant, PTL DEF Spec, LedgerSpec, Ledger!Spec
================================================================================
