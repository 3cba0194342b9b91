-------------------------------- MODULE PIIVault --------------------------------
(***************************************************************************)
(* The vault of one session scope (src/src/pii_vault.py): the dictionaries *)
(* that tie the values a user disclosed to the placeholders the model sees. *)
(* Every method that changes them runs under the vault's RLock, so each is *)
(* one action.  A token "<fn_2>" is the pair <<"fn", 2>>; a value is kept   *)
(* as the parts _normalize() tells apart.                                  *)
(***************************************************************************)
EXTENDS Naturals, Sequences

CONSTANTS
    ENTITY_KEYS,        \* keys the vault issues tokens for
    NAME_ENTITY_KEYS,   \* the ones that are parts of a name
    OtherKeys,          \* keys a caller may pass and the vault must refuse
    Values,             \* Values[key]: what callers register under the key,
                        \* records [latin, digits, other, spelling]
    EmptyValue,         \* the empty string
    PhoneKey,           \* "ph"
    MaxProfile,         \* bound on current_profile
    MaxTokens           \* bound on the tokens of one key

ASSUME KeysAssumption ==
    /\ NAME_ENTITY_KEYS \subseteq ENTITY_KEYS
    /\ ENTITY_KEYS \cap OtherKeys = {}
    /\ \A e \in ENTITY_KEYS : EmptyValue \notin Values[e]

ASSUME BoundsAssumption == MaxProfile \in Nat /\ MaxTokens \in Nat

VARIABLES
    currentProfile,     \* _current_profile
    tokenToValue,       \* _token_to_value: token -> value
    entityToTokens,     \* _entity_to_tokens[key]: tokens in order of issue
    entityCounters,     \* _entity_counters[key], 0 when absent
    valueIndex,         \* _value_index: <<key, normalized value>> -> token
    reply               \* what the last call returned

vaultVars == <<currentProfile, tokenToValue, entityToTokens, entityCounters, valueIndex>>
vars == <<currentProfile, tokenToValue, entityToTokens, entityCounters, valueIndex, reply>>

NoToken == <<>>
Tokens == ENTITY_KEYS \X (Nat \ {0})

Reply(call, e, v, t) == [call |-> call, key |-> e, value |-> v, token |-> t]
NoReply == [call |-> "none", token |-> NoToken]

--------------------------------------------------------------------------------
\* _normalize: case and spacing always go; a name keeps its a-z and 0-9 only, a
\* phone its digits only, anything else keeps the rest of its characters.
Norm(e, v) ==
    IF e \in NAME_ENTITY_KEYS THEN <<v.latin, v.digits>>
    ELSE IF e = PhoneKey THEN <<v.digits>>
    ELSE <<v.latin, v.digits, v.other>>

Put(f, k, x) == [y \in DOMAIN f \cup {k} |-> IF y = k THEN x ELSE f[y]]

\* (Mutant: the displaced value stays indexed.)
KeepAll(f, k) == f
Drop(f, k) == [y \in DOMAIN f \ {k} |-> f[y]]

\* (Mutants: the first token; a token made up from the counter.)
FirstToken(e) == IF entityToTokens[e] = <<>> THEN NoToken ELSE entityToTokens[e][1]
CounterToken(e) == <<e, entityCounters[e]>>

\* latest_token_for_entity
LatestToken(e) ==
    IF entityToTokens[e] = <<>> THEN NoToken
    ELSE entityToTokens[e][Len(entityToTokens[e])]

\* (Mutant: the number is the profile's.)
ProfileIdx(e) == currentProfile

\* The while loop of register(): the first number past the counter that no
\* token holds yet.  At most MaxTokens numbers are held, so it is in this range.
FreeIdx(e) ==
    {n \in entityCounters[e] + 1 .. entityCounters[e] + MaxTokens + 1 :
        <<e, n>> \notin DOMAIN tokenToValue}
NextIdx(e) == CHOOSE n \in FreeIdx(e) : \A m \in FreeIdx(e) : n <= m

--------------------------------------------------------------------------------
Init ==
    /\ currentProfile = 1
    /\ tokenToValue = <<>>
    /\ entityToTokens = [e \in ENTITY_KEYS |-> <<>>]
    /\ entityCounters = [e \in ENTITY_KEYS |-> 0]
    /\ valueIndex = <<>>
    /\ reply = NoReply

AdvanceProfile ==
    /\ currentProfile < MaxProfile
    /\ currentProfile' = currentProfile + 1
    /\ reply' = [call |-> "advance_profile", token |-> NoToken]
    /\ UNCHANGED <<tokenToValue, entityToTokens, entityCounters, valueIndex>>

\* register() raises ValueError.
RegisterRefused(e, v) ==
    /\ e \notin ENTITY_KEYS \/ v = EmptyValue
    /\ reply' = Reply("refused", e, v, NoToken)
    /\ UNCHANGED vaultVars

\* The normalized value is indexed: its token is returned as it stands.
RegisterExisting(e, v) ==
    /\ <<e, Norm(e, v)>> \in DOMAIN valueIndex
    /\ reply' = Reply("register", e, v, valueIndex[<<e, Norm(e, v)>>])
    /\ UNCHANGED vaultVars

\* prefer_latest, which the engine asks for on prompted and corrected names:
\* the value takes over the latest token of its key, and the
\* value it displaces leaves the index.
OverwriteLatest(e, v) ==
    LET latest == LatestToken(e)
        freed == IF latest \in DOMAIN tokenToValue
                 THEN Drop(valueIndex, <<e, Norm(e, tokenToValue[latest])>>)
                 ELSE valueIndex
    IN  /\ <<e, Norm(e, v)>> \notin DOMAIN valueIndex
        /\ latest # NoToken
        /\ tokenToValue' = Put(tokenToValue, latest, v)
        /\ valueIndex' = Put(freed, <<e, Norm(e, v)>>, latest)
        /\ reply' = Reply("overwrite", e, v, latest)
        /\ UNCHANGED <<currentProfile, entityToTokens, entityCounters>>

\* A fresh token.  The profile plays no part in its number.
AllocateToken(e, v) ==
    LET n == NextIdx(e)
        token == <<e, n>>
    IN  /\ <<e, Norm(e, v)>> \notin DOMAIN valueIndex
        /\ entityCounters' = [entityCounters EXCEPT ![e] = n]
        /\ entityToTokens' = [entityToTokens EXCEPT ![e] = Append(@, token)]
        /\ tokenToValue' = Put(tokenToValue, token, v)
        /\ valueIndex' = Put(valueIndex, <<e, Norm(e, v)>>, token)
        /\ reply' = Reply("register", e, v, token)
        /\ UNCHANGED currentProfile

Register(e, v, preferLatest) ==
    \/ RegisterExisting(e, v)
    \/ preferLatest /\ OverwriteLatest(e, v)
    \/ /\ ~preferLatest \/ LatestToken(e) = NoToken
       /\ Len(entityToTokens[e]) < MaxTokens
       /\ AllocateToken(e, v)

\* The engine sets the flag on spans of names only.
PreferLatest(e) == IF e \in NAME_ENTITY_KEYS THEN BOOLEAN ELSE {FALSE}

Destroy ==
    /\ currentProfile' = 1
    /\ tokenToValue' = <<>>
    /\ entityToTokens' = [e \in ENTITY_KEYS |-> <<>>]
    /\ entityCounters' = [e \in ENTITY_KEYS |-> 0]
    /\ valueIndex' = <<>>
    /\ reply' = [call |-> "destroy", token |-> NoToken]

Next ==
    \/ AdvanceProfile
    \/ \E e \in ENTITY_KEYS : \E v \in Values[e] : \E preferLatest \in PreferLatest(e) :
          Register(e, v, preferLatest)
    \/ \E e \in ENTITY_KEYS \cup OtherKeys : RegisterRefused(e, EmptyValue)
    \/ Destroy

Spec == Init /\ [][Next]_vars

--------------------------------------------------------------------------------
\* Every dictionary holds what its Python annotation says.
TypeOK ==
    /\ currentProfile \in Nat \ {0}
    /\ DOMAIN tokenToValue \subseteq Tokens
    /\ \A t \in DOMAIN tokenToValue : tokenToValue[t] \in Values[t[1]]
    /\ entityToTokens \in [ENTITY_KEYS -> Seq(Tokens)]
    /\ entityCounters \in [ENTITY_KEYS -> Nat]
    /\ \A k \in DOMAIN valueIndex : k[1] \in ENTITY_KEYS /\ valueIndex[k] \in Tokens

\* Three dictionaries describe one set of tokens: the tokens of a key are
\* numbered 1..counter in order of issue, and those and no others have a value.
\* register() relies on it for a number that was never issued before.
TokensDense ==
    \A e \in ENTITY_KEYS :
        /\ entityToTokens[e] = [i \in 1 .. entityCounters[e] |-> <<e, i>>]
        /\ \A i \in 1 .. entityCounters[e] : <<e, i>> \in DOMAIN tokenToValue
        /\ \A t \in DOMAIN tokenToValue : t[1] = e => t[2] <= entityCounters[e]

\* The reverse index is exact: every token is found under the normalized form
\* of the value it holds now, and nothing else is indexed.  An overwrite that
\* left the displaced value behind would answer it with a stranger's token.
IndexExact ==
    /\ \A t \in DOMAIN tokenToValue :
          /\ <<t[1], Norm(t[1], tokenToValue[t])>> \in DOMAIN valueIndex
          /\ valueIndex[<<t[1], Norm(t[1], tokenToValue[t])>>] = t
    /\ \A k \in DOMAIN valueIndex :
          /\ valueIndex[k] \in DOMAIN tokenToValue
          /\ k = <<valueIndex[k][1], Norm(valueIndex[k][1], tokenToValue[valueIndex[k]])>>

\* The token register() returns stands, in the vault, for a value of that key
\* that normalizes as the registered one does: rehydrating the text the model
\* was shown brings back the disclosed value up to normalization.
ReplyResolves ==
    reply.call \in {"register", "overwrite"} =>
        /\ reply.token \in DOMAIN tokenToValue
        /\ reply.token[1] = reply.key
        /\ Norm(reply.key, tokenToValue[reply.token]) = Norm(reply.key, reply.value)

\* No call takes a token back or changes what it stands for, but two: destroy()
\* clears all of them, and a prefer_latest call may rewrite the latest token of
\* its own key.  Texts already sent out keep their meaning otherwise.
OnlyLatestRewritten ==
    [][\A t \in DOMAIN tokenToValue :
          \/ t \in DOMAIN tokenToValue' /\ tokenToValue'[t] = tokenToValue[t]
          \/ reply'.call = "destroy" /\ DOMAIN tokenToValue' = {}
          \/ reply'.call = "overwrite" /\ reply'.token = t /\ t = LatestToken(t[1])]_vars

\* The vault implements the ledger: position i of key e is the value of <e_i>.
Same(e, v, w) == Norm(e, v) = Norm(e, w)
LedgerOf == [e \in ENTITY_KEYS |-> [i \in 1 .. entityCounters[e] |-> tokenToValue[<<e, i>>]]]
AnswerOf == IF reply.token = NoToken THEN 0 ELSE reply.token[2]

Ledger == INSTANCE TokenLedger WITH
    Kinds <- ENTITY_KEYS, ledger <- LedgerOf, answer <- AnswerOf
LedgerSpec == Ledger!Spec

--------------------------------------------------------------------------------
\* What the documents say, and the code does not do.

\* The class docstring: advance_profile() moves the token namespace to *_2, *_3:
\* a token issued under a profile does not carry an earlier profile's number.
AdvanceMovesNamespace ==
    [][\A t \in DOMAIN tokenToValue' \ DOMAIN tokenToValue : t[2] >= currentProfile]_vars
================================================================================
