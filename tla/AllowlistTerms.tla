---------------------------- MODULE AllowlistTerms ----------------------------
(***************************************************************************)
(* From a refresh request to a list of terms (allowlist_cache.py up to      *)
(* extract_allowlist_terms, and _normalize_terms).  A JSON payload is a     *)
(* function on its paths: payload[p] is "object", "array" or the string at  *)
(* p, the root is <<>>, a step of a path is a member name or an index.      *)
(* Lists of nodes and of terms are sets here: the terms are deduplicated    *)
(* and sorted before anything looks at them.  A selector is a record        *)
(* [parses, tokens, include]: the tokens _tokenize_selector cuts it into,   *)
(* or FALSE for one it refuses.                                             *)
(***************************************************************************)
EXTENDS Naturals, Sequences, FiniteSets, SequencesExt

CONSTANTS
    MaxTerms,       \* allowlist_cache_max_terms
    Normal(_)       \* _normalize_text_phrase: what is left of a term, "" if nothing

\* What json.loads can give, and the tokens a selector that parses is cut into.
JsonDocument(payload) ==
    /\ DOMAIN payload \subseteq Seq(STRING) /\ <<>> \in DOMAIN payload
    /\ \A p \in DOMAIN payload : \A i \in 0 .. Len(p) : SubSeq(p, 1, i) \in DOMAIN payload
Token == [kind : {"descend", "any", "index", "name"}, at : STRING]

Parent(p) == SubSeq(p, 1, Len(p) - 1)
Children(payload, nodes) == {p \in DOMAIN payload : p # <<>> /\ Parent(p) \in nodes}
Below(payload, nodes) == {p \in DOMAIN payload : \E n \in nodes : IsPrefix(n, p)}

\* Whether a token other than ** leads from the parent of p to p: an index picks
\* from arrays only, a name from objects only.
Picks(payload, token, p) ==
    \/ token.kind = "any"
    \/ /\ token.kind = "index" /\ payload[Parent(p)] = "array"
       /\ Last(p) = token.at
    \/ /\ token.kind = "name" /\ payload[Parent(p)] = "object"
       /\ Last(p) = token.at

\* _select_nodes, token by token.  (Mutant: ** without the nodes themselves.)
NextNodesStrict(payload, nodes, token) ==
    IF token.kind = "descend" THEN Below(payload, nodes) \ nodes
    ELSE {p \in Children(payload, nodes) : Picks(payload, token, p)}
NextNodes(payload, nodes, token) ==
    IF token.kind = "descend" THEN Below(payload, nodes)
    ELSE {p \in Children(payload, nodes) : Picks(payload, token, p)}
Select(payload, tokens) ==
    FoldLeft(LAMBDA nodes, token : NextNodes(payload, nodes, token), {<<>>}, tokens)

\* _collect_string_values, _collect_string_keys
ValuesUnder(payload, nodes) ==
    {payload[p] : p \in {q \in Below(payload, nodes) : payload[q] \notin {"object", "array"}}}
KeysUnder(payload, nodes) ==
    {Last(p) : p \in {q \in DOMAIN payload : \E n \in nodes :
                         IsStrictPrefix(n, q) /\ payload[Parent(q)] = "object"}}

\* extract_allowlist_terms raises ValueError for a blank selector, a missing "]"
\* and an unknown include.
Refused(selector) ==
    ~selector.parses \/ selector.include \notin {"values", "keys", "both"}

Extract(payload, selector) ==
    LET nodes == Select(payload, selector.tokens)
    IN  (IF selector.include \in {"values", "both"} THEN ValuesUnder(payload, nodes) ELSE {})
        \cup (IF selector.include \in {"keys", "both"} THEN KeysUnder(payload, nodes) ELSE {})

\* _normalize_terms: a set of phrases, which is a ValueError when it is too large.
NormalTerms(terms) == {Normal(t) : t \in terms} \ {""}
TooMany(terms) == Cardinality(NormalTerms(terms)) > MaxTerms

--------------------------------------------------------------------------------
\* What a selector means, said without going through the nodes step by step: its
\* tokens cut the path into pieces, a ** of any length and every other of one step.
Covers(payload, tokens, p) ==
    \E cut \in [0 .. Len(tokens) -> 0 .. Len(p)] :
        /\ cut[0] = 0 /\ cut[Len(tokens)] = Len(p)
        /\ \A i \in DOMAIN tokens :
              IF tokens[i].kind = "descend" THEN cut[i - 1] <= cut[i]
              ELSE /\ cut[i] = cut[i - 1] + 1
                   /\ Picks(payload, tokens[i], SubSeq(p, 1, cut[i]))

SelectsExactly(payload, selector) ==
    Select(payload, selector.tokens) = {p \in DOMAIN payload : Covers(payload, selector.tokens, p)}
================================================================================
