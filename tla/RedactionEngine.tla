---------------------------- MODULE RedactionEngine ----------------------------
(***************************************************************************)
(* PIIEngine (pii_engine.py) over the vault of one scope: which spans a     *)
(* message is taken to hold, which of them are replaced by which tokens,    *)
(* and how a reply of the model gets its values back.                       *)
(*                                                                          *)
(* A text is a sequence of units, a blank apart: a word with the signs in   *)
(* it, a sign beside a word, or something in angle brackets.  A repeat of a  *)
(* known value is looked for in whole units; the code replaces a name that   *)
(* is a part of one, beside a sign or a digit, as well.                      *)
(* What the regular expressions and word lists find in a text and in the    *)
(* assistant's question is given with it; what the detectors of names       *)
(* (GLiNER, or the heuristics) infer is any subset of what they could.      *)
(* The vault is the ledger PIIVault keeps, in the order of issue.           *)
(***************************************************************************)
EXTENDS Naturals, Sequences, FiniteSets, SequencesExt

CONSTANTS
    Written(_),     \* the characters of a word, in lower case, as a sequence
    Signs,          \* the characters that are neither letters nor digits
    NameWords(_),   \* the words NAME_WORD_PATTERN finds in a word
    CoupleWord(_),  \* [A-Za-z][A-Za-z'-]* matches the word
    Camel(_),       \* the words, as Written, a value falls into when its blanks are dropped
                    \* and one is put before every capital after a small letter
    Phrase(_),      \* _normalize_text_phrase of a text, as a sequence of words
    Similar(_, _),  \* _is_similar_name_token, of phrases
    Fuzzy(_, _),    \* _matches_fuzzy_non_name_term, of a phrase and the allowlist
    NonNames,       \* phrases never taken for a known name: common words, regions, and
                    \* those of less than three letters
    Blocked,        \* words never taken for a name in a short answer: _is_blocked_name_token
    Alias,          \* ALIAS_TO_ENTITY
    Requests,       \* what is redacted: [m, q, pending, allow], the message, the assistant's
                    \* question, the name fields asked for and non_name_allowlist
    Replies,        \* what the model writes
    MaxValues       \* bound: a vault with so many values learns no other

VARIABLES
    vault,          \* the vault: what <key_n> stands for, in order of issue
    last,           \* the last redaction: what it had, found, chose and made
    reply           \* the last rehydration

vars == <<vault, last, reply>>

NameKeys == <<"fn", "mn1", "mn2", "ln">>
IsName(key) == key = "name" \/ key \in ToSet(NameKeys)
NAME_ALIASES == {"name", "full_name", "person", "customer_name"}

Unit(is, id, n) == [is |-> is, id |-> id, n |-> n]
Word(w) == Unit("word", w, 0)
Token(key, n) == Unit("token", key, n)

\* The indices of s by op, a strict order on them: the k-th has k - 1 before it.
Order(s, op(_, _)) ==
    LET places == {<<Cardinality({j \in DOMAIN s : op(j, i)}) + 1, i>> : i \in DOMAIN s}
    IN  [k \in DOMAIN s |-> CHOOSE i \in DOMAIN s : <<k, i>> \in places]

\* Those of s that pass, in their order.
Kept(s, test(_)) == FlattenSeq([i \in DOMAIN s |-> IF test(s[i]) THEN <<s[i]>> ELSE <<>>])

\* The letters and digits of a word, and of a text: _normalize of a name, and of a
\* number, which has no letters.  An address keeps its signs.
Letters(w) == Kept(Written(w), LAMBDA c : c \notin Signs)
Spelled(text) == [i \in DOMAIN text |-> Written(text[i].id)]
Norm(text) == FlattenSeq([i \in DOMAIN text |-> Letters(text[i].id)])
Normal(key, text) == IF key = "em" THEN Spelled(text) ELSE Norm(text)

Span(from, to, key, value, latest) ==
    [from |-> from, to |-> to, key |-> key, value |-> value, latest |-> latest]
Positions(span) == span.from .. span.to
Inside(span, range) == range[1] <= span.from /\ span.to <= range[2]
Plain(text, from, to, key) == Span(from, to, key, SubSeq(text, from, to), FALSE)

\* What a text is made of, and what a detector can give: spans of the text, each with a
\* value.  Only full names are read where anything may stand; the patterns of the other
\* kinds have no brackets.  What a message has in brackets is a token it repeats.
Units == {u \in [is : {"word", "token", "joined", "underscored", "bare"}, id : STRING, n : Nat] :
             Written(u.id) \in Seq(STRING)}
Words == {u \in Units : u.is = "word"}
SpansOf(text, keys) ==
    [from : 1 .. Len(text), to : 1 .. Len(text), key : keys, value : Seq(Units), latest : BOOLEAN]
Finds(text, spans, keys) ==
    /\ IsFiniteSet(spans)
    /\ \A s \in spans :
          /\ s \in SpansOf(text, keys)
          /\ s.from <= s.to /\ s.value # <<>>
          /\ s.key # "name" => ToSet(s.value) \subseteq Words
          /\ s.key = "name" =>
                \A u \in ToSet(s.value) :
                    /\ NameWords(u.id) \in Seq(STRING)
                    /\ \A w \in ToSet(NameWords(u.id)) : Written(w) \in Seq(STRING)

ASSUME RequestsAssumption ==
    \A r \in Requests :
        /\ r.m.text \in Seq(Units)
        /\ \A u \in ToSet(r.m.text) : u.is \in {"word", "token"}
        /\ Finds(r.m.text, r.m.presidio \cup r.m.expressions \cup r.m.spaced \cup r.m.unusual,
                 {"em", "ph"})
        /\ Finds(r.m.text, r.m.leading \cup r.m.inferred, ToSet(NameKeys) \cup {"name"})
ASSUME RepliesAssumption == Replies \subseteq Seq(Units)

--------------------------------------------------------------------------------
(* The vault.                                                                  *)

OfKey(v, key) == {i \in DOMAIN v : v[i].key = key}
Number(v, i) == Cardinality({j \in 1 .. i : v[j].key = v[i].key})
TokenAt(v, i) == Token(v[i].key, Number(v, i))
HasToken(v, u) == \E i \in DOMAIN v : TokenAt(v, i) = u
Latest(v, key) == CHOOSE i \in OfKey(v, key) : \A j \in OfKey(v, key) : j <= i
Known(v, key, value) == {i \in OfKey(v, key) : Normal(key, v[i].value) = Normal(key, value)}

Registered(v, key, value, latest) ==
    IF Known(v, key, value) # {} THEN [v |-> v, at |-> CHOOSE i \in Known(v, key, value) : TRUE]
    ELSE IF latest /\ OfKey(v, key) # {}
         THEN [v |-> [v EXCEPT ![Latest(v, key)].value = value], at |-> Latest(v, key)]
    ELSE [v |-> Append(v, [key |-> key, value |-> value]), at |-> Len(v) + 1]

--------------------------------------------------------------------------------
(* What the assistant asked for.  A question is a sequence of clauses, each a  *)
(* sequence of the cues in it, "request" for _REQUEST and "?" at its end.       *)

Has(clause, cue) == cue \in ToSet(clause)
Cues(q) == UNION {ToSet(q[i]) : i \in DOMAIN q}

\* requested_business_field: the last clause that asks, from its request on.
Asking(clause) ==
    IF Has(clause, "request")
    THEN SubSeq(clause, CHOOSE i \in DOMAIN clause : clause[i] = "request"
                            /\ \A j \in 1 .. i - 1 : clause[j] # "request", Len(clause))
    ELSE clause

BusinessField(q) ==
    LET asks(c) == Has(c, "request") \/ (Has(c, "?") /\ c[1] # "example")
        requests == Kept(q, asks)
        cues == IF requests = <<>> THEN {} ELSE ToSet(Asking(Last(requests)))
        first == Kept(<<"website", "role", "company", "subject">>, LAMBDA f : f \in cues)
    IN  IF "person_name" \in cues \/ first = <<>> THEN "none" ELSE Head(first)

\* _assistant_name_request_type
NameRequest(q) ==
    LET cues == Cues(q)
    IN  IF {"last", "first_already"} \subseteq cues THEN "last"
        ELSE IF "full" \in cues \/ {"first", "last"} \subseteq cues THEN "full"
        ELSE IF "last" \in cues THEN "last"
        ELSE IF "first" \in cues THEN "first"
        ELSE IF "contact" \in cues THEN IF "name" \in cues THEN "full" ELSE "none"
        ELSE IF "your_name" \in cues THEN "first" ELSE "none"

NameWord(u) == u.is = "word" /\ NameWords(u.id) = <<u.id>>
Only(text, p) == SubSeq(text, p, p)

\* _pending_name_request_type: a reply of one word, a full stop or the like after it,
\* that looks like a name ("name_like": a capital first, and no word of an answer).
PendingRequest(m, pending, allow) ==
    IF /\ {"first_name", "last_name"} \cap pending # {} /\ "name_like" \in m.traits
       /\ Len(m.text) \in {1, 2} /\ NameWord(m.text[1])
       /\ Len(m.text) = 2 => m.text[2] \in {Word("."), Word("!"), Word("?")}
       /\ Written(m.text[1].id) \notin Blocked /\ Phrase(Only(m.text, 1)) \notin allow
    THEN IF "first_name" \in pending THEN "first" ELSE "last"
    ELSE "none"

RequestType(m, q, pending, allow) ==
    LET asked == IF BusinessField(q) = "none" THEN NameRequest(q) ELSE "none"
    IN  IF asked # "none" THEN asked ELSE PendingRequest(m, pending, allow)

\* _should_suppress_name_detection
NamesIn(text) == FlattenSeq([i \in DOMAIN text |-> NameWords(text[i].id)])
Suppressed(m, q, type, allow) ==
    LET phrase == Phrase(m.text)
        count == Len(NamesIn(m.text))
    IN  \/ {"assistant_greeting", "contact_parenthetical"} \cap m.traits # {}
        \/ type = "last" /\ "courtesy" \in m.traits
        \/ type # "none" /\ "same_name" \in m.traits
        \/ /\ type = "none" /\ phrase # <<>>
           /\ \/ {"non_name_phrase", "contact_lookup"} \cap m.traits # {}
              \/ /\ {"introduction", "labelled"} \cap m.traits = {}
                 /\ m.expressions = {} /\ count \in 1 .. 5
                 /\ \/ "repeats_place" \in m.traits
                    \/ /\ {"plan", "location"} \cap Cues(q) # {}
                       /\ phrase \in allow \/ Fuzzy(phrase, allow)
                    \/ "plan" \in Cues(q) /\ "plan_code" \in m.traits
                    \/ "location" \in Cues(q) /\ (count \in 2 .. 4 \/ (count = 1 /\ "region" \in m.traits))

--------------------------------------------------------------------------------
(* The spans of a message, in the order in which _collect_spans lists them.    *)

\* _name_repeat_variants: a name as it is, without its blanks, and apart where a
\* capital follows a small letter.  A name is not looked for in a form that is common
\* or allowed.
Variants(entry) ==
    {Spelled(entry.value)}
    \cup IF IsName(entry.key) THEN {<<FlattenSeq(Spelled(entry.value))>>, Camel(entry.value)} ELSE {}
Forms(entry, suppressed, allow) ==
    {form \in Variants(entry) : IsName(entry.key) => ~suppressed /\ form \notin NonNames \cup allow}

\* A number of ten digits or more: its last ten as 3, 3 and 4, whatever separates
\* them, after a 1 or not.
Digit == {"0", "1", "2", "3", "4", "5", "6", "7", "8", "9"}
Digits(chars) == Kept(chars, LAMBDA c : c \in Digit)
Characters(text) ==
    FlattenSeq([i \in DOMAIN text |-> (IF i = 1 THEN <<>> ELSE <<"blank">>) \o Written(text[i].id)])
Local(value) == LET d == Digits(Characters(value)) IN SubSeq(d, Len(d) - 9, Len(d))
LongNumber(entry) == entry.key = "ph" /\ Len(Digits(Characters(entry.value))) >= 10
ReadsAsNumber(chars, local) ==
    LET prefix == Len(Digits(chars)) - 10
        digitAt(k) == k \in DOMAIN chars /\ chars[k] \in Digit
        separates(k) == chars[k] \in {"blank", ".", "-", "+"}
        fits(k, n) ==           \* n: the digits before it
            \/ n = 0 /\ prefix = 1 /\ k = 1 /\ chars[k] = "+"
            \/ n = 1 /\ prefix = 1 /\ separates(k)
            \/ n = prefix /\ chars[k] = "(" /\ digitAt(k + 1)
            \/ n = prefix + 3 /\ chars[k] = ")" /\ digitAt(k - 1)
            \/ n \in {prefix + 3, prefix + 6} /\ separates(k)
    IN  /\ Digits(chars) \in {local, <<"1">> \o local}
        /\ \A k \in DOMAIN chars :
              digitAt(k) \/ fits(k, Len(Digits(SubSeq(chars, 1, k - 1))))

\* finditer: the first place where the words read as they should, then the first after
\* it, and so on.  resume[i]: where the search goes on that has come past place i.
Matches(text, reads(_)) ==
    LET readings == {r \in (DOMAIN text) \X (DOMAIN text) :
                        /\ r[1] <= r[2] /\ \A i \in r[1] .. r[2] : text[i].is = "word"
                        /\ reads(r)}
        resume[i \in 0 .. Len(text)] ==
            IF i = 0 THEN 1
            ELSE IF resume[i - 1] <= i /\ \E r \in readings : r[1] = i
                 THEN (CHOOSE r \in readings : r[1] = i)[2] + 1
            ELSE resume[i - 1]
    IN  {r \in readings : resume[r[1] - 1] <= r[1]}

\* _detect_repeat_value_spans: the values of the vault, the longest first.
Occurrences(text, entry, suppressed, allow) ==
    LET words == Spelled(text)
        number(r) == ReadsAsNumber(Characters(SubSeq(text, r[1], r[2])), Local(entry.value))
    IN  IF LongNumber(entry) THEN Matches(text, number)
        ELSE UNION {Matches(text, LAMBDA r : SubSeq(words, r[1], r[2]) = form) :
                       form \in Forms(entry, suppressed, allow)}
Repeats(text, v, suppressed, allow) ==
    LET size == [i \in DOMAIN v |-> Len(Characters(v[i].value))]
        order == Order(v, LAMBDA i, j : size[i] > size[j] \/ (size[i] = size[j] /\ i < j))
        spans(e) == {Plain(text, r[1], r[2], e.key) : r \in Occurrences(text, e, suppressed, allow)}
    IN  FlattenSeq([k \in DOMAIN v |-> SetToSeq(spans(v[order[k]]))])

\* E-mail addresses and phone numbers: Presidio's and the regular expressions' in
\* any message, one typed with a space or in other groups where one was asked for.
Contacts(m, q) ==
    SetToSeq(m.presidio) \o SetToSeq(m.expressions)
    \o (IF "email" \in Cues(q) THEN SetToSeq(m.spaced) ELSE <<>>)
    \o (IF "phone" \in Cues(q) THEN SetToSeq(m.unusual) ELSE <<>>)

\* _detect_name_correction_spans: a surname like the known one, alone, before a
\* refusal of contact, or after the known first name, takes its place.
Stops == {",", ".", "!", "?", ";", ":"}
Correction(m, v, allow) ==
    LET known(key) == Phrase(v[Latest(v, key)].value)
        span(p) == Span(p, p, "ln", Only(m.text, p), TRUE)
        surname(p) == /\ NameWord(m.text[p]) /\ Written(m.text[p].id) \notin Blocked
                      /\ Phrase(Only(m.text, p)) \notin allow
                      /\ Similar(Phrase(Only(m.text, p)), known("ln"))
        ends(p) == \/ p = Len(m.text)
                   \/ Head(Written(m.text[p + 1].id)) \in Stops
                   \/ \E c \in m.expressions : c.from = p + 1
    IN  IF OfKey(v, "fn") = {} \/ OfKey(v, "ln") = {} \/ m.text = <<>> THEN <<>>
        ELSE IF (Len(m.text) = 1 \/ "negative_tail" \in m.traits) /\ surname(1) THEN <<span(1)>>
        ELSE IF /\ Len(m.text) >= 2
                /\ NameWord(m.text[1]) /\ Phrase(Only(m.text, 1)) = known("fn")
                /\ surname(2) /\ ends(2)
             THEN <<span(2)>>
        ELSE <<>>

\* A name inferred inside a business answer is dropped.
WithoutBusiness(spans, ranges) ==
    Kept(spans, LAMBDA s : ~IsName(s.key) \/ ~\E r \in ranges : Inside(s, r))

\* _collect_spans and _filter_internal_context_spans.  (Mutants: business answers hide
\* what is known, too; corrections are looked for where names are suppressed.)
BusinessRanges(m, q) == IF BusinessField(q) = "none" THEN {} ELSE m.business[BusinessField(q)]
OutsideGreetings(m, spans) == Kept(spans, LAMBDA s : ~\E r \in m.greeting : Inside(s, r))
\* Corrections come after the eight detectors of names at the edges of a message.
Names(m, v, allow, inferred) ==
    SetToSeq(inferred \cap m.leading) \o Correction(m, v, allow) \o SetToSeq(inferred \cap m.inferred)
SpansDropped(m, q, v, suppressed, allow, inferred) ==
    LET new == IF suppressed THEN <<>> ELSE Names(m, v, allow, inferred)
    IN  OutsideGreetings(m, WithoutBusiness(Repeats(m.text, v, suppressed, allow)
                                            \o Contacts(m, q) \o new, BusinessRanges(m, q)))
SpansCorrected(m, q, v, suppressed, allow, inferred) ==
    LET new == IF suppressed THEN Correction(m, v, allow) ELSE Names(m, v, allow, inferred)
    IN  OutsideGreetings(m, Repeats(m.text, v, suppressed, allow) \o Contacts(m, q)
                            \o WithoutBusiness(new, BusinessRanges(m, q)))
Spans(m, q, v, suppressed, allow, inferred) ==
    LET new == IF suppressed THEN <<>> ELSE Names(m, v, allow, inferred)
    IN  OutsideGreetings(m, Repeats(m.text, v, suppressed, allow) \o Contacts(m, q)
                            \o WithoutBusiness(new, BusinessRanges(m, q)))

\* _non_overlapping_spans: by start, the spans with a key of their own first, then
\* the longest, then as listed; one that overlaps a span taken before is left out.
Before(spans, i, j) ==
    LET s == spans[i]
        t == spans[j]
    IN  \/ s.from < t.from
        \/ /\ s.from = t.from
           /\ \/ s.key # "name" /\ t.key = "name"
              \/ /\ (s.key = "name") <=> (t.key = "name")
                 /\ s.to > t.to \/ (s.to = t.to /\ i < j)
SpanOrder(spans) == Order(spans, LAMBDA i, j : Before(spans, i, j))
\* (Mutant: spans that touch overlap.)
Touch(s, t) == s.from <= t.to + 1 /\ t.from <= s.to + 1
Overlap(s, t) == Positions(s) \cap Positions(t) # {}
\* (Mutant: every span is taken.)
AllOrdered(spans) == [k \in DOMAIN spans |-> spans[SpanOrder(spans)[k]]]
Take(sel, span) == IF \E s \in ToSet(sel) : Overlap(s, span) THEN sel ELSE Append(sel, span)
Taken(spans) == FoldLeft(LAMBDA sel, i : Take(sel, spans[i]), <<>>, SpanOrder(spans))
NonOverlapping(spans) ==
    LET taken == Taken(spans)
        order == Order(taken, LAMBDA i, j : taken[i].from < taken[j].from)
    IN  [k \in DOMAIN taken |-> taken[order[k]]]

--------------------------------------------------------------------------------
(* The replacements.                                                           *)

\* What a name is made of: the words of its units, digits and other signs left out.
\* (Mutant: the unit as it stands.)
AsItStands(u) == <<u>>
WordsOf(u) == [i \in DOMAIN NameWords(u.id) |-> Word(NameWords(u.id)[i])]
Titles == {"mr", "mr.", "mrs", "mrs.", "ms", "ms.", "dr", "dr.", "prof", "prof."}
Title(u) == u.is = "word" /\ \E t \in Titles : Written(u.id) = Written(t)
And == Word("and")
Ampersand == Word("&")
ASSUME AndAssumption == And \in Words

\* _split_name_parts
Named(value) ==
    LET untitled == IF value # <<>> /\ Title(value[1]) /\ Len(value) > 1 THEN Tail(value) ELSE value
    IN  Kept(FlattenSeq([i \in DOMAIN untitled |-> WordsOf(untitled[i])]),
             LAMBDA u : Written(u.id) # Written(And.id))
KeysFor(n) ==
    CASE n = 0 -> <<>> [] n = 1 -> <<"fn">> [] n = 2 -> <<"fn", "ln">>
      [] n = 3 -> <<"fn", "mn1", "ln">> [] OTHER -> NameKeys
Part(words, i) == [key |-> KeysFor(Len(words))[i],
                   value |-> IF i = 4 THEN SubSeq(words, 4, Len(words)) ELSE <<words[i]>>]
\* (Mutant: one word each, in the order of the keys.)
PartsByWord(value) ==
    [i \in DOMAIN KeysFor(Len(Named(value))) |->
        [key |-> NameKeys[i], value |-> <<Named(value)[i]>>]]
Parts(value) == [i \in DOMAIN KeysFor(Len(Named(value))) |-> Part(Named(value), i)]

\* "Ann and Bob Lee", "Ann & Bob Lee"
Coordinated(value) ==
    /\ Len(value) = 4 /\ value[2] \in {And, Ampersand}
    /\ \A i \in {1, 3, 4} : value[i].is = "word" /\ CoupleWord(value[i].id)

\* What a span is registered as.
Entries(span) ==
    LET part(key, i) == [key |-> key, value |-> <<span.value[i]>>]
    IN  IF span.key # "name" THEN <<[key |-> span.key, value |-> span.value]>>
        ELSE IF Coordinated(span.value) THEN <<part("fn", 1), part("mn1", 3), part("ln", 4)>>
        ELSE Parts(span.value)

\* Registers parts in order, into [v, out].
Register(start, parts, latest) ==
    FoldLeft(LAMBDA r, p :
                LET reg == Registered(r.v, p.key, p.value, latest)
                IN  [v |-> reg.v, out |-> Append(r.out, TokenAt(reg.v, reg.at))],
             start, parts)

\* _placeholder_for_span: a couple keeps its "and", and what has no word of a name
\* stays as it is.
Placeholder(v, span) ==
    LET couple == span.key = "name" /\ Coordinated(span.value)
        r == Register([v |-> v, out |-> <<>>], Entries(span), span.latest /\ ~couple)
    IN  IF Entries(span) = <<>> THEN [v |-> v, out |-> span.value]
        ELSE IF couple THEN [r EXCEPT !.out = <<@[1], And, @[2], @[3]>>]
        ELSE r

\* redact()
Replaced(text, chosen, v) ==
    LET step(r, s) == LET p == Placeholder(r.v, s)
                      IN  [v |-> p.v, cursor |-> s.to + 1,
                           out |-> r.out \o SubSeq(text, r.cursor, s.from - 1) \o p.out]
        r == FoldLeft(step, [v |-> v, cursor |-> 1, out |-> <<>>], chosen)
    IN  [v |-> r.v, out |-> r.out \o SubSeq(text, r.cursor, Len(text))]

--------------------------------------------------------------------------------
(* The way back.                                                               *)

\* repair_placeholders, for one thing in brackets: "joined" is an alias with a number
\* (<first1>), "underscored" one with _ and a number that is no token as it stands
\* (<FN_1>: the alias is looked up with its _ and never found), "bare" an alias alone.
RepairOne(u, v) ==
    LET latest(key) == TokenAt(v, Latest(v, key))
    IN  CASE u.is = "joined" /\ u.id \in DOMAIN Alias ->
                IF HasToken(v, Token(Alias[u.id], u.n)) THEN <<Token(Alias[u.id], u.n)>> ELSE <<u>>
          [] u.is = "bare" /\ u.id \in NAME_ALIASES ->
                IF OfKey(v, "fn") = {} THEN <<u>>
                ELSE IF OfKey(v, "ln") = {} THEN <<latest("fn")>>
                ELSE <<latest("fn"), latest("ln")>>
          [] u.is = "bare" /\ u.id \in DOMAIN Alias \ NAME_ALIASES ->
                IF OfKey(v, Alias[u.id]) = {} THEN <<u>> ELSE <<latest(Alias[u.id])>>
          [] OTHER -> <<u>>
Repaired(text, v) == FlattenSeq([i \in DOMAIN text |-> RepairOne(text[i], v)])

\* rehydrate(): token after token, the longest first.
Replace(text, u, value) ==
    FlattenSeq([i \in DOMAIN text |-> IF text[i] = u THEN value ELSE <<text[i]>>])
Clean(text, v) ==
    LET size(i) == (IF v[i].key \in {"mn1", "mn2"} THEN 3 ELSE 2) + (IF Number(v, i) > 9 THEN 2 ELSE 1)
        order == Order(v, LAMBDA i, j : size(i) > size(j) \/ (size(i) = size(j) /\ i < j))
    IN  FoldLeft(LAMBDA t, i : Replace(t, TokenAt(v, i), v[i].value), text, order)

--------------------------------------------------------------------------------
NoRedaction == [made |-> FALSE]
NoReply == [made |-> FALSE]
Idle == ~last.made /\ ~reply.made

Init ==
    /\ vault = <<>>
    /\ last = NoRedaction
    /\ reply = NoReply

\* What the detectors of names may infer: nothing that is allowlisted, and a name that
\* takes over the tokens only in answer to the question for a surname, its first name
\* like the known one.
TakesOver(span, type, v) ==
    /\ type = "last" /\ OfKey(v, "fn") # {}
    /\ Similar(Phrase(Only(span.value, 1)), Phrase(v[Latest(v, "fn")].value))
MayInfer(m, type, v, allow) ==
    SUBSET {s \in m.leading \cup m.inferred :
               Phrase(s.value) \notin allow /\ (s.latest => TakesOver(s, type, v))}

Redaction(m, q, v, suppressed, allow, inferred) ==
    LET spans == Spans(m, q, v, suppressed, allow, inferred)
        chosen == NonOverlapping(spans)
        r == Replaced(m.text, chosen, v)
    IN  [made |-> TRUE, m |-> m, q |-> q, allow |-> allow, suppressed |-> suppressed, before |-> v,
         spans |-> ToSet(spans), chosen |-> chosen, out |-> r.out, after |-> r.v]

Redact(m, q, pending, allow) ==
    LET type == RequestType(m, q, pending, allow)
        suppressed == Suppressed(m, q, type, allow)
        may == IF suppressed THEN {{}} ELSE MayInfer(m, type, vault, allow)
    IN  \E r \in {Redaction(m, q, vault, suppressed, allow, inferred) : inferred \in may} :
            /\ Len(vault) < MaxValues \/ Len(r.after) = Len(vault)
            /\ vault' = r.after
            /\ last' = r
            /\ UNCHANGED reply

Rehydrate(text) ==
    LET repaired == Repaired(text, vault)
    IN  /\ reply' = [made |-> TRUE, text |-> text, repaired |-> repaired,
                     clean |-> Clean(repaired, vault)]
        /\ UNCHANGED <<vault, last>>

\* The answer is out, and the next request comes.
Answer ==
    /\ ~Idle
    /\ last' = NoRedaction
    /\ reply' = NoReply
    /\ UNCHANGED vault

Next ==
    \/ Idle /\ \E r \in Requests : Redact(r.m, r.q, r.pending, r.allow)
    \/ Idle /\ \E text \in Replies : Rehydrate(text)
    \/ Answer

Spec == Init /\ [][Next]_vars

--------------------------------------------------------------------------------
EngineTypeOK ==
    /\ \A i \in DOMAIN vault :
          /\ vault[i].key \in ToSet(NameKeys) \cup {"em", "ph"}
          /\ vault[i].value # <<>>
    /\ last.made => \A i, j \in DOMAIN last.chosen :
                       i < j => last.chosen[i].to < last.chosen[j].from

Covered(p) == \E i \in DOMAIN last.chosen : p \in Positions(last.chosen[i])
InGreeting(span) == \E r \in last.m.greeting : Inside(span, r)

\* Every address and number found in a message leaves it as a whole, whatever names
\* are inferred or known around it and whether or not names are suppressed; only a
\* span that begins before it can cut it, and then its beginning is gone.
ContactsCovered ==
    last.made =>
        \A c \in {s \in ToSet(Contacts(last.m, last.q)) : ~InGreeting(s)} :
            /\ Covered(c.from)
            /\ \/ \A p \in Positions(c) : Covered(p)
               \/ \E i \in DOMAIN last.chosen :
                    last.chosen[i].from < c.from /\ Overlap(last.chosen[i], c)

\* What the patterns of a known value match in a message does not go out as it stands,
\* whatever is found beside it or across it: a contact never, a name unless names are
\* suppressed or that form of it is common or allowlisted, or it stands in the opening
\* greeting.  Another spelling than these patterns have is not promised.
KnownValuesHidden ==
    last.made =>
        \A e \in ToSet(last.before) :
            \A r \in Occurrences(last.m.text, e, last.suppressed, last.allow) :
                InGreeting(Plain(last.m.text, r[1], r[2], e.key)) \/ Covered(r[1])

\* A message that must not be read for names, and the part of one that answers a
\* question about the business, teaches the vault no name: every entry that is new or
\* rewritten is a part of a name that was chosen, outside the answer or known before.
NamesLearned ==
    last.made =>
        \A i \in DOMAIN vault :
            (i > Len(last.before) \/ vault[i] # last.before[i]) /\ IsName(vault[i].key) =>
                /\ ~last.suppressed
                /\ \E s \in ToSet(last.chosen) :
                      /\ IsName(s.key) /\ vault[i] \in ToSet(Entries(s))
                      /\ \/ \A r \in BusinessRanges(last.m, last.q) : ~Inside(s, r)
                         \/ s \in ToSet(Repeats(last.m.text, last.before, FALSE, last.allow))

\* The redacted text, given back, reads letter for letter as the message did with what
\* each span was taken for in its place: an address or number its value, a couple with
\* "and", any other name the words NAME_WORD_PATTERN finds in it, without title and
\* "and".  The tokens stand in the right places for the right values even when a value
\* is known already, is split into parts or takes over a token.  Out of its reach is a
\* message that uses a token and then, in the same breath, corrects it, and one with
\* brackets.
Said(span) ==
    LET value == span.value
    IN  IF span.key # "name" THEN value
        ELSE IF Coordinated(value) THEN <<value[1], And, value[3], value[4]>>
        ELSE IF Named(value) = <<>> THEN value ELSE Named(value)
Heard(text, chosen) ==
    LET n == Len(chosen)
        gap(k) == SubSeq(text, IF k = 1 THEN 1 ELSE chosen[k - 1].to + 1,
                               IF k > n THEN Len(text) ELSE chosen[k].from - 1)
    IN  FlattenSeq([k \in 1 .. n + 1 |-> gap(k) \o IF k > n THEN <<>> ELSE Said(chosen[k])])
CorrectsItself(chosen) ==
    \E i \in DOMAIN chosen : \E j \in 1 .. i - 1 :
        chosen[i].latest /\ (chosen[j].key = chosen[i].key \/ "name" \in {chosen[i].key, chosen[j].key})
AllWords(text) == \A u \in ToSet(text) : u.is = "word"
RoundTrip ==
    /\ last.made /\ ~CorrectsItself(last.chosen) /\ AllWords(last.m.text)
    /\ \A span \in ToSet(last.chosen) : AllWords(span.value)
    => Norm(Clean(Repaired(last.out, vault), vault)) = Norm(Heard(last.m.text, last.chosen))

\* Rehydration leaves no token of the vault behind and brings back no more than one
\* value for each: replacing the tokens one after the other in the text they make is
\* the same as replacing all of them at once, since no value holds a token's text;
\* and a placeholder is repaired into tokens the vault has or left as it is.
AtOnce(text, v) ==
    FlattenSeq([i \in DOMAIN text |->
        IF HasToken(v, text[i])
        THEN v[CHOOSE j \in DOMAIN v : TokenAt(v, j) = text[i]].value ELSE <<text[i]>>])
RehydrationExact ==
    reply.made =>
        /\ reply.clean = AtOnce(reply.repaired, vault)
        /\ \A u \in ToSet(reply.clean) : ~HasToken(vault, u)
        /\ \A u \in ToSet(reply.repaired) : HasToken(vault, u) \/ u \in ToSet(reply.text)
================================================================================
