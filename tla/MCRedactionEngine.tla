--------------------------- MODULE MCRedactionEngine ---------------------------
(* Constants for model checking RedactionEngine: names that are written joined  *)
(* and apart, that are words of the allowlist or common ones, that correct each *)
(* other, and messages in which names, addresses and business answers meet.     *)
EXTENDS RedactionEngine, TLC

\* How words are written, letters in pieces that nothing divides.
Spelt == [ AgentDan |-> <<"agent", "dan">>, AgentDon |-> <<"agent", "don">>, Lee |-> <<"lee">>,
           Leeh |-> <<"lee", "h">> ]
         @@ ("Lee2" :> <<"lee", "2">>) @@ ("O'Shea" :> <<"o", "'", "shea">>)
         @@ ("1" :> <<"1">>) @@ ("(555)" :> <<"(", "5", "5", "5", ")">>)
         @@ ("123-4567" :> <<"1", "2", "3", "-", "4", "5", "6", "7">>)
         @@ ("555-1234-567" :> <<"5", "5", "5", "-", "1", "2", "3", "4", "-", "5", "6", "7">>)
         @@ ("555-123-4567" :> <<"5", "5", "5", "-", "1", "2", "3", "-", "4", "5", "6", "7">>)
MCWritten(w) == IF w \in DOMAIN Spelt THEN Spelt[w] ELSE <<w>>
MCSigns == {"'", "-", "(", ")", "&", ","}
Numbers == {"1", "(555)", "123-4567", "555-123-4567", "555-1234-567"}
MCNameWords(w) ==
    CASE w \in MCSigns \cup Numbers -> <<>>
      [] w = "Lee2"                 -> <<"Lee">>
      [] w = "dan@gmail.com"        -> <<"dan", "gmail", "com">>
      [] OTHER                      -> <<w>>
MCCoupleWord(w) == w \notin MCSigns \cup Numbers \cup {"Lee2", "dan@gmail.com"}
Capital == {"AgentDan", "AgentDon", "Lee", "Leeh", "Lee2", "O'Shea"}
Apart(w) == IF w \in {"AgentDan", "AgentDon"} THEN [i \in 1 .. 2 |-> <<MCWritten(w)[i]>>]
            ELSE <<MCWritten(w)>>
MCCamel(value) ==
    IF \A i \in 2 .. Len(value) : value[i].id \in Capital
    THEN FlattenSeq([i \in DOMAIN value |-> Apart(value[i].id)])
    ELSE <<FlattenSeq([i \in DOMAIN value |-> MCWritten(value[i].id)])>>
MCPhrase(text) ==
    SelectSeq([i \in DOMAIN text |->
                  SelectSeq(MCWritten(text[i].id), LAMBDA c : c \notin MCSigns \ {"'", "-"})],
              LAMBDA w : w # <<>>)
MCSimilar(a, b) ==
    /\ a # <<>> /\ b # <<>>
    /\ a = b \/ {a, b} \in { {<<<<"lee">>>>, <<<<"lee", "h">>>>}, {<<<<"agent", "dan">>>>, <<<<"agent", "don">>>>} }
MCFuzzy(phrase, allow) ==
    phrase = <<<<"agent", "don">>, <<"lee">>>> /\ <<<<"agent", "dan">>, <<"lee">>>> \in allow
MCNonNames == {<<<<"may">>>>}
MCBlocked == {<<"may">>}
MCAlias == [first |-> "fn", first_name |-> "fn", last |-> "ln", fn |-> "fn", ln |-> "ln", email |-> "em"]

W(ids) == [i \in DOMAIN ids |-> Word(ids[i])]
\* A message with what is found in it; f overrides the empty findings.
Found(f, field) == IF field \in DOMAIN f THEN f[field] ELSE {}
Message(text, f) ==
    [text |-> text,
     presidio |-> Found(f, "presidio"), expressions |-> Found(f, "expressions"),
     spaced |-> Found(f, "spaced"), unusual |-> Found(f, "unusual"),
     leading |-> Found(f, "leading"), inferred |-> Found(f, "inferred"),
     business |-> IF "business" \in DOMAIN f THEN f.business
                  ELSE [website |-> {}, role |-> {}, company |-> {}, subject |-> {}],
     greeting |-> Found(f, "greeting"), traits |-> Found(f, "traits")]
Company(ranges) == [website |-> {}, role |-> {}, company |-> ranges, subject |-> {}]

\* "AgentDan", an answer of one word.
Joined == LET t == W(<<"AgentDan">>)
          IN Message(t, [inferred |-> {Plain(t, 1, 1, "fn")}, traits |-> {"name_like"}])
\* "Lee": a surname, or a correction of one.
Surname(w) == LET t == W(<<w>>)
              IN Message(t, [inferred |-> {Plain(t, 1, 1, "ln")}, traits |-> {"name_like"}])
\* "AgentDon Lee, my full name": a first name like the known one.
Renamed == LET t == W(<<"AgentDon", "Lee">>)
           IN Message(t, [inferred |-> {Span(1, 2, "name", t, TRUE)}])
\* "AgentDan Leeh, ..." and "AgentDan Leeh 555-123-4567": a surname corrected after the
\* known first name, before a sign and before a number.
Corrected == LET t == W(<<"AgentDan", "Leeh", ",", "may">>) IN Message(t, [inferred |-> {Plain(t, 2, 2, "ln")}])
CorrectedBefore ==
    LET t == W(<<"AgentDan", "Leeh", "555-123-4567">>)
    IN Message(t, [expressions |-> {Plain(t, 3, 3, "ph")}, leading |-> {Plain(t, 1, 2, "name")}])
\* "agent dan Lee2 dan@gmail.com": a known name written apart, and an address that is
\* one word or, where one was asked for, two.
Address == LET t == W(<<"agent", "dan", "Lee2", "dan@gmail.com">>)
           IN Message(t, [presidio |-> {Plain(t, 4, 4, "em")}, expressions |-> {Plain(t, 4, 4, "em")},
                          spaced |-> {Span(3, 4, "em", W(<<"Lee2dan@gmail.com">>), FALSE)},
                          inferred |-> {Plain(t, 2, 3, "name"), Plain(t, 1, 3, "name")}])
\* "mr AgentDan Lee 555-123-4567"
Titled == LET t == W(<<"mr", "AgentDan", "Lee", "555-123-4567">>)
          IN Message(t, [expressions |-> {Plain(t, 4, 4, "ph")}, leading |-> {Plain(t, 1, 3, "name")},
                         inferred |-> {Plain(t, 3, 3, "ln")}])
\* "1 (555) 123-4567": a number in another grouping, and "555-1234-567", which is found
\* only where a number was asked for, then as 555-123-4567, and not when it is repeated.
Regrouped == LET t == W(<<"1", "(555)", "123-4567">>) IN Message(t, [expressions |-> {Plain(t, 1, 3, "ph")}])
Unusual == LET t == W(<<"555-1234-567">>)
           IN Message(t, [unusual |-> {Span(1, 1, "ph", W(<<"555-123-4567">>), FALSE)}])
\* "agent and AgentDan Lee", "agent & AgentDan Lee"
Couple(joint) == LET t == W(<<"agent", joint, "AgentDan", "Lee">>)
                 IN Message(t, [leading |-> {Plain(t, 1, 4, "name")}, traits |-> {"introduction"}])
\* "AgentDan AgentDan may dan Lee", five words of one name
Long == LET t == W(<<"AgentDan", "AgentDan", "may", "dan", "Lee">>)
        IN Message(t, [inferred |-> {Plain(t, 1, 5, "name")}])
\* "AgentDan , Lee2": a sign and a digit inside of what is taken for a name.
Signed == LET t == W(<<"AgentDan", ",", "Lee2">>)
          IN Message(t, [inferred |-> {Plain(t, 1, 3, "name"), Plain(t, 2, 2, "name")}])
\* "AgentDan O'Shea": a name with a sign in it.
Irish == LET t == W(<<"AgentDan", "O'Shea">>) IN Message(t, [inferred |-> {Plain(t, 1, 2, "name")}])
\* "<fn_1> Lee": a token echoed by the user.
Echo == LET t == <<Token("fn", 1), Word("Lee")>>
        IN Message(t, [inferred |-> {Plain(t, 1, 2, "name")}])
\* "Lee Homes AgentDan": a company in whose name a person's may be.
Business == LET t == W(<<"Lee", "Homes", "AgentDan">>)
            IN Message(t, [inferred |-> {Plain(t, 1, 2, "name"), Plain(t, 3, 3, "fn")},
                           business |-> Company({<<1, 2>>})])
\* The opening greeting of an embedded assistant, then a name.
Greeted == LET t == W(<<"hi", "AgentDan", "Lee">>)
           IN Message(t, [greeting |-> {<<1, 2>>}, inferred |-> {Plain(t, 2, 2, "fn"), Plain(t, 3, 3, "ln")}])

AsksFirst == <<<<"first", "?">>>>
AsksLast == <<<<"last", "first_already">>>>
AsksCompany == <<<<"person_name", "first">>, <<"first", "request", "company", "?">>>>
AsksContact == <<<<"contact", "email", "phone", "?">>>>
AsksPlace == <<<<"location", "?">>>>
AsksPlan == <<<<"plan", "?">>>>

Request(m, q, pending, allow) == [m |-> m, q |-> q, pending |-> pending, allow |-> allow]
Pairs(messages, questions) == {Request(m, q, {}, {}) : m \in messages, q \in questions}
\* Each message after the questions it may answer and after none; the allowlist and the
\* pending fields matter to short answers.
MCRequests ==
    Pairs({Joined, Surname("Lee")}, {<<>>, AsksFirst, AsksLast, AsksCompany, AsksContact, AsksPlace})
    \cup Pairs({Titled, Surname("Leeh")}, {<<>>, AsksLast, AsksCompany})
    \cup Pairs({Renamed}, {AsksLast})
    \cup Pairs({Address, Regrouped, Unusual}, {<<>>, AsksContact})
    \cup Pairs({Business}, {<<>>, AsksFirst, AsksCompany})
    \cup Pairs({Couple("and"), Couple("&"), Greeted}, {<<>>, AsksPlace})
    \cup Pairs({Corrected, CorrectedBefore, Signed, Irish, Long, Echo}, {<<>>})
    \cup {Request(m, q, {}, {<<<<"lee">>>>}) : m \in {Surname("Lee"), Titled}, q \in {<<>>, AsksPlace}}
    \cup {Request(Renamed, AsksPlan, {}, allow) : allow \in {{}, {<<<<"agent", "dan">>, <<"lee">>>>}}}
    \cup {Request(m, <<>>, {p}, {}) : m \in {Joined, Surname("Lee")}, p \in {"first_name", "last_name"}}

MCReplies ==
    { <<Word("hi"), Token("fn", 1), Token("ln", 1)>>,
      <<Unit("joined", "first", 1), Token("em", 1), Token("ph", 1), Unit("underscored", "first_name", 1)>>,
      <<Unit("bare", "name", 0), Unit("bare", "email", 0), Unit("joined", "last", 9)>>,
      <<Token("ln", 9), Token("mn1", 1), Token("mn2", 1), Unit("bare", "plan", 0)>> }
================================================================================
