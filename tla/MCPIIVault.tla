------------------------------ MODULE MCPIIVault ------------------------------
(* Constants for model checking PIIVault: one name key, the phone key and the  *)
(* e-mail key, and values that differ in each part normalization looks at.    *)
EXTENDS PIIVault, TLC

Value(l, d, o, s) == [latin |-> l, digits |-> d, other |-> o, spelling |-> s]

MCKeys == {"fn", "em", "ph"}
MCNameKeys == {"fn"}
MCOtherKeys == {"ssn"}
MCEmpty == Value("", "", "", "")
\* Two spellings of one name, another name, and two names without a Latin
\* letter; one phone number typed in two ways; two addresses that differ in a dot.
MCValues ==
    [fn |-> {Value("anna", "", "", "lower"), Value("anna", "", "", "title"),
             Value("bob", "", "", "title"),
             Value("", "", "ivan", "title"), Value("", "", "olga", "title")},
     ph |-> {Value("", "5550100", "", "plain"), Value("", "5550100", "dash", "plain")},
     em |-> {Value("ab@x", "", "", "plain"), Value("ab@x", "", "dot", "plain")}]
================================================================================
