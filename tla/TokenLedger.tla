------------------------------ MODULE TokenLedger ------------------------------
(***************************************************************************)
(* What a session vault promises to the rest of the system, without saying *)
(* how: for every entity kind a ledger of values, where the token          *)
(* <kind_i> simply IS position i of the ledger.  A value is looked up      *)
(* before it is written, the ledger grows at its end only, and the one     *)
(* entry that may be rewritten is the last one.  PIIVault keeps four        *)
(* dictionaries in step to provide this; PIIVaultProofs shows that it does. *)
(***************************************************************************)
EXTENDS Naturals, Sequences

CONSTANTS
    Kinds,          \* the entity kinds tokens are issued for
    Values,         \* Values[k]: the values users disclose of kind k
    Same(_, _, _)   \* Same(k, v, w): v and w count as one value of kind k

VARIABLE
    ledger,         \* ledger[k][i]: the value <k_i> stands for
    answer          \* the position returned by the last call, 0 if none

vars == <<ledger, answer>>

Known(k, v) == {i \in DOMAIN ledger[k] : Same(k, ledger[k][i], v)}

Init ==
    /\ ledger = [k \in Kinds |-> <<>>]
    /\ answer = 0

\* The value is in the ledger: its position is the answer, nothing changes.
Reuse(k, v) ==
    /\ answer' \in Known(k, v)
    /\ UNCHANGED ledger

\* A new value takes the next position.
Issue(k, v) ==
    /\ Known(k, v) = {}
    /\ ledger' = [ledger EXCEPT ![k] = Append(@, v)]
    /\ answer' = Len(ledger[k]) + 1

\* A new value replaces the one in the last position.
Correct(k, v) ==
    /\ Known(k, v) = {}
    /\ ledger[k] # <<>>
    /\ ledger' = [ledger EXCEPT ![k][Len(ledger[k])] = v]
    /\ answer' = Len(ledger[k])

Refuse ==
    /\ answer' = 0
    /\ UNCHANGED ledger

\* The session is over.
Forget ==
    /\ ledger' = [k \in Kinds |-> <<>>]
    /\ answer' = 0

Next ==
    \/ \E k \in Kinds : \E v \in Values[k] : Reuse(k, v) \/ Issue(k, v) \/ Correct(k, v)
    \/ Refuse
    \/ Forget

Spec == Init /\ [][Next]_vars
================================================================================
