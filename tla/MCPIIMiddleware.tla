---------------------------- MODULE MCPIIMiddleware ----------------------------
(* Constants for model checking PIIMiddleware.                                 *)
EXTENDS PIIMiddleware, TLC

CONSTANTS t1, t2, worker

MCThreads == {t1, t2}
OneThread == {t1}

\* Two contexts whose fields join to one key, and one with a key of its own.
Context(client, assistant) ==
    [client |-> client, assistant |-> assistant, visitor |-> "v", session |-> "s",
     thread |-> "thread_1"]
MCContexts == {Context("a:b", "c"), Context("a", "b:c"), Context("d", "c")}
OneContext == {Context("a", "b:c")}
TwoPermits == [redact |-> 2, rehydrate |-> 2]
BlockingOrNone == {[store |-> TRUE, block |-> TRUE], [store |-> FALSE, block |-> FALSE]}
Unblocked == [store : BOOLEAN, block : {FALSE}]
Blocking == {[store |-> TRUE, block |-> TRUE]}
Symmetric == Permutations(MCThreads)
================================================================================
