-------------------------- MODULE MCPersistenceWriter --------------------------
(* Constants for model checking PersistenceWriter.                             *)
EXTENDS PersistenceWriter, TLC

CONSTANTS t1, t2, worker, s1, s2

MCThreads == {t1, t2}
MCScopes == {s1, s2}
OneScope == {s1}
OneThread == {t1}
Symmetric == Permutations(MCThreads) \cup Permutations(MCScopes)
================================================================================
