---------------------------- MODULE MCVaultSnapshot ----------------------------
(* Constants for model checking VaultSnapshot: those of MCPIIVault, with one   *)
(* spelling less of a name, since every state of a snapshot pairs two states   *)
(* of the vault.  The two names without a Latin letter still normalize alike.  *)
EXTENDS VaultSnapshot, MCPIIVault

SnapshotValues == [MCValues EXCEPT !["fn"] = {v \in @ : v.spelling # "lower"}]
================================================================================
