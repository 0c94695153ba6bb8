---------------------------- MODULE MCSyncWorker -----------------------------
(* One or two addresses, a chain that is supported and one that is not. *)
EXTENDS SyncWorker

CONSTANTS x, y, mainnet, anvil
==============================================================================
