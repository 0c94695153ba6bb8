------------------------------ MODULE MCDevnet -------------------------------
(* A node that mines a few blocks and may revert or restart. *)
EXTENDS Devnet
==============================================================================
