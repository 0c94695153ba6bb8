--------------------------- MODULE MCWalletConnect ---------------------------
(* One pairing whose proposal is delivered live and from the backlog. *)
EXTENDS WalletConnect

CONSTANTS p1, live, backlog, s1, s2, r1, x, y
==============================================================================
