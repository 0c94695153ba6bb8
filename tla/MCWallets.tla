------------------------------ MODULE MCWallets ------------------------------
(* Up to three wallets over two addresses. *)
EXTENDS Wallets

CONSTANTS test, other, third, A, B

MCLists   == {<<>>, <<A>>, <<B>>, <<A, B>>}
MCDefault == [name |-> test, kind |-> "Plaintext", list |-> <<A, B>>,
              count |-> 1, cur |-> 0]
==============================================================================
