---------------------------- MODULE MCAlchemySync ----------------------------
(* Two tasks that fetch the history of the same address. *)
EXTENDS AlchemySync

CONSTANTS w1, w2
==============================================================================
