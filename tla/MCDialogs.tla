------------------------------ MODULE MCDialogs ------------------------------
(* Two requests with a dialog each, and commands that overlap. *)
EXTENDS Dialogs

CONSTANTS d1, d2, k1, k2
==============================================================================
