---------------------------- MODULE MCSecretCache ----------------------------
(* Two requests that sign with the same wallet. *)
EXTENDS SecretCache

CONSTANTS s1, s2
==============================================================================
