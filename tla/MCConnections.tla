---------------------------- MODULE MCConnections ----------------------------
(* Sites and networks: an anvil network, a public one, and a free name. *)
EXTENDS Connections

CONSTANTS a, b, anvil, mainnet, url1, site, call1, call2

MCNames2 == {a, b}
Configured(chain) == [id |-> <<chain, 0>>, status |-> "Unknown",
                      is_stack |-> FALSE, http_url |-> url1]
MCDefault == [n \in Names |-> CASE n = a -> Configured(anvil)
                                [] n = b -> Configured(mainnet)
                                [] OTHER -> Absent]

(* Two operations in general, a third one as long as no site has called and
   the program was not restarted: neither bound stops a task. *)
NoCall == calls = [k \in Calls |-> None] /\ affinities = [d \in Domains |-> Unset]

MCNext == CNext /\ (ops' > 2 => NoCall' /\ restarts' = 0 /\ faults' = 0)

MCSpec == CInit /\ [][MCNext]_allVars /\ CFairness
==============================================================================
