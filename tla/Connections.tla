----------------------------- MODULE Connections -----------------------------
(***************************************************************************)
(* Site connections (crates/connections) composed with the networks actor: *)
(* the affinity each site has to a network, the file it is saved to, the   *)
(* two calls that change it, and the receiver task that clears affinities  *)
(* to a removed network.                                                   *)
(*                                                                         *)
(* A call asks the networks actor one question at a time, then takes the   *)
(* store's lock, then broadcasts, and holds nothing in between: each of    *)
(* these is a step.                                                        *)
(***************************************************************************)
EXTENDS Networks

CONSTANT Calls  \* slots for calls running at the same time

VARIABLES affinities, \* domain -> affinity, Unset when the map has no entry
          affFile,    \* contents of connections.json
          affWrite,   \* history: how the last write of it ended
          calls       \* call -> where it is and what it carries

stored  == <<affinities, affFile, affWrite>>
cvars   == <<stored, calls>>
allVars == <<vars, cvars>>

ASSUME ConnectionsAssumption == "connections" \in Receivers

None == [pc |-> "none"]
------------------------------------------------------------------------------
Goto(k, state) == calls' = [calls EXCEPT ![k] = state]

NetUnchanged == UNCHANGED <<actorVars, inbox, form, faults>>

(* Ctx::switch_chain: Ctx::chain_id reads the affinity, *)
SwitchChain(k) ==
  /\ calls[k] = None
  /\ UserOp /\ NetUnchanged
  /\ \E domain \in Domains, chain \in Chains :
       LET sticky == affinities[domain].affinity = "Sticky" IN
       /\ sticky => affinities[domain].id[1] # chain
       /\ Goto(k, [pc |-> IF sticky THEN "validate" ELSE "current",
                   domain |-> domain, chain |-> chain])
  /\ UNCHANGED stored

(* and, of a site that is not sticky, the current network, which panics when
   there is none; the chain the site is on already needs no switch. *)
SwitchCurrent(k) ==
  /\ calls[k].pc = "current"
  /\ \/ /\ Present = {}
        /\ Goto(k, None)
     \/ \E first \in Present :
          /\ IsFirst(first, Present)
          /\ Goto(k, IF networks[CurrentName(networks, current, first)].id[1]
                        = calls[k].chain
                     THEN None ELSE [calls[k] EXCEPT !.pc = "validate"])
  /\ UNCHANGED <<vars, stored>>

(* validate_chain_id, *)
ValidChainId(chain) == \E n \in Present : networks[n].id[1] = chain

SwitchValidate(k) ==
  /\ calls[k].pc = "validate"
  /\ Goto(k, IF ValidChainId(calls[k].chain)
             THEN [calls[k] EXCEPT !.pc = "lowest"] ELSE None)
  /\ UNCHANGED <<vars, stored>>

(* get_lowest_dedup_id, which is 0 when the chain is gone by now. *)
Dedups(chain) == {networks[n].id[2] : n \in {m \in Present : networks[m].id[1] = chain}}

LowestDedup(chain) ==
  CHOOSE d \in Dedups(chain) \cup {0} :
    /\ Dedups(chain) # {} => d \in Dedups(chain)
    /\ \A e \in Dedups(chain) : d <= e

SwitchLowest(k) ==
  /\ calls[k].pc = "lowest"
  /\ Goto(k, [pc |-> "switch", domain |-> calls[k].domain, chain |-> calls[k].chain,
              dedup |-> LowestDedup(calls[k].chain)])
  /\ UNCHANGED <<vars, stored>>

(* It reads the affinity.  A site that is not Global becomes sticky, to the
   network of that chain with dedup_id 0, whichever ones exist; a Global one
   asks for the switch of the whole wallet. *)
StickyTarget(chain, dedup) == <<chain, 0>>

SwitchRead(k) ==
  /\ calls[k].pc = "switch"
  /\ LET call == calls[k] IN
     IF affinities[call.domain] = Global
     THEN Goto(k, [pc |-> "send", id |-> <<call.chain, call.dedup>>,
                   domain |-> Absent, affinity |-> Global])
     ELSE LET id == StickyTarget(call.chain, call.dedup) IN
          Goto(k, [pc |-> "store", id |-> id, domain |-> call.domain,
                   affinity |-> Sticky(id)])
  /\ UNCHANGED <<vars, stored>>

(* connections_set_affinity, up to its question to the networks actor.  A
   sticky id comes from the list a window has got, which may be stale, and
   only its chain is looked for among the networks there are. *)
SetAffinity(k) ==
  /\ calls[k] = None
  /\ UserOp /\ NetUnchanged
  /\ \E domain \in Domains :
       \/ \E id \in announced :
            /\ ValidChainId(id[1])
            /\ Goto(k, [pc |-> "store", id |-> id, domain |-> domain,
                        affinity |-> Sticky(id)])
       \/ \E affinity \in {Unset, Global}, first \in Present :
            /\ IsFirst(first, Present)
            /\ Goto(k, [pc |-> "store", domain |-> domain, affinity |-> affinity,
                        id |-> networks[CurrentName(networks, current, first)].id])
  /\ UNCHANGED stored

(* Store::set_affinity changes the map and saves the whole of it; when the
   file cannot be created the call fails and announces nothing. *)
SavePrevious(map) == affFile' = affinities

SaveStore(map) == affFile' = map

Store(k) ==
  /\ calls[k].pc = "store"
  /\ affinities' = [affinities EXCEPT ![calls[k].domain] = calls[k].affinity]
  /\ \/ /\ SaveStore(affinities')
        /\ affWrite' = "ok"
        /\ Goto(k, [calls[k] EXCEPT !.pc = "send"])
        /\ UNCHANGED faults
     \/ /\ Fault /\ affWrite' = "failed"
        /\ Goto(k, None)
        /\ UNCHANGED affFile
  /\ UNCHANGED <<actorVars, inbox, poller, form, up, ops, restarts>>

(* ethui_broadcast::chain_changed *)
Announcement(k) ==
  /\ calls[k].pc = "send"
  /\ inbox' = Send(inbox, ChainChanged(calls[k].id, calls[k].domain, calls[k].affinity))
  /\ Goto(k, None)
  /\ UNCHANGED <<stored, actorVars, poller, form, up, budget>>

(* The receiver task: on_chain_removed changes the map and does not save. *)
OnChainRemoved(map, id) ==
  [d \in Domains |-> IF map[d] = Sticky(id) THEN Unset ELSE map[d]]

ConnectionsReceiver ==
  /\ inbox["connections"] # <<>>
  /\ affinities' = OnChainRemoved(affinities, Head(inbox["connections"]).id)
  /\ inbox' = Received("connections")
  /\ UNCHANGED <<affFile, affWrite, calls, actorVars, poller, form, up, budget>>
------------------------------------------------------------------------------
CInit ==
  /\ Init
  /\ affinities = [d \in Domains |-> Unset]
  /\ affFile = affinities /\ affWrite = "ok"
  /\ calls = [k \in Calls |-> None]

(* init reads connections.json back. *)
CRestart ==
  /\ Restart
  /\ affinities' = affFile
  /\ calls' = [k \in Calls |-> None]
  /\ affWrite' = "ok"
  /\ UNCHANGED affFile

CallStep(k) == \/ SwitchCurrent(k) \/ SwitchValidate(k) \/ SwitchLowest(k)
               \/ SwitchRead(k) \/ Store(k) \/ Announcement(k)

CNext ==
  \/ (User \/ Tasks \/ Flip \/ Lag) /\ UNCHANGED cvars
  \/ \E k \in Calls : SwitchChain(k) \/ SetAffinity(k) \/ CallStep(k)
  \/ ConnectionsReceiver
  \/ CRestart

CFairness == /\ Fairness
             /\ WF_allVars(ConnectionsReceiver)
             /\ \A k \in Calls : WF_allVars(CallStep(k))

CSpec     == CInit /\ [][CNext]_allVars
CFairSpec == CSpec /\ CFairness
------------------------------------------------------------------------------
(* A crash never loses the affinity a site has: what memory holds is on disk
   also when two calls for the same or for different sites overlap, unless
   the last write failed.  (Disk may hold more: on_chain_removed does not
   save.) *)
AffinitySaved ==
  affWrite = "failed" \/ \A d \in Domains : affinities[d] \in {Unset, affFile[d]}

(* What store.rs says: when a network is removed, the affinities to it are
   cleared.  A site is stuck to a network that exists, or whose removal the
   receiver has still to hear of.  It is false: a call may store an affinity
   to a network that was removed after it asked whether its chain exists, and
   the affinities are cleared in memory only, so that a restart has them
   again. *)
RemovalPending(id) ==
  \E i \in DOMAIN inbox["connections"] : inbox["connections"][i].id = id

StuckNetworkExists ==
  \A d \in Domains :
    affinities[d].affinity = "Sticky" =>
      \/ WithId(affinities[d].id) # {}
      \/ RemovalPending(affinities[d].id)
==============================================================================
