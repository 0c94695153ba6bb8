--------------------------- MODULE RequestsProofs ----------------------------
(***************************************************************************)
(* Requests implements Consent, and tokens are stored as they were         *)
(* checked, for any number of connections.                                 *)
(*                                                                         *)
(* What the windows have shown is an invariant by itself (HoldsShown).     *)
(* What is known of a token while its request is served is added by        *)
(* TokensChecked.                                                          *)
(***************************************************************************)
EXTENDS Requests, FiniteSetTheorems, TLAPS

USE DEF Slots

(* The deeds the handlers build are deeds. *)
LEMMA NoDeedType == NoDeed \in Deeds
BY DEF NoDeed, Deeds, Kinds

LEMMA DeedType ==
  ASSUME NEW kind \in Kinds, NEW chain \in Chains \cup {None},
         NEW w \in Addresses \cup {None}, NEW x \in Data \cup Names \cup {None},
         NEW v \in Values \cup {None}
  PROVE  [kind |-> kind, chain |-> chain, wallet |-> w, data |-> x, value |-> v] \in Deeds
BY DEF Deeds

LEMMA WalletDeed ==
  ASSUME NEW d \in Deeds, NEW w \in Wallets
  PROVE  /\ [d EXCEPT !.wallet = w] \in Deeds
         /\ Content[[d EXCEPT !.wallet = w]] = Content[d]
         /\ d.kind \in Tokens => Terms[[d EXCEPT !.wallet = w]] = Terms[d]
BY RequestsAssumption DEF Deeds, Terms, Content, Tokens

(* An edit changes the content of a transaction, to what it says where it says
   something. *)
LEMMA EditDeed ==
  ASSUME NEW d \in Deeds, NEW m \in Answers, d.kind = "tx"
  PROVE  /\ Edited(d, m) \in Deeds /\ Edited(d, m).kind = "tx"
         /\ Terms[Edited(d, m)] = Terms[d]
         /\ \A p \in Content[Edited(d, m)] :
              \/ p \in Content[d]
              \/ m.data # None /\ p = <<"data", m.data>>
              \/ m.value # None /\ p = <<"value", m.value>>
<1>1. Edited(d, m) \in Deeds /\ Edited(d, m).kind = "tx"
  BY DEF Deeds, Edited, Or, Answers
<1>2. /\ Edited(d, m).chain = d.chain /\ Edited(d, m).wallet = d.wallet
      /\ Edited(d, m).data = Or(m.data, d.data) /\ Edited(d, m).value = Or(m.value, d.value)
  BY DEF Deeds, Edited
<1>3. Terms[Edited(d, m)] = Terms[d]
  BY <1>1, <1>2 DEF Terms
<1>4. /\ Content[Edited(d, m)] = Parts(Or(m.data, d.data), Or(m.value, d.value))
      /\ Content[d] = Parts(d.data, d.value)
  BY <1>1, <1>2 DEF Content
<1> QED BY <1>1, <1>3, <1>4 DEF Parts, Or

LEMMA PartsType ==
  ASSUME NEW d \in Deeds
  PROVE  /\ Terms[d] \subseteq AnyPart /\ Content[d] \subseteq AnyPart
         /\ Terms[d] # {}
<1>1. /\ <<"chain", d.chain>> \in AnyPart /\ <<"wallet", d.wallet>> \in AnyPart
      /\ <<"data", d.data>> \in AnyPart /\ <<"value", d.value>> \in AnyPart
  BY DEF Deeds, AnyPart
<1>2. Terms[d] \subseteq AnyPart /\ Terms[d] # {}
  BY <1>1 DEF Terms
<1>3. Content[d] \subseteq AnyPart
  BY <1>1 DEF Content, Parts
<1> QED BY <1>2, <1>3
------------------------------------------------------------------------------
(* The invariant, and what every step must keep and simulate. *)
Inv == TypeOK /\ HoldsShown

Simulated == C!Next \/ UNCHANGED C!vars

(* What is asked for changes when a request begins or ends. *)
LEMMA AskedKept ==
  ASSUME UNCHANGED req, \A k \in Slots : pc'[k] = "idle" <=> pc[k] = "idle"
  PROVE  AllAsked' = AllAsked
BY DEF AllAsked, Asked

LEMMA AskedEnds ==
  ASSUME NEW s \in Slots, RequestTypes, Goto(s, "idle"), req' = [req EXCEPT ![s] = NoDeed]
  PROVE  AllAsked' = [AllAsked EXCEPT ![s] = {}]
BY DEF AllAsked, Asked, RequestTypes, Goto

(* A handler that ends without doing anything lets its window lapse. *)
LEMMA ReturnStep ==
  ASSUME NEW s \in Slots, Inv, Return(s), UNCHANGED <<world, socket, left>>
  PROVE  Inv' /\ Simulated
<1>1. RequestTypes'
  BY NoDeedType DEF Inv, TypeOK, RequestTypes, Return, Finish, Reset, Dismiss, Goto
<1>2. WorldTypes'
  BY DEF Inv, TypeOK, WorldTypes, Return, netVars, world, HasName
<1>3. TypeOK'
  BY <1>1, <1>2 DEF Inv, TypeOK, Return, Finish, Reply, deedVars, peerVars
<1>4. HoldsShown'
  BY DEF Inv, TypeOK, RequestTypes, HoldsShown, Shown, Asked, Return, Finish, Reset, Dismiss, Goto
<1>5. C!Lapse(s)
  BY AskedEnds DEF Inv, TypeOK, C!Lapse, C!Forget, Return, Finish, Reset, Dismiss, deedVars
<1> QED
  BY <1>3, <1>4, <1>5 DEF Inv, Simulated, C!Next

(* The end of a request, whatever it did. *)
LEMMA FinishStep ==
  ASSUME NEW s \in Slots, Inv, Finish(s), UNCHANGED socket
  PROVE  /\ RequestTypes' /\ HoldsShown'
         /\ task' \in [Conns -> {"none", "loop", "done", "panicked"}]
         /\ peers' \in [Conns -> {"absent", "silent", "alive"}]
<1>1. RequestTypes'
  BY NoDeedType DEF Inv, TypeOK, RequestTypes, Finish, Reset, Dismiss, Goto
<1>2. HoldsShown'
  BY DEF Inv, TypeOK, RequestTypes, HoldsShown, Shown, Asked, Finish, Reset, Dismiss, Goto
<1> QED
  BY <1>1, <1>2 DEF Inv, TypeOK, Finish, Reply, peerVars

LEMMA PanicStep ==
  ASSUME NEW s \in Conns, Inv, Panic(s), UNCHANGED <<world, socket, left>>
  PROVE  Inv' /\ Simulated
<1>1. RequestTypes'
  BY NoDeedType DEF Inv, TypeOK, RequestTypes, Panic, Reset, Dismiss, Goto
<1>2. WorldTypes'
  BY DEF Inv, TypeOK, WorldTypes, Panic, netVars, world, HasName
<1>3. TypeOK'
  BY <1>1, <1>2 DEF Inv, TypeOK, Panic, deedVars
<1>4. HoldsShown'
  BY DEF Inv, TypeOK, RequestTypes, HoldsShown, Shown, Asked, Panic, Reset, Dismiss, Goto
<1>5. C!Lapse(s)
  BY AskedEnds DEF Inv, TypeOK, C!Lapse, C!Forget, Panic, Reset, Dismiss, deedVars
<1> QED
  BY <1>3, <1>4, <1>5 DEF Inv, Simulated, C!Next

(* A window that opens offers what its handler holds. *)
LEMMA OpenStep ==
  ASSUME NEW s \in Slots, NEW d \in Deeds, Inv, pc[s] \notin {"idle", "dialog", "act"},
         Content[d] \subseteq Asked(s), Open(s, d), UNCHANGED <<world, socket, left>>
  PROVE  Inv' /\ Simulated
<1>1. RequestTypes'
  BY PartsType DEF Inv, TypeOK, RequestTypes, Open, Goto, Answers, Answer
<1>2. WorldTypes'
  BY DEF Inv, TypeOK, WorldTypes, Open, netVars, world, HasName
<1>3. TypeOK'
  BY <1>1, <1>2 DEF Inv, TypeOK, Open, deedVars, peerVars
<1>4. HoldsShown'
  <2>1. /\ seen[s] = {} /\ ~clicked[s]
        /\ pc' = [pc EXCEPT ![s] = "dialog"] /\ held' = [held EXCEPT ![s] = d]
        /\ window' = [window EXCEPT ![s] = "open"] /\ clicked' = clicked
        /\ seen' = [seen EXCEPT ![s] = Terms[d]] /\ req' = req
        /\ \A m \in sent'[s] : m.event = "simulate"
        /\ \A k \in Slots \ {s} : sent'[k] = sent[k]
    BY DEF Inv, TypeOK, RequestTypes, HoldsShown, Shown, Open, Goto, Answer
  <2>2. Shown(s)'
    BY <2>1 DEF Inv, TypeOK, RequestTypes, Shown, Asked
  <2>3. ASSUME NEW k \in Slots \ {s} PROVE Shown(k)'
    BY <2>1, <2>3 DEF Inv, TypeOK, RequestTypes, HoldsShown, Shown, Asked
  <2> QED BY <2>2, <2>3 DEF HoldsShown
<1>5. C!Offer(s)
  <2>1. AllAsked' = AllAsked
    BY AskedKept DEF Open, Goto, Inv, TypeOK, RequestTypes
  <2>2. seen[s] = {}
    BY DEF Inv, HoldsShown, Shown
  <2> QED BY <2>1, <2>2 DEF C!Offer, Open, deedVars, Inv, TypeOK, RequestTypes
<1> QED
  BY <1>3, <1>4, <1>5 DEF Inv, Simulated, C!Next

(* Steps before the window show nothing. *)
LEMMA ProceedStep ==
  ASSUME NEW s \in Slots, NEW d \in Deeds,
         NEW there \in {"chain", "check", "balance", "switch"},
         Inv, pc[s] \notin {"idle", "dialog", "act"}, dedup' \in [Slots -> Nat],
         there \in {"check", "balance"} => Content[d] \subseteq Asked(s),
         Proceed(s, d, there), UNCHANGED <<world, socket, left>>
  PROVE  Inv' /\ Simulated
<1>1. RequestTypes'
  BY DEF Inv, TypeOK, RequestTypes, Proceed, Goto
<1>2. WorldTypes'
  BY DEF Inv, TypeOK, WorldTypes, Proceed, netVars, world, HasName
<1>3. TypeOK'
  BY <1>1, <1>2 DEF Inv, TypeOK, Proceed, deedVars, peerVars
<1>4. HoldsShown'
  <2>1. /\ pc' = [pc EXCEPT ![s] = there] /\ held' = [held EXCEPT ![s] = d]
        /\ UNCHANGED <<req, window, seen, clicked, sent>>
    BY DEF Proceed, Goto
  <2>2. Shown(s)'
    BY <2>1 DEF Inv, TypeOK, RequestTypes, HoldsShown, Shown, Asked
  <2>3. ASSUME NEW k \in Slots \ {s} PROVE Shown(k)'
    BY <2>1, <2>3 DEF Inv, TypeOK, RequestTypes, HoldsShown, Shown, Asked
  <2> QED BY <2>2, <2>3 DEF HoldsShown
<1>5. UNCHANGED C!vars
  BY AskedKept DEF C!vars, Proceed, Goto, deedVars, Inv, TypeOK, RequestTypes
<1> QED
  BY <1>3, <1>4, <1>5 DEF Inv, Simulated

(* An answer that leaves the handler waiting, with an edit or without. *)
LEMMA WaitsStep ==
  ASSUME NEW s \in Slots, Inv, pc[s] = "dialog", NEW m \in sent[s], NEW d,
         \/ d = held[s]
         \/ m.event = "update" /\ d = Edited(held[s], m),
         Waits(s, m, d), UNCHANGED <<world, socket, left>>
  PROVE  Inv' /\ Simulated
<1>1. m \in Answers /\ held[s] \in Deeds
  BY DEF Inv, TypeOK, RequestTypes
<1>2. Shown(s)
  BY DEF Inv, HoldsShown
<1>3. /\ d \in Deeds /\ d.kind = held[s].kind /\ Terms[d] \subseteq seen[s]
      /\ Content[d] \subseteq seen[s] \cup Asked(s)
  <2>1. CASE d = held[s]
    BY <1>1, <1>2, <2>1 DEF Shown
  <2>2. CASE m.event = "update" /\ d = Edited(held[s], m)
    <3>1. /\ held[s].kind = "tx" /\ Terms[held[s]] \subseteq seen[s]
          /\ Content[held[s]] \subseteq seen[s] \cup Asked(s)
          /\ m.data # None => <<"data", m.data>> \in seen[s]
          /\ m.value # None => <<"value", m.value>> \in seen[s]
      BY <1>2, <2>2 DEF Shown
    <3> HIDE DEF Inv
    <3> QED BY <1>1, <2>2, <3>1, EditDeed
  <2> QED BY <2>1, <2>2
<1>4. RequestTypes'
  BY <1>3 DEF Inv, TypeOK, RequestTypes, Waits
<1>5. WorldTypes'
  BY DEF Inv, TypeOK, WorldTypes, Waits, netVars, world, HasName
<1>6. TypeOK'
  BY <1>4, <1>5 DEF Inv, TypeOK, Waits, deedVars, peerVars
<1>7. HoldsShown'
  <2>1. /\ UNCHANGED <<pc, window, seen, clicked>>
        /\ held'[s] = d /\ sent'[s] = sent[s] \ {m}
        /\ \A k \in Slots \ {s} : held'[k] = held[k] /\ sent'[k] = sent[k]
    BY DEF Inv, TypeOK, RequestTypes, Waits
  <2>2. req' = req /\ pc'[s] = "dialog"
    BY DEF Waits
  <2>3. Shown(s)'
    BY <1>2, <1>3, <2>1, <2>2 DEF Shown, Asked
  <2>4. ASSUME NEW k \in Slots \ {s} PROVE Shown(k)'
    BY <2>1, <2>2, <2>4 DEF Inv, HoldsShown, Shown, Asked
  <2> QED BY <2>3, <2>4 DEF HoldsShown
<1>8. UNCHANGED C!vars
  BY AskedKept DEF C!vars, Waits, deedVars
<1> QED
  BY <1>6, <1>7, <1>8 DEF Inv, Simulated

LEMMA AcceptsStep ==
  ASSUME NEW s \in Slots, Inv, pc[s] = "dialog", NEW m \in sent[s], m.event = "accept",
         Accepts(s, m), UNCHANGED <<world, socket, left>>
  PROVE  Inv' /\ Simulated
<1>1. RequestTypes'
  BY DEF Inv, TypeOK, RequestTypes, Accepts, Goto
<1>2. WorldTypes'
  BY DEF Inv, TypeOK, WorldTypes, Accepts, netVars, world, HasName
<1>3. TypeOK'
  BY <1>1, <1>2 DEF Inv, TypeOK, Accepts, deedVars, peerVars
<1>4. HoldsShown'
  <2>1. /\ pc' = [pc EXCEPT ![s] = "act"] /\ sent'[s] \subseteq sent[s]
        /\ \A k \in Slots \ {s} : sent'[k] = sent[k]
        /\ UNCHANGED <<req, held, window, seen, clicked>>
    BY DEF Inv, TypeOK, RequestTypes, Accepts, Goto
  <2>2. Shown(s)'
    BY <2>1 DEF Inv, TypeOK, RequestTypes, HoldsShown, Shown, Asked
  <2>3. ASSUME NEW k \in Slots \ {s} PROVE Shown(k)'
    BY <2>1, <2>3 DEF Inv, TypeOK, RequestTypes, HoldsShown, Shown, Asked
  <2> QED
    BY <2>2, <2>3 DEF HoldsShown
<1>5. UNCHANGED C!vars
  BY <1>4, AskedKept DEF C!vars, Accepts, Goto, deedVars, Inv, TypeOK, RequestTypes
<1> QED
  BY <1>3, <1>4, <1>5 DEF Inv, Simulated
------------------------------------------------------------------------------
LEMMA CurChainType ==
  ASSUME WorldTypes
  PROVE  CurChain \in Chains \cup {None}
<1>1. PICK n \in nets : n.name = cur
  BY DEF WorldTypes, HasName
<1>2. (CHOOSE k \in nets : k.name = cur) \in nets
  BY <1>1
<1> QED
  BY <1>2 DEF WorldTypes, Networks, CurChain

LEMMA ChainOfType ==
  ASSUME WorldTypes, NEW s \in Slots
  PROVE  ChainOf(s) \in Chains \cup {None}
BY CurChainType DEF ChainOf, WorldTypes

LEMMA DedupType ==
  ASSUME WorldTypes, NEW name
  PROVE  DedupOf(name) \in Nat
<1>1. CASE HasName(name)
  <2>1. (CHOOSE k \in nets : k.name = name) \in nets
    BY <1>1 DEF HasName
  <2> QED BY <1>1, <2>1 DEF DedupOf, WorldTypes, Networks
<1>2. CASE ~HasName(name)
  BY <1>2 DEF DedupOf
<1> QED BY <1>1, <1>2

LEMMA CallType ==
  ASSUME RequestTypes, NEW s \in Slots
  PROVE  /\ req[s].kind \in {"tx", "sign", "add", "update"} \cup Tokens
         /\ req[s].chain \in Chains \cup {None} /\ req[s].wallet \in Addresses \cup {None}
         /\ req[s].data \in Data \cup Names \cup {None}
         /\ req[s].value \in Values \cup {None}
<1>1. req[s] \in Calls \cup {NoDeed}
  BY DEF RequestTypes
<1> QED BY <1>1, CallsAssumption DEF NoDeed

LEMMA BuiltType ==
  ASSUME RequestTypes, NEW s \in Slots, NEW kind \in Kinds,
         NEW chain \in Chains \cup {None}, NEW w \in Addresses \cup {None}
  PROVE  Deed(s, kind, chain, w) \in Deeds
BY CallType, DeedType DEF Deed

(* What a handler builds has the content that was asked for. *)
LEMMA BuiltAsAsked ==
  ASSUME NEW s \in Slots, NEW kind, NEW chain, NEW w, pc[s] # "idle",
         Deed(s, kind, chain, w) \in Deeds
  PROVE  Content[Deed(s, kind, chain, w)] \subseteq Asked(s)
BY DEF Content, Deed, Asked
------------------------------------------------------------------------------
(* Every step of a handler up to its window. *)
LEMMA BuildStep ==
  ASSUME NEW s \in Slots, Inv, Build(s), UNCHANGED <<world, socket, left>>
  PROVE  Inv' /\ Simulated
<1> USE DEF Inv, TypeOK
<1>0. pc[s] = "build"
  BY DEF Build, At
<1>d. UNCHANGED dedup => dedup' \in [Slots -> Nat]
  BY DEF RequestTypes
<1>1. CASE BuildSigning(s)
  <2> DEFINE d == Deed(s, req[s].kind, ChainOf(s), From(s))
  <2>1. d \in Deeds
    <3>1. req[s].kind \in Kinds /\ From(s) \in Addresses \cup {None}
      BY <1>1, CallType, RequestsAssumption DEF BuildSigning, From, Kinds, WorldTypes
    <3> QED BY <3>1, BuiltType, ChainOfType
  <2>2. CASE HasChain(ChainOf(s))
    <3>1. Proceed(s, d, "check") /\ UNCHANGED dedup
      BY <1>1, <2>2 DEF BuildSigning
    <3>2. Content[d] \subseteq Asked(s)
      BY <1>0, <2>1, BuiltAsAsked
    <3> HIDE DEF d
    <3> QED BY <1>0, <1>d, <2>1, <3>1, <3>2, ProceedStep
  <2>3. CASE ~HasChain(ChainOf(s))
    BY <1>1, <2>3, PanicStep DEF BuildSigning
  <2> QED BY <2>2, <2>3
<1>2. CASE BuildAdd(s)
  <2>1. Deed(s, "add", req[s].chain, None) \in Deeds
    BY CallType, BuiltType DEF Kinds
  <2> QED BY <1>0, <1>2, <2>1, BuiltAsAsked, ReturnStep, OpenStep DEF BuildAdd
<1>3. CASE BuildUpdate(s)
  <2>1. Deed(s, "add", req[s].chain, None) \in Deeds
    BY CallType, BuiltType DEF Kinds
  <2>2. dedup' \in [Slots -> Nat]
    BY <1>3, DedupType DEF BuildUpdate, RequestTypes
  <2> QED BY <1>0, <1>3, <2>1, <2>2, BuiltAsAsked, ProceedStep DEF BuildUpdate
<1>4. CASE BuildToken(s)
  BY <1>0, <1>4, <1>d, NoDeedType, ReturnStep, ProceedStep DEF BuildToken
<1> QED BY <1>1, <1>2, <1>3, <1>4 DEF Build

LEMMA ReadChainStep ==
  ASSUME NEW s \in Slots, Inv, ReadChain(s), UNCHANGED <<world, socket, left>>
  PROVE  Inv' /\ Simulated
<1>1. Deed(s, req[s].kind, CurChain, None) \in Deeds
  BY BuiltType, CurChainType DEF Inv, TypeOK, ReadChain, Kinds, Tokens
<1>2. dedup' \in [Slots -> Nat]
  BY DEF ReadChain, Inv, TypeOK, RequestTypes
<1>3. Content[Deed(s, req[s].kind, CurChain, None)] \subseteq Asked(s)
  BY <1>1, BuiltAsAsked DEF ReadChain, At
<1> QED
  BY <1>1, <1>2, <1>3, ProceedStep DEF ReadChain, At

(* What is done without a window is free. *)
LEMMA FreeStep ==
  ASSUME NEW s \in Slots, Inv, pc[s] = "check", MaySkip(held[s]),
         Finish(s), Record(held[s]), UNCHANGED <<netVars, stored, world, socket, left>>
  PROVE  Inv' /\ Simulated
<1>1. held[s] \in Deeds
  BY DEF Inv, TypeOK, RequestTypes
<1>2. WorldTypes'
  BY DEF Inv, TypeOK, WorldTypes, netVars, world, HasName
<1>3. TypeOK'
  BY <1>1, <1>2, FinishStep DEF Inv, TypeOK, Record
<1>4. C!DoFree(s, held[s])
  <2>1. Content[held[s]] \subseteq AllAsked[s]
    BY DEF Inv, HoldsShown, Shown, AllAsked
  <2>2. AllAsked' = [AllAsked EXCEPT ![s] = {}]
    BY AskedEnds DEF Inv, TypeOK, Finish, Reset
  <2> QED BY <2>1, <2>2 DEF C!DoFree, C!Record, C!Forget, Record, MaySkip, Finish, Reset, Dismiss
<1> QED
  BY <1>1, <1>3, <1>4, FinishStep DEF Inv, Simulated, C!Next

LEMMA CheckStep ==
  ASSUME NEW s \in Slots, Inv, Check(s), UNCHANGED <<world, socket, left>>
  PROVE  Inv' /\ Simulated
<1>0. pc[s] = "check" /\ held[s] \in Deeds
  BY DEF Check, At, Inv, TypeOK, RequestTypes
<1>a. Content[held[s]] \subseteq Asked(s)
  BY <1>0 DEF Inv, HoldsShown, Shown
<1>d. UNCHANGED dedup => dedup' \in [Slots -> Nat]
  BY DEF Inv, TypeOK, RequestTypes
<1>1. CASE CheckSigning(s)
  BY <1>0, <1>a, <1>1, ReturnStep, OpenStep, FreeStep DEF CheckSigning
<1>2. CASE CheckUpdate(s)
  BY <1>0, <1>a, <1>d, <1>2, NoDeedType, ReturnStep, OpenStep, ProceedStep DEF CheckUpdate
<1>3. CASE CheckToken(s)
  <2> DEFINE d == [held[s] EXCEPT !.wallet = wallet]
  <2>1. d \in Deeds /\ Content[d] \subseteq Asked(s)
    BY <1>0, <1>a, WalletDeed DEF Inv, TypeOK, WorldTypes
  <2>2. Return(s) \/ Open(s, d) \/ (Proceed(s, d, "balance") /\ UNCHANGED dedup)
    BY <1>3 DEF CheckToken
  <2> HIDE DEF d
  <2> QED BY <1>0, <1>d, <2>1, <2>2, ReturnStep, OpenStep, ProceedStep
<1> QED BY <1>1, <1>2, <1>3 DEF Check

LEMMA BalanceStep ==
  ASSUME NEW s \in Slots, Inv, CheckBalance(s), UNCHANGED <<world, socket, left>>
  PROVE  Inv' /\ Simulated
<1> DEFINE d == [held[s] EXCEPT !.wallet = wallet]
<1>1. pc[s] = "balance" /\ held[s] \in Deeds /\ Content[held[s]] \subseteq Asked(s)
  BY DEF CheckBalance, At, Inv, TypeOK, RequestTypes, HoldsShown, Shown
<1>2. d \in Deeds /\ Content[d] \subseteq Asked(s)
  BY <1>1, WalletDeed DEF Inv, TypeOK, WorldTypes
<1>3. Return(s) \/ Open(s, d)
  BY DEF CheckBalance
<1> HIDE DEF d
<1> QED BY <1>1, <1>2, <1>3, ReturnStep, OpenStep

LEMMA AskSwitchStep ==
  ASSUME NEW s \in Slots, Inv, AskSwitch(s), UNCHANGED <<world, socket, left>>
  PROVE  Inv' /\ Simulated
<1> DEFINE d == [NoDeed EXCEPT !.kind = "switch", !.chain = req[s].chain]
<1>1. d \in Deeds /\ d.kind = "switch"
  BY CallType DEF Inv, TypeOK, NoDeed, Deeds, Kinds
<1>2. Content[d] = {}
  BY <1>1 DEF Content
<1>3. pc[s] = "switch" /\ Open(s, d)
  BY DEF AskSwitch, At
<1> HIDE DEF d
<1> QED BY <1>1, <1>2, <1>3, OpenStep

LEMMA RecvStep ==
  ASSUME NEW s \in Slots, Inv, Recv(s), UNCHANGED <<world, socket, left>>
  PROVE  Inv' /\ Simulated
<1>1. PICK m \in sent[s] : Receive(s, m)
  BY DEF Recv
<1>2. pc[s] = "dialog"
  BY DEF Recv, At
<1>3. CASE m.event = "accept" /\ Accepts(s, m)
  BY <1>2, <1>3, AcceptsStep
<1>4. CASE Return(s)
  BY <1>4, ReturnStep
<1>5. CASE Waits(s, m, held[s])
  BY <1>2, <1>5, WaitsStep
<1>6. CASE m.event = "update" /\ Waits(s, m, Edited(held[s], m))
  BY <1>2, <1>6, WaitsStep
<1> QED BY <1>1, <1>3, <1>4, <1>5, <1>6 DEF Receive
------------------------------------------------------------------------------
(* What is done after a window was shown and accepted in it. *)
LEMMA DoStep ==
  ASSUME NEW s \in Slots, NEW d \in Deeds, Inv, pc[s] = "act", Terms[d] = Terms[held[s]],
         Content[d] = Content[held[s]], Dismiss(s), Record(d),
         \/ Goto(s, "idle") /\ req' = [req EXCEPT ![s] = NoDeed]
         \/ Goto(s, "switch") /\ UNCHANGED req
  PROVE  Simulated /\ done' \subseteq Deeds /\ count' \in Nat
<1>1. Shown(s) /\ AllAsked[s] = Asked(s)
  BY DEF Inv, HoldsShown, AllAsked
<1>2. AllAsked' \in {AllAsked, [AllAsked EXCEPT ![s] = {}]}
  <2>1. CASE Goto(s, "idle") /\ req' = [req EXCEPT ![s] = NoDeed]
    BY <2>1, AskedEnds DEF Inv, TypeOK
  <2>2. CASE Goto(s, "switch") /\ UNCHANGED req
    BY <2>2, AskedKept DEF Goto, Inv, TypeOK, RequestTypes
  <2> QED BY <2>1, <2>2
<1>3. C!Do(s, d)
  BY <1>1, <1>2 DEF C!Do, C!Record, C!Forget, Record, Dismiss, Shown
<1> QED
  BY <1>3 DEF Simulated, C!Next, Inv, TypeOK, Record

LEMMA ActStep ==
  ASSUME NEW s \in Slots, Inv, Act(s), UNCHANGED <<world, socket, left>>
  PROVE  Inv' /\ Simulated
<1>0. pc[s] = "act" /\ held[s] \in Deeds
  BY DEF Act, At, Inv, TypeOK, RequestTypes
<1>f. Finish(s) => Dismiss(s) /\ Goto(s, "idle") /\ req' = [req EXCEPT ![s] = NoDeed]
  BY DEF Finish, Reset
<1>1. CASE Return(s)
  BY <1>1, ReturnStep
<1>2. CASE ActSigning(s)
  <2>1. WorldTypes'
    BY <1>2 DEF ActSigning, Inv, TypeOK, WorldTypes, netVars, world, HasName
  <2> QED
    BY <1>0, <1>f, <1>2, <2>1, FinishStep, DoStep DEF ActSigning, Inv, TypeOK
<1>3. CASE ActAdd(s) /\ ~Return(s)
  <2> DEFINE n == [name |-> held[s].data, chain |-> held[s].chain,
                   dedup |-> Cardinality({k \in nets : k.chain = held[s].chain})]
  <2>1. /\ nets' = nets \cup {n} /\ Record(held[s]) /\ UNCHANGED <<cur, moved, stored>>
        /\ \/ /\ Goto(s, "switch") /\ Dismiss(s) /\ held' = [held EXCEPT ![s] = NoDeed]
              /\ UNCHANGED <<req, dedup, peerVars>>
           \/ Finish(s)
    BY <1>3 DEF ActAdd
  <2>2. n \in Networks
    <3>1. {k \in nets : k.chain = held[s].chain} \subseteq nets
      OBVIOUS
    <3>2. n.dedup \in Nat
      BY <3>1, FS_Subset, FS_CardinalityType DEF Inv, TypeOK, WorldTypes
    <3> QED BY <1>0, <3>2 DEF Networks, Deeds
  <2>3. WorldTypes'
    <3> HIDE DEF n
    <3> QED
      BY <2>1, <2>2, FS_AddElement DEF Inv, TypeOK, WorldTypes, world, HasName
  <2>4. CASE Finish(s)
    BY <1>0, <1>f, <2>1, <2>3, <2>4, FinishStep, DoStep DEF Inv, TypeOK
  <2>5. CASE /\ Goto(s, "switch") /\ Dismiss(s) /\ held' = [held EXCEPT ![s] = NoDeed]
             /\ UNCHANGED <<req, dedup, peerVars>>
    <3>1. RequestTypes'
      BY <2>5, NoDeedType DEF Inv, TypeOK, RequestTypes, Dismiss, Goto
    <3>2. HoldsShown'
      BY <2>5 DEF Inv, TypeOK, RequestTypes, HoldsShown, Shown, Asked, Dismiss, Goto
    <3> QED
      BY <1>0, <2>1, <2>3, <2>5, <3>1, <3>2, DoStep DEF Inv, TypeOK, peerVars
  <2> QED BY <2>1, <2>4, <2>5
<1>4. CASE ActSwitch(s) /\ ~Return(s)
  <2>1. PICK n \in nets : SetCurrent(n)
    BY <1>4 DEF ActSwitch
  <2>2. Finish(s) /\ Record(held[s]) /\ UNCHANGED <<nets, stored>>
    BY <1>4 DEF ActSwitch
  <2>3. WorldTypes'
    BY <2>1, <2>2 DEF SetCurrent, Inv, TypeOK, WorldTypes, world, HasName
  <2> QED
    BY <1>0, <1>f, <2>2, <2>3, FinishStep, DoStep DEF Inv, TypeOK
<1>5. CASE ActToken(s)
  <2> DEFINE d == [held[s] EXCEPT !.wallet = wallet]
  <2>1. d \in Deeds /\ Terms[d] = Terms[held[s]] /\ Content[d] = Content[held[s]]
    BY <1>0, <1>5, WalletDeed DEF ActToken, Inv, TypeOK, WorldTypes
  <2>2. stored' = stored \cup {d} /\ Record(d) /\ Finish(s) /\ UNCHANGED netVars
    BY <1>5 DEF ActToken
  <2>3. WorldTypes'
    BY <2>2 DEF Inv, TypeOK, WorldTypes, netVars, world, HasName
  <2> HIDE DEF d
  <2> QED
    BY <1>0, <1>f, <2>1, <2>2, <2>3, FinishStep, DoStep DEF Inv, TypeOK
<1> QED BY <1>1, <1>2, <1>3, <1>4, <1>5 DEF Act

LEMMA ServeStep ==
  ASSUME NEW s \in Slots, Inv, Serve(s)
  PROVE  Inv' /\ Simulated
BY BuildStep, ReadChainStep, CheckStep, BalanceStep, AskSwitchStep, RecvStep, ActStep
DEF Serve
------------------------------------------------------------------------------
(* The user's answers: an edit is an offer, a click on accept agrees. *)
LEMMA AnswerStep ==
  ASSUME NEW s \in Slots, Inv, UserAnswers(s)
  PROVE  Inv' /\ Simulated
<1> USE DEF Inv
<1>0. left' \in [calls : SUBSET Calls, moves : SUBSET Moves, answers : Nat]
  BY DEF UserAnswers, TypeOK, WorldTypes
<1>1. WorldTypes'
  BY <1>0 DEF UserAnswers, TypeOK, WorldTypes, netVars, world, HasName
<1>2. RequestTypes' => TypeOK'
  BY <1>1 DEF UserAnswers, TypeOK, deedVars, peerVars
<1>3. CASE Click(s)
  <2>1. pc[s] \in {"dialog", "act"} /\ seen[s] # {}
    <3>1. pc[s] \in {"dialog", "act"} /\ Terms[held[s]] \subseteq seen[s]
      BY <1>3 DEF Click, Visible, HoldsShown, Shown
    <3>2. Terms[held[s]] # {}
      BY PartsType DEF TypeOK, RequestTypes
    <3> QED BY <3>1, <3>2
  <2>2. RequestTypes'
    <3>1. Answer("accept") \in Answers /\ Answer("other") \in Answers
      BY DEF Answer, Answers
    <3>2. sent' \in [Slots -> SUBSET Answers]
      BY <1>3, <3>1 DEF Click, Sends, TypeOK, RequestTypes
    <3>3. clicked' \in [Slots -> BOOLEAN]
      BY <1>3 DEF Click, TypeOK, RequestTypes
    <3> QED BY <1>3, <3>2, <3>3 DEF Click, TypeOK, RequestTypes
  <2>3. HoldsShown'
    <3>1. ASSUME NEW m \in sent'[s] PROVE m \in sent[s] \/ m.event \in {"accept", "other"}
      BY <1>3, <3>1 DEF Click, Sends, Answer, TypeOK, RequestTypes
    <3>2. ASSUME NEW m \in sent'[s], m.event = "accept" PROVE m \in sent[s] \/ clicked'[s]
      BY <1>3, <3>2 DEF Click, Sends, Answer, TypeOK, RequestTypes
    <3>3. clicked[s] => clicked'[s]
      BY <1>3 DEF Click, TypeOK, RequestTypes
    <3>4. Shown(s)'
      <4>1. Shown(s) /\ UNCHANGED <<pc, req, held, seen>>
        BY <1>3 DEF Click, HoldsShown
      <4> QED BY <2>1, <3>1, <3>2, <3>3, <4>1 DEF Shown, Asked
    <3>5. ASSUME NEW k \in Slots \ {s} PROVE Shown(k)'
      <4>1. /\ UNCHANGED <<pc, req, held, window, seen>> /\ Shown(k)
            /\ clicked'[k] = clicked[k] /\ sent'[k] = sent[k]
        BY <1>3 DEF Click, Sends, HoldsShown, TypeOK, RequestTypes
      <4> QED BY <4>1 DEF Shown, Asked
    <3> QED BY <3>4, <3>5 DEF HoldsShown
  <2>4. C!Agree(s) \/ UNCHANGED C!vars
    BY <1>3, <2>1, AskedKept DEF Click, C!Agree, C!vars, UserAnswers, deedVars
  <2> QED BY <1>2, <2>2, <2>3, <2>4 DEF Simulated, C!Next
<1>4. CASE Edit(s)
  <2>1. pc[s] \in {"dialog", "act"} /\ held[s] \in Deeds /\ held[s].kind = "tx"
    BY <1>4 DEF Edit, HoldsShown, Shown, TypeOK, RequestTypes
  <2>2. PICK x \in Data \cup {None}, v \in Values \cup {None} :
          Sends(s, Update(x, v)) /\ Shows(s, Parts(x, Or(v, Zero)))
    BY <1>4 DEF Edit
  <2>3. Update(x, v) \in Answers /\ Parts(x, Or(v, Zero)) \subseteq AnyPart
    BY RequestsAssumption DEF Update, Answers, Parts, Or, AnyPart
  <2>4. RequestTypes'
    BY <1>4, <2>2, <2>3 DEF Edit, Sends, Shows, TypeOK, RequestTypes
  <2>5. HoldsShown'
    <3>1. ASSUME NEW m \in sent'[s] PROVE m \in sent[s] \/ m = Update(x, v)
      BY <2>2, <3>1 DEF Sends, TypeOK, RequestTypes
    <3>2. /\ Update(x, v).event = "update" /\ Update(x, v).data = x
          /\ Update(x, v).value = v
      BY DEF Update
    <3>3. seen'[s] = seen[s] \cup Parts(x, Or(v, Zero))
      BY <2>2 DEF Shows, TypeOK, RequestTypes
    <3>4. <<"data", x>> \in seen'[s] /\ (v # None => <<"value", v>> \in seen'[s])
      BY <3>3 DEF Parts, Or
    <3>5. Shown(s)'
      BY <1>4, <2>1, <3>1, <3>2, <3>3, <3>4 DEF Edit, HoldsShown, Shown, Asked
    <3>6. ASSUME NEW k \in Slots \ {s} PROVE Shown(k)'
      BY <1>4, <2>2, <3>6 DEF Edit, Sends, Shows, HoldsShown, Shown, Asked, TypeOK, RequestTypes
    <3> QED BY <3>5, <3>6 DEF HoldsShown
  <2>6. C!Offer(s)
    BY <1>4, <2>2, AskedKept DEF Edit, Shows, C!Offer, UserAnswers, deedVars, TypeOK, RequestTypes
  <2> QED BY <1>2, <2>4, <2>5, <2>6 DEF Simulated, C!Next
<1>5. CASE CloseWindow(s)
  <2>1. pc[s] \in {"dialog", "act"}
    BY <1>5 DEF CloseWindow, Visible, HoldsShown, Shown
  <2>2. RequestTypes'
    BY <1>5 DEF CloseWindow, Sends, Answer, Answers, TypeOK, RequestTypes
  <2>3. HoldsShown'
    <3>1. ASSUME NEW m \in sent'[s] PROVE m \in sent[s] \/ m.event = "close"
      BY <1>5, <3>1 DEF CloseWindow, Sends, Answer, TypeOK, RequestTypes
    <3>2. Shown(s)'
      BY <1>5, <2>1, <3>1 DEF CloseWindow, HoldsShown, Shown, Asked
    <3>3. ASSUME NEW k \in Slots \ {s} PROVE Shown(k)'
      BY <1>5, <3>3 DEF CloseWindow, Sends, HoldsShown, Shown, Asked, TypeOK, RequestTypes
    <3> QED BY <3>2, <3>3 DEF HoldsShown
  <2>4. UNCHANGED C!vars
    BY <1>5, AskedKept DEF CloseWindow, C!vars, UserAnswers, deedVars
  <2> QED BY <1>2, <2>2, <2>3, <2>4 DEF Simulated
<1> QED BY <1>3, <1>4, <1>5 DEF UserAnswers

(* The form offers the content. *)
LEMMA FormStep ==
  ASSUME NEW s \in Slots, Inv, ShowForm(s)
  PROVE  Inv' /\ Simulated
<1> USE DEF Inv
<1>1. pc[s] \in {"dialog", "act"} /\ held[s] \in Deeds
  BY DEF ShowForm, HoldsShown, Shown, TypeOK, RequestTypes
<1>2. RequestTypes'
  BY <1>1, PartsType DEF ShowForm, Shows, TypeOK, RequestTypes
<1>3. WorldTypes'
  BY DEF ShowForm, TypeOK, WorldTypes, netVars, world, HasName
<1>4. TypeOK'
  BY <1>2, <1>3 DEF ShowForm, TypeOK, deedVars, peerVars
<1>5. HoldsShown'
  <2>1. seen[s] \subseteq seen'[s]
    BY DEF ShowForm, Shows, TypeOK, RequestTypes
  <2>2. Shown(s)'
    BY <1>1, <2>1 DEF ShowForm, HoldsShown, Shown, Asked
  <2>3. ASSUME NEW k \in Slots \ {s} PROVE Shown(k)'
    BY <2>3 DEF ShowForm, Shows, HoldsShown, Shown, Asked, TypeOK, RequestTypes
  <2> QED BY <2>2, <2>3 DEF HoldsShown
<1>6. C!Offer(s)
  BY AskedKept DEF ShowForm, Shows, C!Offer, deedVars, TypeOK, RequestTypes
<1> QED BY <1>4, <1>5, <1>6 DEF Simulated, C!Next
------------------------------------------------------------------------------
(* The steps that do not touch a request that is being served. *)
LEMMA ServingUnchanged ==
  ASSUME Inv, UNCHANGED <<serving, deedVars>>
  PROVE  RequestTypes' /\ HoldsShown' /\ Simulated
<1>1. RequestTypes'
  BY DEF Inv, TypeOK, RequestTypes, serving
<1>2. HoldsShown'
  BY DEF Inv, HoldsShown, Shown, Asked, serving
<1>3. UNCHANGED C!vars
  BY AskedKept DEF C!vars, serving, deedVars
<1> QED BY <1>1, <1>2, <1>3 DEF Simulated

LEMMA CallStep ==
  ASSUME NEW s \in Slots, Inv, Call(s)
  PROVE  Inv' /\ Simulated
<1>1. RequestTypes'
  BY DEF Inv, TypeOK, RequestTypes, WorldTypes, Call, Goto
<1>2. WorldTypes'
  BY DEF Inv, TypeOK, WorldTypes, Call, world, HasName
<1>3. TypeOK'
  BY <1>1, <1>2 DEF Inv, TypeOK, Call, deedVars
<1>4. HoldsShown'
  <2>1. /\ pc[s] = "idle" /\ pc' = [pc EXCEPT ![s] = "build"]
        /\ UNCHANGED <<held, window, seen, clicked, sent>>
        /\ \A k \in Slots \ {s} : req'[k] = req[k]
    BY DEF Inv, TypeOK, RequestTypes, Call, Goto, At
  <2>2. Shown(s)'
    BY <2>1 DEF Inv, TypeOK, RequestTypes, HoldsShown, Shown
  <2>3. ASSUME NEW k \in Slots \ {s} PROVE Shown(k)'
    BY <2>1, <2>3 DEF Inv, TypeOK, RequestTypes, HoldsShown, Shown, Asked
  <2> QED BY <2>2, <2>3 DEF HoldsShown
<1>5. C!Ask(s)
  <2>1. AllAsked[s] = {} /\ seen[s] = {}
    BY DEF Call, At, AllAsked, Asked, Inv, HoldsShown, Shown
  <2>2. AllAsked' = [AllAsked EXCEPT ![s] = AllAsked'[s]]
    BY DEF Call, Goto, AllAsked, Asked, Inv, TypeOK, RequestTypes
  <2> QED BY <2>1, <2>2 DEF C!Ask, Call, deedVars
<1> QED BY <1>3, <1>4, <1>5 DEF Inv, Simulated, C!Next

LEMMA PeerStep ==
  ASSUME NEW c \in Conns, Inv, Accept(c) \/ Leave(c) \/ EndLoop(c) \/ ForgetAffinity(c)
  PROVE  Inv' /\ Simulated
<1>1. UNCHANGED <<serving, deedVars>>
  BY DEF Accept, Leave, EndLoop, ForgetAffinity
<1>2. WorldTypes'
  BY DEF Inv, TypeOK, WorldTypes, Accept, Leave, EndLoop, ForgetAffinity, Forgets, netVars,
         world, HasName
<1>3. TypeOK'
  BY <1>1, <1>2, ServingUnchanged DEF Inv, TypeOK, Accept, Leave, EndLoop, ForgetAffinity,
     deedVars, peerVars
<1> QED BY <1>1, <1>3, ServingUnchanged DEF Inv

LEMMA MoveStep ==
  ASSUME Inv, Move
  PROVE  Inv' /\ Simulated
<1>1. UNCHANGED <<serving, deedVars>>
  BY DEF Move
<1>2. PICK kind \in left.moves :
        /\ left' = [left EXCEPT !.moves = @ \ {kind}]
        /\ \/ SwitchWallet /\ UNCHANGED <<netVars, fast, affinity>>
           \/ fast' = ~fast /\ UNCHANGED <<netVars, wallet, affinity>>
           \/ SwitchNetwork /\ UNCHANGED <<nets, world>>
           \/ RemoveNetwork /\ UNCHANGED world
           \/ (\E c \in Conns : Stick(c)) /\ UNCHANGED <<netVars, wallet, fast>>
  BY DEF Move
<1>3. left' \in [calls : SUBSET Calls, moves : SUBSET Moves, answers : Nat]
  BY <1>2 DEF Inv, TypeOK, WorldTypes
<1>4. WorldTypes'
  <2> USE DEF Inv, TypeOK, WorldTypes
  <2>1. CASE SwitchWallet /\ UNCHANGED <<netVars, fast, affinity>>
    BY <1>3, <2>1 DEF SwitchWallet, netVars, HasName
  <2>2. CASE fast' = ~fast /\ UNCHANGED <<netVars, wallet, affinity>>
    BY <1>3, <2>2 DEF netVars, HasName
  <2>3. CASE SwitchNetwork /\ UNCHANGED <<nets, world>>
    BY <1>3, <2>3 DEF SwitchNetwork, SetCurrent, world, HasName
  <2>4. CASE RemoveNetwork /\ UNCHANGED world
    <3>1. PICK n \in nets, k \in nets :
            /\ n # k /\ nets' = nets \ {n}
            /\ IF n.name = cur THEN SetCurrent(k) ELSE UNCHANGED <<cur, moved>>
      BY <2>4 DEF RemoveNetwork
    <3>2. IsFiniteSet(nets')
      BY <3>1, FS_RemoveElement
    <3>3. HasName(cur)'
      BY <3>1 DEF SetCurrent, HasName
    <3> QED BY <1>3, <2>4, <3>1, <3>2, <3>3 DEF SetCurrent, world
  <2>5. CASE (\E c \in Conns : Stick(c)) /\ UNCHANGED <<netVars, wallet, fast>>
    BY <1>3, <2>5 DEF Stick, Networks, netVars, HasName
  <2> QED BY <1>2, <2>1, <2>2, <2>3, <2>4, <2>5
<1>5. TypeOK'
  BY <1>1, <1>4, ServingUnchanged DEF Inv, TypeOK, Move, deedVars, peerVars
<1> QED BY <1>1, <1>5, ServingUnchanged DEF Inv
------------------------------------------------------------------------------
LEMMA InitInv == Init => Inv
<1> SUFFICES ASSUME Init PROVE Inv
  OBVIOUS
<1>1. RequestTypes
  BY NoDeedType DEF Init, RequestTypes
<1>2. WorldTypes
  BY FirstAssumption, BudgetsAssumption DEF Init, WorldTypes, HasName
<1>3. HoldsShown
  BY DEF Init, HoldsShown, Shown
<1> QED BY <1>1, <1>2, <1>3 DEF Init, Inv, TypeOK

LEMMA NextInv == Inv /\ [Next]_vars => Inv' /\ [C!Next]_C!vars
<1> SUFFICES ASSUME Inv, [Next]_vars PROVE Inv' /\ Simulated
  BY DEF Simulated
<1>1. CASE UNCHANGED vars
  <2>1. UNCHANGED <<serving, deedVars>>
    BY <1>1 DEF vars
  <2>2. WorldTypes'
    BY <1>1 DEF vars, Inv, TypeOK, WorldTypes, netVars, world, HasName
  <2>3. TypeOK'
    BY <1>1, <2>1, <2>2, ServingUnchanged DEF vars, Inv, TypeOK, deedVars, peerVars
  <2> QED BY <2>1, <2>3, ServingUnchanged DEF Inv
<1>2. CASE Next
  BY <1>2, ServeStep, FormStep, AnswerStep, CallStep, PeerStep, MoveStep DEF Next
<1> QED BY <1>1, <1>2

(* Requests, windows, networks and connections stay well typed for any set of
   connections, wallets, chains and requests, and there always is a current
   network. *)
THEOREM TypeCorrect == Spec => []TypeOK
<1>1. Spec => []Inv
  BY InitInv, NextInv, PTL DEF Spec
<1>2. Inv => TypeOK
  BY DEF Inv
<1> QED BY <1>1, <1>2, PTL

(* In every behaviour, whatever order the answers of the windows arrive in and
   whichever parts of a transaction they change, the terms of what a handler is
   about to do were shown by its own window, each part of its content was shown
   there or asked for, and it acts only after a click on accept there. *)
THEOREM AlwaysHoldsShown == Spec => []HoldsShown
<1>1. Spec => []Inv
  BY InitInv, NextInv, PTL DEF Spec
<1>2. Inv => HoldsShown
  BY DEF Inv
<1> QED BY <1>1, <1>2, PTL

(* The requests implement Consent: all that is ever done in the user's name
   was agreed to, once, in a window that showed its terms, with a content whose
   parts were shown or asked for, or it needs no consent and is as asked. *)
THEOREM ImplementsConsent == Spec => Consents
<1>1. Init => C!Init
  BY DEF Init, C!Init, AllAsked, Asked
<1>2. Spec => []Inv
  BY InitInv, NextInv, PTL DEF Spec
<1>3. Inv /\ [Next]_vars => [C!Next]_C!vars
  BY NextInv
<1> QED BY <1>1, <1>2, <1>3, PTL DEF Spec, Consents, C!Spec
------------------------------------------------------------------------------
(* Tokens.  What is stored was checked several steps before: Checked says what
   is still known of it at every point of a request. *)
(* The names of networks are unique: they are the keys of a map. *)
Named == \A n, k \in nets : n.name = k.name => n = k

Checked(s) ==
  /\ pc[s] = "idle" => held[s].kind \notin Tokens
  /\ pc[s] = "chain" /\ req[s].kind \in Tokens =>
       moved[s] \/ req[s].chain \in {None, CurChain}
  /\ held[s].kind \in Tokens =>
       /\ held[s].kind = req[s].kind /\ held[s].data = req[s].data
       /\ moved[s] \/ req[s].chain \in {None, held[s].chain}
       /\ pc[s] = "balance" => held[s].kind = "erc1155"
       /\ pc[s] \in {"dialog", "act"} =>
            OwnsAsChecked(held[s].kind, held[s].chain, held[s].data, held[s].wallet)

TokensChecked == Named /\ \A s \in Slots : Checked(s)

(* What every step does to the networks: a request that is about to read the
   chain the second time still finds the same one, or the change is noted. *)
Steady ==
  /\ Named'
  /\ \A s \in Slots : moved[s] => moved'[s]
  /\ \A s \in Slots : pc[s] = "chain" => moved'[s] \/ CurChain' = CurChain

LEMMA SteadyUnchanged ==
  ASSUME TokensChecked, UNCHANGED netVars PROVE Steady
BY DEF TokensChecked, Steady, Named, netVars, CurChain

(* A network that keeps its name and its place in the map keeps its chain. *)
LEMMA CurChainKept ==
  ASSUME Named, Named', cur' = cur, NEW n \in nets, n \in nets', n.name = cur
  PROVE  CurChain' = CurChain
<1>1. (CHOOSE k \in nets : k.name = cur) = n
  BY DEF Named
<1>2. (CHOOSE k \in nets' : k.name = cur') = n
  BY DEF Named
<1> QED BY <1>1, <1>2 DEF CurChain

LEMMA SteadySetCurrent ==
  ASSUME TokensChecked, Inv, NEW n \in nets, nets' \subseteq nets, n \in nets', SetCurrent(n)
  PROVE  Steady
<1>1. Named'
  BY DEF TokensChecked, Named
<1>2. CurChain' = n.chain
  <2>1. (CHOOSE k \in nets' : k.name = cur') = n
    BY <1>1 DEF Named, SetCurrent
  <2> QED BY <2>1 DEF CurChain
<1> QED BY <1>1, <1>2 DEF SetCurrent, Steady

(* A step of one request leaves the others as they are. *)
Alone(s) ==
  \A k \in Slots \ {s} : pc'[k] = pc[k] /\ req'[k] = req[k] /\ held'[k] = held[k]

LEMMA OneChecked ==
  ASSUME NEW s \in Slots, TokensChecked, Steady, Alone(s), Checked(s)'
  PROVE  TokensChecked'
<1>1. ASSUME NEW k \in Slots \ {s} PROVE Checked(k)'
  <2>1. /\ pc'[k] = pc[k] /\ req'[k] = req[k] /\ held'[k] = held[k]
        /\ moved[k] => moved'[k]
        /\ pc[k] = "chain" => moved'[k] \/ CurChain' = CurChain
    BY DEF Alone, Steady
  <2>2. Checked(k)
    BY DEF TokensChecked
  <2> QED BY <2>1, <2>2 DEF Checked
<1> QED BY <1>1 DEF TokensChecked, Steady

LEMMA ResetChecked ==
  ASSUME NEW s \in Slots, Inv, TokensChecked, Steady, NEW there \in {"idle", "switch"},
         Goto(s, there), req' = req \/ req' = [req EXCEPT ![s] = NoDeed],
         held' = [held EXCEPT ![s] = NoDeed]
  PROVE  TokensChecked'
<1>1. /\ pc'[s] = there /\ held'[s] = NoDeed /\ Alone(s)
  BY DEF Inv, TypeOK, RequestTypes, Goto, Alone
<1>2. Checked(s)'
  BY <1>1 DEF Checked, NoDeed, Tokens
<1> QED BY <1>1, <1>2, OneChecked

LEMMA FinishChecked ==
  ASSUME NEW s \in Slots, Inv, TokensChecked, Steady, Finish(s) PROVE TokensChecked'
BY ResetChecked DEF Finish, Reset

LEMMA ReturnChecked ==
  ASSUME NEW s \in Slots, Inv, TokensChecked, Return(s) PROVE TokensChecked'
BY SteadyUnchanged, FinishChecked DEF Return

(* A deed that may be held at a window. *)
Held(s, d) ==
  d.kind \in Tokens =>
    /\ d.kind = req[s].kind /\ d.data = req[s].data
    /\ moved[s] \/ req[s].chain \in {None, d.chain}
    /\ OwnsAsChecked(d.kind, d.chain, d.data, d.wallet)

LEMMA OpenChecked ==
  ASSUME NEW s \in Slots, Inv, TokensChecked, NEW d, Open(s, d), Held(s, d)
  PROVE  TokensChecked'
<1>1. Steady /\ moved' = moved
  BY SteadyUnchanged DEF Open, netVars
<1>2. pc'[s] = "dialog" /\ held'[s] = d /\ req' = req /\ Alone(s)
  BY DEF Inv, TypeOK, RequestTypes, Open, Goto, Alone
<1>3. Checked(s)'
  BY <1>1, <1>2 DEF Checked, Held
<1> QED BY <1>1, <1>2, <1>3, OneChecked

LEMMA ProceedChecked ==
  ASSUME NEW s \in Slots, Inv, TokensChecked, NEW d,
         NEW there \in {"chain", "check", "balance", "switch"}, Proceed(s, d, there),
         there = "chain" => req[s].chain \in {None, CurChain},
         d.kind \in Tokens => /\ d.kind = req[s].kind /\ d.data = req[s].data
                              /\ moved[s] \/ req[s].chain \in {None, d.chain}
                              /\ there = "balance" => d.kind = "erc1155"
  PROVE  TokensChecked'
<1>1. Steady /\ moved' = moved /\ CurChain' = CurChain
  BY SteadyUnchanged DEF Proceed, netVars, CurChain
<1>2. pc'[s] = there /\ held'[s] = d /\ req' = req /\ Alone(s)
  BY DEF Inv, TypeOK, RequestTypes, Proceed, Goto, Alone
<1>3. Checked(s)'
  BY <1>1, <1>2 DEF Checked
<1> QED BY <1>1, <1>2, <1>3, OneChecked

(* check_network compares the chain the page asked for with the current one. *)
LEMMA BuildChecked ==
  ASSUME NEW s \in Slots, Inv, TokensChecked, Build(s) PROVE TokensChecked'
<1>1. CASE BuildSigning(s)
  <2> DEFINE d == Deed(s, req[s].kind, ChainOf(s), From(s))
  <2>1. d.kind \notin Tokens
    BY <1>1 DEF BuildSigning, Deed, Tokens
  <2>2. CASE Proceed(s, d, "check")
    <3> HIDE DEF d
    <3> QED BY <2>1, <2>2, ProceedChecked
  <2>3. CASE Panic(s)
    BY <2>3, SteadyUnchanged, ResetChecked DEF Panic, Reset
  <2> QED BY <1>1, <2>2, <2>3 DEF BuildSigning
<1>2. CASE BuildAdd(s) \/ BuildUpdate(s)
  <2> DEFINE d == Deed(s, "add", req[s].chain, None)
  <2>1. d.kind \notin Tokens
    BY DEF Deed, Tokens
  <2> HIDE DEF d
  <2>2. Return(s) \/ Open(s, d) \/ Proceed(s, d, "check")
    BY <1>2 DEF BuildAdd, BuildUpdate, d
  <2> QED BY <2>1, <2>2, ReturnChecked, OpenChecked, ProceedChecked DEF Held
<1>3. CASE BuildToken(s)
  BY <1>3, ReturnChecked, ProceedChecked DEF BuildToken, NoDeed, Tokens
<1> QED BY <1>1, <1>2, <1>3 DEF Build

(* The chain that is read the second time is the one that was compared, unless
   the network was switched. *)
LEMMA ReadChainChecked ==
  ASSUME NEW s \in Slots, Inv, TokensChecked, ReadChain(s) PROVE TokensChecked'
<1> DEFINE d == Deed(s, req[s].kind, CurChain, None)
<1>1. d.kind = req[s].kind /\ d.data = req[s].data /\ d.chain = CurChain
  BY DEF Deed
<1>2. moved[s] \/ req[s].chain \in {None, d.chain}
  BY <1>1 DEF ReadChain, At, TokensChecked, Checked, Tokens
<1>3. Proceed(s, d, "check")
  BY DEF ReadChain
<1> HIDE DEF d
<1> QED BY <1>1, <1>2, <1>3, ProceedChecked

(* An NFT is held at a window for an owner, as far as the code asks. *)
LEMMA CheckChecked ==
  ASSUME NEW s \in Slots, Inv, TokensChecked, Check(s) PROVE TokensChecked'
<1>1. pc[s] = "check" /\ Checked(s) /\ held[s] \in Deeds
  BY DEF Check, At, TokensChecked, Inv, TypeOK, RequestTypes
<1>2. CASE CheckSigning(s)
  <2>1. Held(s, held[s])
    BY <1>2 DEF CheckSigning, Held, Tokens
  <2>2. CASE Finish(s) /\ UNCHANGED netVars
    BY <2>2, SteadyUnchanged, FinishChecked
  <2> QED BY <1>2, <2>1, <2>2, ReturnChecked, OpenChecked DEF CheckSigning
<1>3. CASE CheckUpdate(s)
  <2>1. Held(s, held[s])
    BY <1>1, <1>3 DEF CheckUpdate, Held, Checked, Tokens
  <2>2. NoDeed.kind \notin Tokens
    BY DEF NoDeed, Tokens
  <2> QED BY <1>3, <2>1, <2>2, ReturnChecked, OpenChecked, ProceedChecked DEF CheckUpdate
<1>4. CASE CheckToken(s)
  <2>1. CASE Return(s)
    BY <2>1, ReturnChecked
  <2> DEFINE d == [held[s] EXCEPT !.wallet = wallet]
  <2>2. /\ d.kind = held[s].kind /\ d.chain = held[s].chain /\ d.data = held[s].data
        /\ d.wallet = wallet
    BY <1>1 DEF Deeds
  <2>3. d.kind \in Tokens => /\ d.kind = req[s].kind /\ d.data = req[s].data
                             /\ moved[s] \/ req[s].chain \in {None, d.chain}
    BY <1>1, <2>2 DEF Checked
  <2>4. /\ req[s].kind \in Tokens
        /\ \/ Return(s)
           \/ req[s].kind = "erc20" /\ Open(s, d)
           \/ /\ req[s].kind = "erc721" /\ OwnsOfContract(d.chain, d.data, d.wallet)
              /\ Open(s, d)
           \/ req[s].kind = "erc1155" /\ Proceed(s, d, "balance")
    BY <1>4, <2>2 DEF CheckToken, Tokens
  <2> HIDE DEF d
  <2>5. CASE /\ \/ req[s].kind = "erc20"
                \/ req[s].kind = "erc721" /\ OwnsOfContract(d.chain, d.data, d.wallet)
             /\ Open(s, d)
    <3>1. Held(s, d)
      BY <2>3, <2>4, <2>5 DEF Held, OwnsAsChecked
    <3> QED BY <2>5, <3>1, OpenChecked
  <2>6. CASE req[s].kind = "erc1155" /\ Proceed(s, d, "balance")
    BY <2>3, <2>6, ProceedChecked
  <2> QED BY <2>1, <2>4, <2>5, <2>6
<1> QED BY <1>2, <1>3, <1>4 DEF Check

LEMMA BalanceChecked ==
  ASSUME NEW s \in Slots, Inv, TokensChecked, CheckBalance(s) PROVE TokensChecked'
<1> DEFINE d == [held[s] EXCEPT !.wallet = wallet]
<1>1. pc[s] = "balance" /\ Checked(s) /\ held[s] \in Deeds
  BY DEF CheckBalance, At, TokensChecked, Inv, TypeOK, RequestTypes
<1>2. /\ d.kind = held[s].kind /\ d.chain = held[s].chain /\ d.data = held[s].data
      /\ d.wallet = wallet
  BY <1>1 DEF Deeds
<1>3. Return(s) \/ (<<d.chain, d.data, d.wallet>> \in Owners /\ Open(s, d))
  BY <1>2 DEF CheckBalance
<1> HIDE DEF d
<1>4. CASE <<d.chain, d.data, d.wallet>> \in Owners /\ Open(s, d)
  <2>1. Held(s, d)
    BY <1>1, <1>2, <1>4 DEF Held, Checked, OwnsAsChecked
  <2> QED BY <1>4, <2>1, OpenChecked
<1> QED BY <1>3, <1>4, ReturnChecked

LEMMA AskSwitchChecked ==
  ASSUME NEW s \in Slots, Inv, TokensChecked, AskSwitch(s) PROVE TokensChecked'
<1> DEFINE d == [NoDeed EXCEPT !.kind = "switch", !.chain = req[s].chain]
<1>1. d.kind \notin Tokens /\ Open(s, d)
  BY DEF AskSwitch, NoDeed, Tokens
<1> HIDE DEF d
<1> QED BY <1>1, OpenChecked DEF Held

(* Only transactions are edited at their window. *)
LEMMA WaitsChecked ==
  ASSUME NEW s \in Slots, Inv, TokensChecked, pc[s] = "dialog", NEW m \in sent[s], NEW d,
         \/ d = held[s]
         \/ m.event = "update" /\ d = Edited(held[s], m),
         Waits(s, m, d)
  PROVE  TokensChecked'
<1>1. Checked(s) /\ held[s] \in Deeds /\ m \in Answers
  BY DEF TokensChecked, Inv, TypeOK, RequestTypes
<1>2. d = held[s] \/ d.kind = "tx"
  <2>1. CASE m.event = "update" /\ d = Edited(held[s], m)
    <3>1. held[s].kind = "tx"
      BY <1>1, <2>1 DEF Inv, HoldsShown, Shown
    <3> QED BY <1>1, <2>1, <3>1, EditDeed
  <2> QED BY <2>1
<1>3. Steady /\ moved' = moved
  BY SteadyUnchanged DEF Waits, netVars
<1>4. pc' = pc /\ held'[s] = d /\ req' = req /\ Alone(s)
  BY DEF Inv, TypeOK, RequestTypes, Waits, Alone
<1>5. Checked(s)'
  BY <1>1, <1>2, <1>3, <1>4 DEF Checked, Tokens
<1> QED BY <1>3, <1>4, <1>5, OneChecked

LEMMA RecvChecked ==
  ASSUME NEW s \in Slots, Inv, TokensChecked, Recv(s) PROVE TokensChecked'
<1>1. PICK m \in sent[s] : Receive(s, m)
  BY DEF Recv
<1>2. pc[s] = "dialog" /\ Checked(s)
  BY DEF Recv, At, TokensChecked
<1>3. CASE Accepts(s, m)
  <2>1. Steady /\ moved' = moved
    BY <1>3, SteadyUnchanged DEF Accepts, netVars
  <2>2. pc'[s] = "act" /\ held' = held /\ req' = req /\ Alone(s)
    BY <1>3 DEF Inv, TypeOK, RequestTypes, Accepts, Goto, Alone
  <2>3. Checked(s)'
    BY <1>2, <2>1, <2>2 DEF Checked
  <2> QED BY <2>1, <2>2, <2>3, OneChecked
<1>4. CASE Return(s)
  BY <1>4, ReturnChecked
<1>5. CASE Waits(s, m, held[s])
  BY <1>2, <1>5, WaitsChecked
<1>6. CASE m.event = "update" /\ Waits(s, m, Edited(held[s], m))
  BY <1>2, <1>6, WaitsChecked
<1> QED BY <1>1, <1>3, <1>4, <1>5, <1>6 DEF Receive

(* Networks are added under new names, and switches are noted. *)
LEMMA ActChecked ==
  ASSUME NEW s \in Slots, Inv, TokensChecked, Act(s) PROVE TokensChecked'
<1>1. CASE Return(s)
  BY <1>1, ReturnChecked
<1>2. CASE ActSigning(s) \/ ActToken(s)
  BY <1>2, SteadyUnchanged, FinishChecked DEF ActSigning, ActToken
<1>3. CASE ActAdd(s) /\ ~Return(s)
  <2> DEFINE n == [name |-> held[s].data, chain |-> held[s].chain,
                   dedup |-> Cardinality({k \in nets : k.chain = held[s].chain})]
  <2>1. /\ ~HasName(n.name) /\ nets' = nets \cup {n} /\ UNCHANGED <<cur, moved>>
        /\ \/ /\ Goto(s, "switch") /\ held' = [held EXCEPT ![s] = NoDeed] /\ req' = req
           \/ Finish(s)
    BY <1>3 DEF ActAdd
  <2> HIDE DEF n
  <2>2. Named'
    BY <2>1 DEF TokensChecked, Named, HasName
  <2>3. PICK k \in nets : k.name = cur
    BY DEF Inv, TypeOK, WorldTypes, HasName
  <2>4. CurChain' = CurChain
    BY <2>1, <2>2, <2>3, CurChainKept DEF TokensChecked
  <2>5. Steady
    BY <2>1, <2>2, <2>4 DEF Steady
  <2> QED BY <2>1, <2>5, FinishChecked, ResetChecked
<1>4. CASE ActSwitch(s) /\ ~Return(s)
  <2>1. PICK n \in nets : SetCurrent(n)
    BY <1>4 DEF ActSwitch
  <2>2. Finish(s) /\ UNCHANGED nets
    BY <1>4 DEF ActSwitch
  <2>3. Steady
    BY <2>1, <2>2, SteadySetCurrent
  <2> QED BY <2>2, <2>3, FinishChecked
<1> QED BY <1>1, <1>2, <1>3, <1>4 DEF Act

LEMMA ServeChecked ==
  ASSUME NEW s \in Slots, Inv, TokensChecked, Serve(s) PROVE TokensChecked'
BY BuildChecked, ReadChainChecked, CheckChecked, BalanceChecked, AskSwitchChecked,
   RecvChecked, ActChecked
DEF Serve

(* A new request starts with nothing held. *)
LEMMA CallChecked ==
  ASSUME NEW s \in Slots, Inv, TokensChecked, Call(s) PROVE TokensChecked'
<1>1. /\ pc[s] = "idle" /\ pc'[s] = "build" /\ UNCHANGED <<held, nets, cur>>
      /\ \A k \in Slots \ {s} : /\ pc'[k] = pc[k] /\ req'[k] = req[k]
                                /\ moved'[k] = moved[k]
  BY DEF Call, At, Goto, Inv, TypeOK, RequestTypes, WorldTypes
<1>2. Named' /\ CurChain' = CurChain
  BY <1>1 DEF TokensChecked, Named, CurChain
<1>3. Checked(s)'
  BY <1>1 DEF TokensChecked, Checked
<1>4. ASSUME NEW k \in Slots \ {s} PROVE Checked(k)'
  BY <1>1, <1>2 DEF TokensChecked, Checked
<1> QED BY <1>2, <1>3, <1>4 DEF TokensChecked

(* Steps around the requests. *)
LEMMA ServingChecked ==
  ASSUME Inv, TokensChecked, Steady, UNCHANGED <<pc, req, held>> PROVE TokensChecked'
<1>1. ASSUME NEW k \in Slots PROVE Checked(k)'
  <2>1. /\ Checked(k) /\ (moved[k] => moved'[k])
        /\ pc[k] = "chain" => moved'[k] \/ CurChain' = CurChain
    BY DEF TokensChecked, Steady
  <2> QED BY <2>1 DEF Checked
<1> QED BY <1>1 DEF TokensChecked, Steady

LEMMA MoveSteady == ASSUME Inv, TokensChecked, Move PROVE Steady
<1>1. CASE UNCHANGED netVars
  BY <1>1, SteadyUnchanged
<1>2. CASE SwitchNetwork /\ UNCHANGED nets
  BY <1>2, SteadySetCurrent DEF SwitchNetwork
<1>3. CASE RemoveNetwork
  <2>1. PICK n \in nets, k \in nets :
          /\ n # k /\ nets' = nets \ {n}
          /\ IF n.name = cur THEN SetCurrent(k) ELSE UNCHANGED <<cur, moved>>
    BY <1>3 DEF RemoveNetwork
  <2>2. CASE n.name = cur
    BY <2>1, <2>2, SteadySetCurrent
  <2>3. CASE n.name # cur
    <3>1. PICK c \in nets : c.name = cur
      BY DEF Inv, TypeOK, WorldTypes, HasName
    <3>2. c \in nets' /\ UNCHANGED <<cur, moved>> /\ Named'
      BY <2>1, <2>3, <3>1 DEF TokensChecked, Named
    <3> QED BY <3>1, <3>2, CurChainKept DEF TokensChecked, Steady
  <2> QED BY <2>2, <2>3
<1> QED BY <1>1, <1>2, <1>3 DEF Move

LEMMA NextChecked == ASSUME Inv, TokensChecked, [Next]_vars PROVE TokensChecked'
<1>1. CASE UNCHANGED <<pc, req, held, netVars>>
  BY <1>1, SteadyUnchanged, ServingChecked
<1>2. CASE UNCHANGED vars
  BY <1>1, <1>2 DEF vars, serving
<1>3. ASSUME NEW s \in Slots, UserAnswers(s) \/ ShowForm(s) PROVE TokensChecked'
  BY <1>1, <1>3 DEF UserAnswers, Click, Edit, CloseWindow, ShowForm
<1>4. ASSUME NEW c \in Conns, Accept(c) \/ Leave(c) \/ EndLoop(c) \/ ForgetAffinity(c)
      PROVE  TokensChecked'
  BY <1>1, <1>4 DEF Accept, Leave, EndLoop, ForgetAffinity, serving
<1>5. CASE Move
  BY <1>5, MoveSteady, ServingChecked DEF Move, serving
<1> QED BY <1>2, <1>3, <1>4, <1>5, ServeChecked, CallChecked DEF Next

LEMMA InitChecked == Init => TokensChecked
<1> SUFFICES ASSUME Init PROVE TokensChecked
  OBVIOUS
<1>1. Named
  BY FirstAssumption DEF Init, Named
<1>2. ASSUME NEW s \in Slots PROVE Checked(s)
  BY DEF Init, Checked, NoDeed, Tokens
<1> QED BY <1>1, <1>2 DEF TokensChecked

(* Tokens are stored by ActToken alone. *)
LEMMA StoresChecked ==
  ASSUME Inv, TokensChecked, [Next]_vars PROVE StoresAsChecked
<1>1. CASE stored' = stored
  BY <1>1 DEF StoresAsChecked
<1>2. ASSUME NEW s \in Slots, pc[s] = "act", ActToken(s) PROVE StoresAsChecked
  <2> DEFINE d == [held[s] EXCEPT !.wallet = wallet]
  <2>1. stored' = stored \cup {d} /\ held[s].kind \in Tokens
    BY <1>2 DEF ActToken, Tokens
  <2>2. held[s] \in Deeds /\ Checked(s)
    BY DEF TokensChecked, Inv, TypeOK, RequestTypes
  <2>3. /\ d.kind = held[s].kind /\ d.chain = held[s].chain /\ d.data = held[s].data
        /\ d.wallet = wallet
    BY <2>2 DEF Deeds
  <2>4. moved[s] \/ req[s].chain \in {None, d.chain}
    BY <2>1, <2>2, <2>3 DEF Checked
  <2>5. /\ OwnsAsChecked(d.kind, d.chain, d.data, held[s].wallet)
        /\ req[s].data = d.data
    BY <1>2, <2>1, <2>2, <2>3 DEF Checked
  <2> HIDE DEF d
  <2> QED BY <1>2, <2>1, <2>3, <2>4, <2>5 DEF StoresAsChecked
<1>3. ASSUME NEW s \in Slots, Serve(s) PROVE StoresAsChecked
  <2>1. CASE Act(s)
    <3>1. stored' = stored \/ (pc[s] = "act" /\ ActToken(s))
      BY <2>1 DEF Act, At, Return, ActSigning, ActAdd, ActSwitch
    <3> QED BY <1>1, <1>2, <3>1
  <2>2. CASE Build(s) \/ ReadChain(s) \/ Check(s) \/ CheckBalance(s) \/ AskSwitch(s)
    <3>1. stored' = stored
      BY <2>2 DEF Build, BuildSigning, BuildAdd, BuildUpdate, BuildToken, ReadChain, Check,
                  CheckSigning, CheckUpdate, CheckToken, CheckBalance, AskSwitch, Open, Proceed, Return, Panic
    <3> QED BY <1>1, <3>1
  <2>3. CASE Recv(s)
    BY <1>1, <2>3 DEF Recv, Receive, Accepts, Waits, Return
  <2> QED BY <1>3, <2>1, <2>2, <2>3 DEF Serve
<1>4. CASE \E s \in Slots : Call(s) \/ ShowForm(s) \/ UserAnswers(s)
  BY <1>1, <1>4 DEF Call, ShowForm, UserAnswers
<1>5. CASE Move \/ \E c \in Conns : Accept(c) \/ Leave(c) \/ EndLoop(c) \/ ForgetAffinity(c)
  BY <1>1, <1>5 DEF Move, Accept, Leave, EndLoop, ForgetAffinity
<1>6. CASE UNCHANGED vars
  BY <1>1, <1>6 DEF vars
<1> QED BY <1>3, <1>4, <1>5, <1>6 DEF Next

(* TokenAdd checks a token several steps before it stores it: for any number of
   connections and whatever the user does meanwhile, a token is stored for the
   chain the page asked for unless the current one changed between the two
   times it was read, and the wallet it was checked for owns an ERC-1155, or
   something of the contract of an ERC-721. *)
THEOREM TokensAsChecked == Spec => TokenAsChecked
<1>1. Spec => [](Inv /\ TokensChecked)
  BY InitInv, NextInv, InitChecked, NextChecked, PTL DEF Spec
<1>2. Inv /\ TokensChecked /\ [Next]_vars => [StoresAsChecked]_vars
  BY StoresChecked
<1> QED BY <1>1, <1>2, PTL DEF Spec, TokenAsChecked
==============================================================================
