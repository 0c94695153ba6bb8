---------------------------- MODULE NetworksProofs ---------------------------
(***************************************************************************)
(* Of the networks actor, for any set of names, chains and endpoints: the  *)
(* file holds what the actor holds and every network was announced, unless *)
(* a write failed, and the echo of a switch does not multiply, whatever a  *)
(* receiver loses to lag.  Of the site connections composed with it: the   *)
(* file holds every affinity there is, unless the last write failed, and   *)
(* the actor's own promises hold with any number of calls of sites around. *)
(*                                                                         *)
(* Announced is not inductive: the poller and the edit form put copies     *)
(* back that they took before.  CopiesAnnounced says of the copies what    *)
(* Announced says of the map.  EchoBounded needs the types of the queues   *)
(* only: every handler adds at most one message to what it was given.      *)
(* Among the sites, a call under way counts as well (EchoToCome).          *)
(***************************************************************************)
EXTENDS Connections, FiniteSetTheorems, WellFoundedInduction, TLAPS

ActorTypes ==
  /\ networks \in Map
  /\ order \in Orders
  /\ current \in Names
  /\ file \in [networks : Map, current : Names]
  /\ spawned \in Seq(Ids)
  /\ announced \subseteq Ids /\ untold \subseteq Ids /\ lastWrite \in {"ok", "failed"}
  /\ faults \in Nat

(* Announced, or kept back by a write that failed. *)
Known == announced \cup untold

GoodBox(box) == DOMAIN box = Receivers /\ box["networks"] \in Seq(Msg)

CopyAnnounced(map) == \A n \in Names : map[n] # Absent => map[n].id \in Known

CopiesAnnounced ==
  /\ poller # Idle => CopyAnnounced(poller.copy)
  /\ form # Closed => form.net.id \in Known

Inv == TypeOK /\ GoodBox(inbox) /\ Persisted /\ Announced /\ CopiesAnnounced

(* What a handler of the actor leaves behind. *)
ActorInv == ActorTypes /\ Persisted /\ Announced

ActorKept == ActorInv' /\ GoodBox(inbox)' /\ Known \subseteq Known'
------------------------------------------------------------------------------
(* Sending keeps the queue of the networks receiver well typed. *)
LEMMA SendGood ==
  ASSUME NEW box, GoodBox(box), NEW m,
         m.kind \in {"ChainChanged", "StackAdd", "StackRemove"} => m \in Msg
  PROVE  GoodBox(Send(box, m))
<1>1. "networks" \in Receivers /\ Capacity \in Nat \ {0}
  BY NetworksAssumption, CapacityAssumption
<1>2. Handled["networks"] = {"ChainChanged", "StackAdd", "StackRemove"}
  BY DEF Handled
<1>3. DOMAIN Send(box, m) = Receivers
  BY DEF Send
<1>4. Send(box, m)["networks"]
        = IF m.kind \in {"ChainChanged", "StackAdd", "StackRemove"}
          THEN Push(box["networks"], m) ELSE box["networks"]
  BY <1>1, <1>2 DEF Send
<1>5. PICK q : q = box["networks"]
  OBVIOUS
<1>6. q \in Seq(Msg)
  BY <1>5 DEF GoodBox
<1>7. ASSUME m \in Msg PROVE Push(q, m) \in Seq(Msg)
  <2>1. Len(q) >= Capacity => q # <<>> /\ Tail(q) \in Seq(Msg)
    BY <1>1, <1>6
  <2> QED BY <1>1, <1>6, <1>7, <2>1 DEF Push
<1> QED BY <1>3, <1>4, <1>5, <1>6, <1>7 DEF GoodBox

(* A message the networks receiver does not handle is always fine. *)
LEMMA SendOther ==
  ASSUME NEW box, GoodBox(box), NEW net,
         NEW kind \in {"NetworkAdded", "NetworkUpdated", "NetworkRemoved"}
  PROVE  GoodBox(Send(box, NetworkMsg(kind, net)))
BY SendGood DEF NetworkMsg

(* The ids of the networks with one chain id can be counted. *)
LEMMA CountIsNat == ASSUME NEW chain PROVE ChainIdCount(chain) \in Nat
<1>1. {n \in Present : networks[n].id[1] = chain} \subseteq Names
  BY DEF Present
<1>2. IsFiniteSet({n \in Present : networks[n].id[1] = chain})
  BY <1>1, NetworksAssumption, FS_Subset
<1> QED BY <1>2, FS_CardinalityType DEF ChainIdCount

(* on_network_changed spawns one announcement. *)
LEMMA SpawnedType ==
  ASSUME ActorTypes, NEW map \in Map, NEW name \in Names, map[name] # Absent
  PROVE  OnNetworkChanged(map, name) \in Seq(Ids)
<1>1. map[name].id \in Ids
  BY DEF Map, Net
<1> QED BY <1>1 DEF OnNetworkChanged, ActorTypes

(* A handler that fails early. *)
LEMMA FailedKept ==
  ASSUME ActorInv, NEW box, GoodBox(box), Failed(box)
  PROVE  ActorKept
BY DEF ActorInv, ActorTypes, Persisted, Announced, Present, Failed, actorVars,
       history, Known, ActorKept, GoodBox

(* save() writes the file, or says that it has failed. *)
LEMMA SaveKept ==
  ASSUME faults \in Nat, NEW map, NEW name, Save(map, name)
  PROVE  /\ \/ file' = [networks |-> map, current |-> name]
            \/ lastWrite' = "failed" /\ file' = file
         /\ lastWrite' \in {"ok", "failed"} /\ faults' \in Nat
BY DEF Save, Saved, SaveFails, Fault

LEMMA SaveAndAnnounceKept ==
  ASSUME ActorTypes, NEW box, GoodBox(box), NEW map \in Map, NEW name \in Names,
         NEW kind \in {"NetworkAdded", "NetworkUpdated"}, NEW net \in Net,
         SaveAndAnnounce(map, name, kind, net, box)
  PROVE  /\ Save(map, name)
         /\ announced' \subseteq Ids /\ untold' \subseteq Ids
         /\ Known' = Known \cup {net.id}
         /\ GoodBox(inbox')
<1>1. net.id \in Ids
  BY DEF Net
<1>2. CASE /\ Saved(map, name) /\ Announce(net)
           /\ inbox' = Send(box, NetworkMsg(kind, net))
  BY <1>1, <1>2, SendOther DEF Announce, Save, Known, ActorTypes
<1>3. CASE /\ SaveFails /\ untold' = untold \cup {net.id}
           /\ inbox' = box /\ UNCHANGED announced
  BY <1>1, <1>3 DEF Save, Known, ActorTypes
<1> QED BY <1>2, <1>3 DEF SaveAndAnnounce

LEMMA SaveAndRemoveKept ==
  ASSUME NEW box, GoodBox(box), NEW map, NEW name, NEW net,
         SaveAndRemove(map, name, net, box)
  PROVE  Save(map, name) /\ GoodBox(inbox')
BY SendOther DEF SaveAndRemove, Save

(* `set_current` changes only the name, and saves it. *)
LEMMA SetCurrentKept ==
  ASSUME ActorInv, NEW box, GoodBox(box), NEW name \in Names, SetCurrent(name, box)
  PROVE  ActorKept
<1>1. PICK first \in Present :
        spawned' = IF IsSwitch(CurrentName(networks, current, first),
                               CurrentName(networks, name, first))
                   THEN OnNetworkChanged(networks, CurrentName(networks, name, first))
                   ELSE spawned
  BY DEF SetCurrent
<1>2. /\ current' = name /\ inbox' = box /\ UNCHANGED <<networks, order, announced, untold>>
      /\ \/ file' = [networks |-> networks, current |-> name]
         \/ lastWrite' = "failed" /\ file' = file
      /\ lastWrite' \in {"ok", "failed"} /\ faults' \in Nat
  BY SaveKept DEF SetCurrent, ActorInv, ActorTypes
<1>3. PICK new : new = CurrentName(networks, name, first)
  OBVIOUS
<1>4. new \in Names /\ networks[new] # Absent /\ networks \in Map
  BY <1>3 DEF CurrentName, Present, ActorInv, ActorTypes
<1>5. spawned' \in Seq(Ids)
  BY <1>1, <1>3, <1>4, SpawnedType DEF ActorInv, ActorTypes
<1>6. ActorTypes'
  BY <1>2, <1>5 DEF ActorInv, ActorTypes
<1>7. Persisted' /\ Announced'
  BY <1>2 DEF ActorInv, Persisted, Announced, Present
<1> QED BY <1>2, <1>6, <1>7 DEF ActorInv, ActorKept, GoodBox, Known

(* `set_current` with an id. *)
LEMMA SetCurrentByIdKept ==
  ASSUME ActorInv, NEW box, GoodBox(box), NEW id, SetCurrentById(id, box)
  PROVE  ActorKept
BY SetCurrentKept, FailedKept DEF SetCurrentById

(* `add` announces the network it inserts. *)
LEMMA AddKept ==
  ASSUME ActorInv, NEW box, GoodBox(box), NEW name \in Names, NEW chain \in Chains,
         NEW is_stack \in BOOLEAN, NEW url \in Urls,
         AddNetwork(name, chain, is_stack, url, box)
  PROVE  ActorKept
<1>1. PICK net : net = [id |-> <<chain, ChainIdCount(chain)>>, status |-> "Unknown",
                        is_stack |-> is_stack, http_url |-> url]
  OBVIOUS
<1>2. net \in Net /\ net.id \in Ids
  BY <1>1, CountIsNat DEF Net, Ids, Status
<1>3. CASE Failed(box)
  BY <1>3, FailedKept
<1>4. CASE /\ networks' = Inserted(name, net)
           /\ order' \in Orders
           /\ SaveAndAnnounce(Inserted(name, net), current, "NetworkAdded", net, box)
           /\ UNCHANGED <<current, spawned>>
  <2>1. networks' = [networks EXCEPT ![name] = net]
    BY <1>4 DEF Inserted
  <2>2. networks' \in Map
    BY <1>2, <2>1 DEF Map, ActorInv, ActorTypes
  <2>3. /\ Save(networks', current)
        /\ announced' \subseteq Ids /\ untold' \subseteq Ids
        /\ Known' = Known \cup {net.id}
        /\ GoodBox(inbox')
    BY <1>2, <1>4, <2>2, SaveAndAnnounceKept DEF ActorInv, ActorTypes
  <2>4. /\ \/ file' = [networks |-> networks', current |-> current']
           \/ lastWrite' = "failed" /\ file' = file
        /\ lastWrite' \in {"ok", "failed"} /\ faults' \in Nat
    BY <1>4, <2>3, SaveKept DEF ActorInv, ActorTypes
  <2>5. current' \in Names /\ spawned' \in Seq(Ids) /\ order' \in Orders
    BY <1>4 DEF ActorInv, ActorTypes
  <2>6. ActorTypes'
    BY <2>2, <2>3, <2>4, <2>5 DEF ActorInv, ActorTypes
  <2>7. Persisted'
    BY <2>4 DEF Persisted
  <2>8. Announced'
    BY <2>1, <2>3 DEF ActorInv, ActorTypes, Announced, Known, Present, Map
  <2>9. GoodBox(inbox)'
    BY <2>3 DEF GoodBox
  <2> QED BY <2>3, <2>6, <2>7, <2>8, <2>9 DEF ActorInv, ActorKept
<1> QED BY <1>1, <1>3, <1>4 DEF AddNetwork

(* `update` announces the network it puts in place. *)
LEMMA UpdateKept ==
  ASSUME ActorInv, NEW box, GoodBox(box), NEW old \in Names, NEW name \in Names,
         NEW net \in Net, UpdateNetwork(old, name, net, box)
  PROVE  ActorKept
<1>1. CASE Failed(box)
  BY <1>1, FailedKept
<1>2. PICK map : map = [Removed(old) EXCEPT ![name] = net]
  OBVIOUS
<1>3. PICK cur : cur = IF current = old THEN name ELSE current
  OBVIOUS
<1>4. CASE /\ networks' = map
           /\ order' \in Orders
           /\ current' = cur
           /\ spawned' = IF current = old THEN OnNetworkChanged(map, name) ELSE spawned
           /\ SaveAndAnnounce(map, cur, "NetworkUpdated", net, box)
  <2>1. map \in Map /\ map[name] = net /\ net # Absent /\ net.id \in Ids
    BY <1>2, DefaultAssumption DEF Removed, Map, Net, ActorInv, ActorTypes
  <2>2. \A n \in Names : map[n] # Absent => n = name \/ map[n] = networks[n]
    BY <1>2 DEF Removed, Map, ActorInv, ActorTypes
  <2>3. spawned' \in Seq(Ids)
    BY <1>4, <2>1, SpawnedType DEF ActorInv, ActorTypes
  <2>4. /\ Save(map, cur)
        /\ announced' \subseteq Ids /\ untold' \subseteq Ids
        /\ Known' = Known \cup {net.id}
        /\ GoodBox(inbox')
    BY <1>3, <1>4, <2>1, SaveAndAnnounceKept DEF ActorInv, ActorTypes
  <2>5. /\ \/ file' = [networks |-> networks', current |-> current']
           \/ lastWrite' = "failed" /\ file' = file
        /\ lastWrite' \in {"ok", "failed"} /\ faults' \in Nat
    BY <1>4, <2>4, SaveKept DEF ActorInv, ActorTypes
  <2>6. ActorTypes'
    BY <1>3, <1>4, <2>1, <2>3, <2>4, <2>5 DEF ActorInv, ActorTypes
  <2>7. Persisted'
    BY <2>5 DEF Persisted
  <2>8. Announced'
    BY <1>4, <2>1, <2>2, <2>4 DEF ActorInv, Announced, Known, Present
  <2>9. GoodBox(inbox)'
    BY <2>4 DEF GoodBox
  <2> QED BY <2>4, <2>6, <2>7, <2>8, <2>9 DEF ActorInv, ActorKept
<1> QED BY <1>1, <1>2, <1>3, <1>4 DEF UpdateNetwork

(* `remove` saves unless it leaves no network at all. *)
LEMMA RemoveKept ==
  ASSUME ActorInv, NEW box, GoodBox(box), NEW name \in Names, RemoveNetwork(name, box)
  PROVE  ActorKept
<1>1. CASE Failed(box)
  BY <1>1, FailedKept
<1>2. PICK map : map = Removed(name)
  OBVIOUS
<1>3. /\ map \in Map /\ map[name] = Absent
      /\ \A n \in Names : n # name => map[n] = networks[n]
  BY <1>2 DEF Removed, Map, ActorInv, ActorTypes
<1>4. PICK net : net = networks[name]
  OBVIOUS
<1>5. ASSUME networks' = map, order' \in Orders, UNCHANGED <<announced, untold>>,
             current' \in Names, spawned' \in Seq(Ids), GoodBox(inbox'),
             \/ Save(map, current')
             \/ UNCHANGED <<file, lastWrite, faults>> /\ Present = {name}
      PROVE  ActorKept
  <2>1. /\ \/ file' = [networks |-> map, current |-> current']
           \/ lastWrite' = "failed" /\ file' = file
           \/ file' = file /\ Present = {name}
        /\ lastWrite' \in {"ok", "failed"} /\ faults' \in Nat
    BY <1>5, SaveKept DEF ActorInv, ActorTypes
  <2>2. ActorTypes'
    BY <1>3, <1>5, <2>1 DEF ActorInv, ActorTypes
  <2>3. Announced'
    BY <1>3, <1>5 DEF ActorInv, Announced, Present
  <2>4. Persisted'
    BY <1>3, <1>5, <2>1 DEF Persisted, Present
  <2> QED BY <1>5, <2>2, <2>3, <2>4 DEF ActorInv, ActorKept, GoodBox, Known
<1>6. CASE networks' = map /\ order' \in Orders /\ UNCHANGED <<announced, untold>>
           /\ current # name /\ UNCHANGED <<current, spawned>>
           /\ SaveAndRemove(map, current, net, box)
  BY <1>5, <1>6, SaveAndRemoveKept DEF ActorInv, ActorTypes
<1>7. CASE /\ networks' = map /\ order' \in Orders /\ UNCHANGED <<announced, untold>>
           /\ \E first \in Present \ {name} :
                /\ current' = first
                /\ spawned' = OnNetworkChanged(map, first)
                /\ SaveAndRemove(map, first, net, box)
  <2>1. PICK first \in Present \ {name} :
                /\ current' = first
                /\ spawned' = OnNetworkChanged(map, first)
                /\ SaveAndRemove(map, first, net, box)
    BY <1>7
  <2>2. first \in Names /\ map[first] # Absent
    BY <1>3 DEF Present
  <2>3. spawned' \in Seq(Ids)
    BY <1>3, <2>1, <2>2, SpawnedType DEF ActorInv
  <2> QED BY <1>5, <1>7, <2>1, <2>2, <2>3, SaveAndRemoveKept
<1>8. CASE /\ networks' = map /\ order' \in Orders /\ UNCHANGED <<announced, untold>>
           /\ Present = {name} /\ inbox' = box
           /\ UNCHANGED <<current, spawned, file, lastWrite, faults>>
  BY <1>5, <1>8 DEF ActorInv, ActorTypes
<1> QED BY <1>1, <1>2, <1>4, <1>6, <1>7, <1>8 DEF RemoveNetwork
------------------------------------------------------------------------------
(* The state around the actor is well typed. *)
EnvTypes ==
  /\ poller \in {Idle} \cup [state : {"polling"}, copy : Map]
  /\ form \in {Closed} \cup [state : {"open"}, old : Names, net : Net]
  /\ up \in [Urls -> {"up", "down", "silent"}]
  /\ {ops, restarts} \subseteq Nat

(* The parts of the invariant. *)
LEMMA InvParts ==
  Inv <=> ActorInv /\ GoodBox(inbox) /\ EnvTypes /\ CopiesAnnounced
BY DEF Inv, ActorInv, ActorTypes, EnvTypes, TypeOK, GoodBox

(* After a handler, the copies are as announced as they were. *)
LEMMA CopiesKept ==
  ASSUME CopiesAnnounced, ActorKept, poller' \in {poller, Idle}, form' \in {form, Closed}
  PROVE  CopiesAnnounced'
BY DEF CopiesAnnounced, CopyAnnounced, ActorKept

(* An action of the user that runs one handler. *)
LEMMA UserHandlerInv ==
  ASSUME Inv, UserOp, form' \in {form, Closed}, ActorKept
  PROVE  Inv'
<1>1. EnvTypes'
  BY DEF Inv, TypeOK, EnvTypes, UserOp, Env
<1>2. CopiesAnnounced'
  BY CopiesKept DEF UserOp, Env, Inv
<1>3. ActorInv' /\ GoodBox(inbox)'
  BY DEF ActorKept
<1>4. (ActorInv /\ GoodBox(inbox) /\ EnvTypes /\ CopiesAnnounced)'
  BY <1>1, <1>2, <1>3
<1> QED BY <1>4, InvParts, PTL

(* The user. *)
LEMMA UserInv == ASSUME Inv, User PROVE Inv'
<1>0. ActorInv /\ GoodBox(inbox) /\ CopiesAnnounced
  BY InvParts
<1>1. CASE NetworksSetCurrent
  <2>1. ActorKept
    BY <1>0, <1>1, SetCurrentKept, FailedKept DEF NetworksSetCurrent
  <2> QED BY <1>1, <2>1, UserHandlerInv DEF NetworksSetCurrent
<1>2. CASE NetworksAdd
  <2>1. ActorKept
    BY <1>0, <1>2, AddKept DEF NetworksAdd
  <2> QED BY <1>2, <2>1, UserHandlerInv DEF NetworksAdd
<1>3. CASE NetworksRemove
  <2>1. ActorKept
    BY <1>0, <1>3, RemoveKept DEF NetworksRemove
  <2> QED BY <1>3, <2>1, UserHandlerInv DEF NetworksRemove
<1>4. CASE NetworksUpdate
  <2>1. form.old \in Names /\ form.net \in Net
    BY <1>4 DEF NetworksUpdate, Inv, TypeOK
  <2>2. PICK name \in Names, url \in Urls :
          UpdateNetwork(form.old, name,
            [form.net EXCEPT !.status = "Unknown", !.http_url = url], inbox)
    BY <1>4 DEF NetworksUpdate
  <2>3. [form.net EXCEPT !.status = "Unknown", !.http_url = url] \in Net
    BY <2>1 DEF Net, Status
  <2>4. ActorKept
    BY <1>0, <2>1, <2>2, <2>3, UpdateKept
  <2> QED BY <1>4, <2>4, UserHandlerInv DEF NetworksUpdate
<1>5. CASE StackChange
  <2>1. PICK name \in Names, chain \in Chains, kind \in {"StackAdd", "StackRemove"} :
          inbox' = Send(inbox, StackMsg(kind, name, chain))
    BY <1>5 DEF StackChange
  <2>2. StackMsg(kind, name, chain) \in Msg
    BY DEF StackMsg, Msg
  <2>3. GoodBox(inbox')
    BY <1>0, <2>1, <2>2, SendGood
  <2>4. ActorKept
    BY <1>0, <1>5, <2>3 DEF StackChange, ActorInv, ActorTypes, Persisted, Announced,
                        Present, actorVars, history, Known, ActorKept, GoodBox
  <2> QED BY <1>5, <2>4, UserHandlerInv DEF StackChange
<1>6. CASE OpenForm
  <2>1. PICK n \in Present : form' = [state |-> "open", old |-> n, net |-> networks[n]]
    BY <1>6 DEF OpenForm
  <2>2. n \in Names /\ networks[n] \in Net /\ networks[n].id \in Known
    BY <1>0 DEF Present, ActorInv, ActorTypes, Map, Announced, Known
  <2>3. UNCHANGED <<actorVars, inbox, poller, up, faults, restarts>> /\ ops' = ops + 1
    BY <1>6 DEF OpenForm, UserOp, Env
  <2>4. EnvTypes'
    BY <2>1, <2>2, <2>3 DEF Inv, TypeOK, EnvTypes
  <2>5. CopiesAnnounced'
    BY <1>0, <2>1, <2>2, <2>3 DEF CopiesAnnounced, CopyAnnounced, actorVars, history, Known
  <2>6. (ActorInv /\ GoodBox(inbox))'
    BY <1>0, <2>3 DEF ActorInv, ActorTypes, Persisted, Announced, Present, actorVars, history,
                     GoodBox
  <2>7. (ActorInv /\ GoodBox(inbox) /\ EnvTypes /\ CopiesAnnounced)'
    BY <2>4, <2>5, <2>6
  <2> QED BY <2>7, InvParts, PTL
<1> QED BY <1>1, <1>2, <1>3, <1>4, <1>5, <1>6 DEF User

(* A task runs a handler of the actor. *)
LEMMA TaskHandlerInv ==
  ASSUME Inv, UNCHANGED <<poller, form, up, ops, restarts>>, ActorKept
  PROVE  Inv'
<1>1. EnvTypes' /\ CopiesAnnounced'
  BY CopiesKept DEF Inv, TypeOK, EnvTypes
<1>2. (ActorInv /\ GoodBox(inbox) /\ EnvTypes /\ CopiesAnnounced)'
  BY <1>1 DEF ActorKept
<1> QED BY <1>2, InvParts, PTL

(* notify_peers: one announcement leaves the pool of spawned tasks. *)
LEMMA NotifyPeersInv == ASSUME Inv, NotifyPeers PROVE Inv'
<1>0. ActorInv /\ GoodBox(inbox)
  BY InvParts
<1>1. PICK i \in DOMAIN spawned :
        /\ inbox' = Send(inbox, ChainChanged(spawned[i], Absent, Global))
        /\ spawned' = RemoveAt(spawned, i)
  BY DEF NotifyPeers
<1>2. spawned \in Seq(Ids) /\ i \in 1 .. Len(spawned) /\ spawned[i] \in Ids
  BY <1>0 DEF ActorInv, ActorTypes
<1>3. ChainChanged(spawned[i], Absent, Global) \in Msg
  BY <1>2 DEF ChainChanged, Msg, Affinities, Global, Unset
<1>4. GoodBox(inbox')
  BY <1>0, <1>1, <1>3, SendGood
<1>5. spawned' \in Seq(Ids)
  <2>1. SubSeq(spawned, 1, i - 1) \in Seq(Ids) /\ SubSeq(spawned, i + 1, Len(spawned)) \in Seq(Ids)
    BY <1>2
  <2> QED BY <1>1, <2>1 DEF RemoveAt
<1>6. ActorKept
  BY <1>0, <1>4, <1>5 DEF NotifyPeers, ActorInv, ActorTypes, Persisted, Announced,
                          Present, history, budget, Known, ActorKept, GoodBox
<1> QED BY <1>6, TaskHandlerInv DEF NotifyPeers, budget

(* The receiver task. *)
LEMMA ReceiverInv == ASSUME Inv, Receiver PROVE Inv'
<1>0. ActorInv /\ GoodBox(inbox)
  BY InvParts
<1>1. PICK m : m = Head(inbox["networks"])
  OBVIOUS
<1>2. PICK box : box = Received("networks")
  OBVIOUS
<1>3. m \in Msg /\ GoodBox(box)
  <2>1. PICK q : q = inbox["networks"]
    OBVIOUS
  <2>2. q \in Seq(Msg) /\ q # <<>> /\ "networks" \in Receivers
    BY <1>0, <2>1, NetworksAssumption DEF GoodBox, Receiver
  <2>3. Head(q) \in Msg /\ Tail(q) \in Seq(Msg)
    BY <2>2
  <2> QED BY <1>0, <1>1, <1>2, <2>1, <2>2, <2>3 DEF GoodBox, Received
<1>4. ASSUME IF m.affinity \in {Global, Unset}
             THEN SetCurrentById(m.id, box) ELSE Failed(box)
      PROVE  ActorKept
  BY <1>0, <1>3, <1>4, SetCurrentByIdKept, FailedKept
<1>5. ASSUME m.kind = "StackAdd",
             \E url \in Urls : AddNetwork(m.name, m.chain, TRUE, url, box)
      PROVE  ActorKept
  <2>1. m.name \in Names /\ m.chain \in Chains
    BY <1>3, <1>5 DEF Msg
  <2> QED BY <1>0, <1>3, <1>5, <2>1, AddKept
<1>6. ASSUME m.kind = "StackRemove", RemoveNetwork(m.name, box)
      PROVE  ActorKept
  <2>1. m.name \in Names
    BY <1>3, <1>6 DEF Msg
  <2> QED BY <1>0, <1>3, <1>6, <2>1, RemoveKept
<1>7. ActorKept
  BY <1>1, <1>2, <1>4, <1>5, <1>6 DEF Receiver
<1> QED BY <1>7, TaskHandlerInv DEF Receiver

(* The status poller takes a copy of what was announced, *)
LEMMA PollBeginInv == ASSUME Inv, PollBegin PROVE Inv'
<1>0. ActorInv /\ GoodBox(inbox) /\ CopiesAnnounced
  BY InvParts
<1>1. /\ poller' = [state |-> "polling", copy |-> networks]
      /\ UNCHANGED <<networks, order, current, file, spawned, announced, untold, lastWrite,
                     inbox, form, up, ops, faults, restarts>>
  BY DEF PollBegin, actorVars, history, budget
<1>2. poller'.copy = networks /\ poller' \in [state : {"polling"}, copy : Map]
  BY <1>0, <1>1 DEF ActorInv, ActorTypes
<1>3. EnvTypes'
  BY <1>1, <1>2 DEF Inv, TypeOK, EnvTypes
<1>4. CopiesAnnounced'
  BY <1>0, <1>1, <1>2 DEF CopiesAnnounced, CopyAnnounced, ActorInv, Announced, Known,
                             Present
<1>5. (ActorInv /\ GoodBox(inbox))'
  BY <1>0, <1>1 DEF ActorInv, ActorTypes, Persisted, Announced, Present, GoodBox
<1>6. (ActorInv /\ GoodBox(inbox) /\ EnvTypes /\ CopiesAnnounced)'
  BY <1>3, <1>4, <1>5
<1> QED BY <1>6, InvParts, PTL

(* polls it, which changes no id, *)
LEMMA PolledKept ==
  ASSUME EnvTypes, NEW net \in Net \cup {Absent}
  PROVE  /\ Polled(net) \in Net \cup {Absent}
         /\ Polled(net) # Absent => net # Absent /\ Polled(net).id = net.id
<1>1. CASE net = Absent
  BY <1>1 DEF Polled
<1>2. CASE net # Absent
  <2>1. net \in Net /\ up[net.http_url] \in {"up", "down", "silent"}
    BY <1>2 DEF Net, EnvTypes
  <2>2. \A s \in Status : [net EXCEPT !.status = s] \in Net
                          /\ [net EXCEPT !.status = s].id = net.id
    BY <2>1 DEF Net
  <2>3. "Online" \in Status /\ "Offline" \in Status
    BY DEF Status
  <2>4. Polled(net) \in {[net EXCEPT !.status = "Online"],
                         [net EXCEPT !.status = "Offline"], net}
    BY <1>2, <2>1 DEF Polled
  <2> QED BY <1>2, <2>1, <2>2, <2>3, <2>4
<1> QED BY <1>1, <1>2

(* and puts back what it polled. *)
LEMMA PollApplyInv == ASSUME Inv, PollApply PROVE Inv'
<1>0. ActorInv /\ GoodBox(inbox) /\ CopiesAnnounced /\ EnvTypes
  BY InvParts
<1>1. PICK results : results = [n \in Names |-> Polled(poller.copy[n])]
  OBVIOUS
<1>2. /\ poller # Idle /\ poller' = Idle /\ poller.copy \in Map
      /\ UNCHANGED <<current, spawned, announced, untold, inbox, form, up, ops, restarts>>
  BY DEF PollApply, Inv, TypeOK
<1>3. /\ results \in Map
      /\ \A n \in Names : results[n] # Absent => results[n].id \in Known
  BY <1>0, <1>1, <1>2, PolledKept DEF Map, CopiesAnnounced, CopyAnnounced
<1>4. ASSUME UNCHANGED <<networks, order, file, lastWrite, faults>> PROVE ActorInv'
  BY <1>0, <1>2, <1>4 DEF ActorInv, ActorTypes, Persisted, Announced, Present
<1>5. ASSUME networks' = Merged(results), order' \in Orders,
             Save(Merged(results), current)
      PROVE  ActorInv'
  <2>1. networks' \in Map
    BY <1>0, <1>3, <1>5 DEF Merged, Map, ActorInv, ActorTypes
  <2>2. /\ \/ file' = [networks |-> networks', current |-> current']
           \/ lastWrite' = "failed" /\ file' = file
        /\ lastWrite' \in {"ok", "failed"} /\ faults' \in Nat
    BY <1>0, <1>2, <1>5, SaveKept DEF ActorInv, ActorTypes
  <2>3. ActorTypes'
    BY <1>0, <1>2, <1>5, <2>1, <2>2 DEF ActorInv, ActorTypes
  <2>4. Announced'
    BY <1>0, <1>2, <1>3, <1>5 DEF Merged, ActorInv, Announced, Known, Present
  <2>5. Persisted'
    BY <2>2 DEF Persisted
  <2> QED BY <2>3, <2>4, <2>5 DEF ActorInv
<1>6. ActorInv'
  BY <1>1, <1>2, <1>4, <1>5 DEF PollApply
<1>7. EnvTypes' /\ CopiesAnnounced' /\ GoodBox(inbox)'
  BY <1>0, <1>2 DEF EnvTypes, CopiesAnnounced, Known, GoodBox
<1>8. (ActorInv /\ GoodBox(inbox) /\ EnvTypes /\ CopiesAnnounced)'
  BY <1>6, <1>7
<1> QED BY <1>8, InvParts, PTL

(* A restart announces what it loads. *)
LEMMA RestartInv == ASSUME Inv, Restart PROVE Inv'
<1>1. /\ networks' = file.networks /\ current' = file.current /\ UNCHANGED file
      /\ file.networks \in Map /\ file.current \in Names
      /\ file = [networks |-> file.networks, current |-> file.current]
  BY DEF Restart, Inv, TypeOK
<1>2. /\ announced' = {networks'[n].id : n \in {m \in Names : networks'[m] # Absent}}
      /\ untold' = {} /\ lastWrite' = "ok"
  BY <1>1 DEF Restart, Ids0
<1>3. announced' \subseteq Ids
  BY <1>1, <1>2 DEF Map, Net
<1>4. ActorTypes'
  BY <1>1, <1>2, <1>3 DEF Restart, Inv, TypeOK, ActorTypes
<1>5. Announced' /\ Persisted'
  BY <1>1, <1>2 DEF Announced, Persisted, Present
<1>6. GoodBox(inbox)'
  BY NetworksAssumption DEF Restart, GoodBox
<1>7. EnvTypes' /\ CopiesAnnounced'
  BY DEF Restart, Inv, TypeOK, EnvTypes, CopiesAnnounced
<1>8. (ActorInv /\ GoodBox(inbox) /\ EnvTypes /\ CopiesAnnounced)'
  BY <1>4, <1>5, <1>6, <1>7 DEF ActorInv
<1> QED BY <1>8, InvParts, PTL

(* A lagging receiver loses its oldest message. *)
LEMMA LagInv == ASSUME Inv, Lag PROVE Inv'
<1>0. GoodBox(inbox)
  BY DEF Inv
<1>1. PICK r \in Receivers : inbox[r] # <<>> /\ inbox' = [inbox EXCEPT ![r] = Tail(@)]
  BY DEF Lag, Lagged, Received
<1>2. PICK q : q = inbox["networks"]
  OBVIOUS
<1>3. q \in Seq(Msg) /\ (q # <<>> => Tail(q) \in Seq(Msg))
  BY <1>0, <1>2 DEF GoodBox
<1>4. GoodBox(inbox)'
  BY <1>0, <1>1, <1>2, <1>3, NetworksAssumption DEF GoodBox
<1>5. UNCHANGED <<actorVars, poller, form, up, ops, restarts>> /\ faults' = faults + 1
  BY DEF Lag, Fault
<1> QED BY <1>4, <1>5 DEF actorVars, history, Inv, TypeOK, GoodBox, Persisted, Announced,
                          Present, CopiesAnnounced, CopyAnnounced, Known

(* The first start. *)
LEMMA InitInv == Init => Inv
<1> SUFFICES ASSUME Init PROVE Inv
  OBVIOUS
<1>1. AllDefault \in Map /\ FirstDefault \in Names
  BY DefaultAssumption, NetworksAssumption
<1>2. announced = {networks[n].id : n \in {m \in Names : networks[m] # Absent}}
  BY DEF Init, Ids0
<1>3. announced \subseteq Ids
  BY <1>1, <1>2 DEF Init, Map, Net
<1>4. ActorTypes
  BY <1>1, <1>3 DEF Init, ActorTypes
<1>5. Announced /\ Persisted
  BY <1>2 DEF Init, Announced, Persisted, Present
<1>6. GoodBox(inbox)
  BY NetworksAssumption DEF Init, GoodBox
<1>7. EnvTypes /\ CopiesAnnounced
  BY DEF Init, EnvTypes, CopiesAnnounced
<1> QED BY <1>4, <1>5, <1>6, <1>7, InvParts DEF ActorInv

LEMMA NextInv == ASSUME Inv, [Next]_vars PROVE Inv'
<1>1. CASE User
  BY <1>1, UserInv
<1>2. CASE Tasks
  BY <1>2, NotifyPeersInv, ReceiverInv, PollBeginInv, PollApplyInv DEF Tasks
<1>3. CASE Restart
  BY <1>3, RestartInv
<1>4. CASE Flip
  BY <1>4 DEF Flip, Fault, actorVars, history, Inv, TypeOK, GoodBox, Persisted, Announced,
              Present, CopiesAnnounced, CopyAnnounced, Known
<1>5. CASE UNCHANGED vars
  BY <1>5 DEF vars, history, Inv, TypeOK, GoodBox, Persisted, Announced, Present,
              CopiesAnnounced, CopyAnnounced, Known
<1> QED BY <1>1, <1>2, <1>3, <1>4, <1>5, LagInv DEF Next

(* The invariant holds in every reachable state. *)
THEOREM Invariance == Spec => []Inv
BY InitInv, NextInv, PTL DEF Spec

(* Type correctness of the networks actor, its file, tasks and queue. *)
THEOREM TypeCorrect == Spec => []TypeOK
<1>1. Inv => TypeOK
  BY DEF Inv
<1> QED BY <1>1, Invariance, PTL

(* Whatever users, stacks, the poller and restarts do, networks.json holds the
   actor's map and current name whenever no handler runs, except after the
   last network was removed or the last write failed. *)
THEOREM AlwaysPersisted == Spec => []Persisted
<1>1. Inv => Persisted
  BY DEF Inv
<1> QED BY <1>1, Invariance, PTL

(* Every network in the map was announced to the subscribers in this process,
   also one a stale copy brought back, or its announcement was kept back by a
   write that failed. *)
THEOREM AlwaysAnnounced == Spec => []Announced
<1>1. Inv => Announced
  BY DEF Inv
<1> QED BY <1>1, Invariance, PTL
------------------------------------------------------------------------------
(* The echo of a switch.  A message makes the queue of the networks receiver
   longer by one at most, since a full one loses its oldest, *)
LEMMA SendLonger ==
  ASSUME NEW box, GoodBox(box), NEW m,
         m.kind \in {"ChainChanged", "StackAdd", "StackRemove"} => m \in Msg
  PROVE  /\ Len(Send(box, m)["networks"]) <= Len(box["networks"]) + 1
         /\ m.kind \notin {"ChainChanged", "StackAdd", "StackRemove"} =>
              Send(box, m)["networks"] = box["networks"]
<1>1. "networks" \in Receivers /\ Capacity \in Nat \ {0}
  BY NetworksAssumption, CapacityAssumption
<1>2. Handled["networks"] = {"ChainChanged", "StackAdd", "StackRemove"}
  BY DEF Handled
<1>3. Send(box, m)["networks"]
        = IF m.kind \in {"ChainChanged", "StackAdd", "StackRemove"}
          THEN Push(box["networks"], m) ELSE box["networks"]
  BY <1>1, <1>2 DEF Send
<1>4. PICK q : q = box["networks"]
  OBVIOUS
<1>5. q \in Seq(Msg)
  BY <1>4 DEF GoodBox
<1>6. ASSUME m \in Msg PROVE Len(Push(q, m)) <= Len(q) + 1
  <2>1. CASE Len(q) < Capacity
    BY <1>5, <1>6, <2>1 DEF Push
  <2>2. CASE ~(Len(q) < Capacity)
    <3>1. PICK rest : rest = Tail(q)
      OBVIOUS
    <3>2. rest \in Seq(Msg) /\ Len(rest) <= Len(q)
      BY <1>1, <1>5, <2>2, <3>1
    <3>3. Push(q, m) = Append(rest, m)
      BY <2>2, <3>1 DEF Push
    <3> QED BY <1>5, <1>6, <3>2, <3>3
  <2> QED BY <2>1, <2>2
<1> QED BY <1>3, <1>4, <1>5, <1>6

(* and what is announced of networks does not reach it at all. *)
LEMMA SendNotLonger ==
  ASSUME NEW box, GoodBox(box), NEW net,
         NEW kind \in {"NetworkAdded", "NetworkUpdated", "NetworkRemoved"}
  PROVE  Send(box, NetworkMsg(kind, net))["networks"] = box["networks"]
BY SendLonger DEF NetworkMsg

(* A handler that was given the queues `box` leaves one echo more at most. *)
OneMore(box) ==
  Len(spawned') + Len(inbox'["networks"]) <= Len(spawned) + Len(box["networks"]) + 1

LEMMA SpawnedLonger ==
  ASSUME ActorTypes, NEW map \in Map, NEW name \in Names, map[name] # Absent
  PROVE  Len(OnNetworkChanged(map, name)) = Len(spawned) + 1
<1>1. map[name].id \in Ids
  BY DEF Map, Net
<1> QED BY <1>1 DEF OnNetworkChanged, ActorTypes

LEMMA Echoes ==
  ASSUME ActorTypes, NEW box, GoodBox(box), inbox'["networks"] = box["networks"],
         \/ spawned' = spawned
         \/ \E map \in Map, name \in Names :
              map[name] # Absent /\ spawned' = OnNetworkChanged(map, name)
  PROVE  OneMore(box)
<1>1. Len(spawned) \in Nat /\ Len(box["networks"]) \in Nat
  BY DEF ActorTypes, GoodBox
<1>2. Len(spawned') <= Len(spawned) + 1
  BY <1>1, SpawnedLonger
<1>3. Len(spawned') \in Nat
  BY <1>1, SpawnedLonger
<1> QED BY <1>1, <1>2, <1>3 DEF OneMore

LEMMA FailedEcho ==
  ASSUME ActorTypes, NEW box, GoodBox(box), Failed(box) PROVE OneMore(box)
BY Echoes DEF Failed, actorVars

LEMMA SetCurrentEcho ==
  ASSUME ActorTypes, NEW box, GoodBox(box), NEW name \in Names, SetCurrent(name, box)
  PROVE  OneMore(box)
<1>1. PICK first \in Present :
        spawned' = IF IsSwitch(CurrentName(networks, current, first),
                               CurrentName(networks, name, first))
                   THEN OnNetworkChanged(networks, CurrentName(networks, name, first))
                   ELSE spawned
  BY DEF SetCurrent
<1>2. PICK new : new = CurrentName(networks, name, first)
  OBVIOUS
<1>3. new \in Names /\ networks[new] # Absent /\ networks \in Map
  BY <1>2 DEF CurrentName, Present, ActorTypes
<1> QED BY <1>1, <1>2, <1>3, Echoes DEF SetCurrent

LEMMA AddEcho ==
  ASSUME ActorTypes, NEW box, GoodBox(box), NEW name, NEW chain, NEW is_stack, NEW url,
         AddNetwork(name, chain, is_stack, url, box)
  PROVE  OneMore(box)
<1>1. PICK net : net = [id |-> <<chain, ChainIdCount(chain)>>, status |-> "Unknown",
                        is_stack |-> is_stack, http_url |-> url]
  OBVIOUS
<1>2. CASE Failed(box)
  BY <1>2, FailedEcho
<1>3. CASE /\ inbox' = box \/ inbox' = Send(box, NetworkMsg("NetworkAdded", net))
           /\ spawned' = spawned
  BY <1>3, SendNotLonger, Echoes
<1> QED BY <1>1, <1>2, <1>3 DEF AddNetwork, SaveAndAnnounce

LEMMA UpdateEcho ==
  ASSUME ActorTypes, NEW box, GoodBox(box), NEW old \in Names, NEW name \in Names,
         NEW net \in Net, UpdateNetwork(old, name, net, box)
  PROVE  OneMore(box)
<1>1. PICK map : map = [Removed(old) EXCEPT ![name] = net]
  OBVIOUS
<1>2. map \in Map /\ map[name] # Absent
  BY <1>1, DefaultAssumption DEF Removed, Map, ActorTypes
<1>3. CASE Failed(box)
  BY <1>3, FailedEcho
<1>4. CASE /\ inbox' = box \/ inbox' = Send(box, NetworkMsg("NetworkUpdated", net))
           /\ spawned' = IF current = old THEN OnNetworkChanged(map, name) ELSE spawned
  BY <1>2, <1>4, SendNotLonger, Echoes
<1> QED BY <1>1, <1>3, <1>4 DEF UpdateNetwork, SaveAndAnnounce

LEMMA RemoveEcho ==
  ASSUME ActorTypes, NEW box, GoodBox(box), NEW name \in Names, RemoveNetwork(name, box)
  PROVE  OneMore(box)
<1>1. PICK map : map = Removed(name)
  OBVIOUS
<1>2. map \in Map /\ \A n \in Names : n # name => map[n] = networks[n]
  BY <1>1 DEF Removed, Map, ActorTypes
<1>3. CASE Failed(box)
  BY <1>3, FailedEcho
<1>4. PICK net : net = networks[name]
  OBVIOUS
<1>5. CASE /\ inbox' = box \/ inbox' = Send(box, NetworkMsg("NetworkRemoved", net))
           /\ spawned' = spawned
  BY <1>5, SendNotLonger, Echoes
<1>6. CASE /\ inbox' = box \/ inbox' = Send(box, NetworkMsg("NetworkRemoved", net))
           /\ \E first \in Present \ {name} : spawned' = OnNetworkChanged(map, first)
  <2>1. \A first \in Present \ {name} : first \in Names /\ map[first] # Absent
    BY <1>2 DEF Present
  <2> QED BY <1>2, <1>6, <2>1, SendNotLonger, Echoes
<1> QED BY <1>1, <1>3, <1>4, <1>5, <1>6 DEF RemoveNetwork, SaveAndRemove

(* notify_peers moves an echo from the pool of tasks to the bus. *)
LEMMA NotifyEcho ==
  ASSUME Inv, NotifyPeers
  PROVE  Len(spawned') + Len(inbox'["networks"]) <= Len(spawned) + Len(inbox["networks"])
<1>0. ActorInv /\ GoodBox(inbox)
  BY InvParts
<1>1. PICK i \in DOMAIN spawned :
        /\ inbox' = Send(inbox, ChainChanged(spawned[i], Absent, Global))
        /\ spawned' = RemoveAt(spawned, i)
  BY DEF NotifyPeers
<1>2. spawned \in Seq(Ids) /\ i \in 1 .. Len(spawned) /\ spawned[i] \in Ids
  BY <1>0 DEF ActorInv, ActorTypes
<1>3. ChainChanged(spawned[i], Absent, Global) \in Msg
  BY <1>2 DEF ChainChanged, Msg, Affinities, Global, Unset
<1>4. GoodBox(inbox') /\ Len(inbox'["networks"]) <= Len(inbox["networks"]) + 1
  BY <1>0, <1>1, <1>3, SendGood, SendLonger
<1>5. Len(inbox["networks"]) \in Nat /\ Len(inbox'["networks"]) \in Nat
  BY <1>0, <1>4 DEF GoodBox
<1>6. Len(spawned') = Len(spawned) - 1
  <2>1. PICK a, b : a = SubSeq(spawned, 1, i - 1) /\ b = SubSeq(spawned, i + 1, Len(spawned))
    OBVIOUS
  <2>2. a \in Seq(Ids) /\ b \in Seq(Ids) /\ Len(a) = i - 1 /\ Len(b) = Len(spawned) - i
    BY <1>2, <2>1
  <2>3. spawned' = a \o b
    BY <1>1, <2>1 DEF RemoveAt
  <2> QED BY <1>2, <2>2, <2>3
<1> QED BY <1>2, <1>4, <1>5, <1>6

(* The receiver takes a message and leaves at most one in its place. *)
LEMMA ReceiverEcho ==
  ASSUME Inv, Receiver
  PROVE  Len(spawned') + Len(inbox'["networks"]) <= Len(spawned) + Len(inbox["networks"])
<1>0. ActorInv /\ ActorTypes /\ GoodBox(inbox)
  BY InvParts DEF ActorInv
<1>1. PICK m : m = Head(inbox["networks"])
  OBVIOUS
<1>2. PICK box : box = Received("networks")
  OBVIOUS
<1>3. PICK q : q = inbox["networks"]
  OBVIOUS
<1>4. q \in Seq(Msg) /\ q # <<>> /\ "networks" \in Receivers
  BY <1>0, <1>3, NetworksAssumption DEF GoodBox, Receiver
<1>5. m \in Msg /\ Tail(q) \in Seq(Msg) /\ Len(Tail(q)) = Len(q) - 1
  BY <1>1, <1>3, <1>4
<1>6. GoodBox(box) /\ box["networks"] = Tail(q)
  BY <1>0, <1>2, <1>3, <1>4, <1>5 DEF GoodBox, Received
<1>7. ASSUME IF m.affinity \in {Global, Unset}
             THEN SetCurrentById(m.id, box) ELSE Failed(box)
      PROVE  OneMore(box)
  BY <1>0, <1>6, <1>7, SetCurrentEcho, FailedEcho DEF SetCurrentById
<1>8. ASSUME \E url \in Urls : AddNetwork(m.name, m.chain, TRUE, url, box)
      PROVE  OneMore(box)
  BY <1>0, <1>6, <1>8, AddEcho
<1>9. ASSUME m.kind = "StackRemove", RemoveNetwork(m.name, box) PROVE OneMore(box)
  <2>1. m.name \in Names
    BY <1>5, <1>9 DEF Msg
  <2> QED BY <1>0, <1>6, <1>9, <2>1, RemoveEcho
<1>10. OneMore(box)
  BY <1>1, <1>2, <1>7, <1>8, <1>9 DEF Receiver
<1>11. Inv'
  BY ReceiverInv
<1>12. /\ Len(spawned) \in Nat /\ Len(spawned') \in Nat /\ Len(inbox'["networks"]) \in Nat
       /\ Len(q) \in Nat
  BY <1>4, <1>11 DEF Inv, TypeOK
<1> QED BY <1>3, <1>5, <1>6, <1>10, <1>12 DEF OneMore

(* A lagging receiver loses an echo. *)
LEMMA LagEcho ==
  ASSUME Inv, Lag
  PROVE  Len(spawned') + Len(inbox'["networks"]) <= Len(spawned) + Len(inbox["networks"])
<1>1. PICK r \in Receivers : inbox[r] # <<>> /\ inbox' = [inbox EXCEPT ![r] = Tail(@)]
  BY DEF Lag, Lagged, Received
<1>2. PICK q : q = inbox["networks"]
  OBVIOUS
<1>3. q \in Seq(Msg) /\ (q # <<>> => Len(Tail(q)) = Len(q) - 1)
  BY <1>2 DEF Inv, GoodBox
<1>4. inbox'["networks"] = q \/ (q # <<>> /\ inbox'["networks"] = Tail(q))
  BY <1>1, <1>2, NetworksAssumption DEF Inv, GoodBox
<1>5. spawned' = spawned /\ Len(spawned) \in Nat /\ Len(q) \in Nat
  BY <1>3 DEF Lag, actorVars, Inv, TypeOK
<1>6. Len(inbox'["networks"]) \in Nat /\ Len(inbox'["networks"]) <= Len(q)
  <2>1. CASE inbox'["networks"] = q
    BY <1>5, <2>1
  <2>2. CASE q # <<>> /\ inbox'["networks"] = Tail(q)
    <3>1. Tail(q) \in Seq(Msg)
      BY <1>3, <2>2
    <3>2. Len(Tail(q)) \in Nat
      BY <3>1
    <3> QED BY <1>3, <1>5, <2>2, <3>2
  <2> QED BY <1>4, <2>1, <2>2
<1> QED BY <1>2, <1>5, <1>6

(* What the user does adds one echo at most, and is counted. *)
LEMMA UserEcho == ASSUME Inv, User PROVE ops' = ops + 1 /\ OneMore(inbox)
<1>0. ActorTypes /\ GoodBox(inbox)
  BY InvParts DEF ActorInv
<1>1. ops' = ops + 1
  BY DEF User, NetworksSetCurrent, NetworksAdd, OpenForm, NetworksUpdate, NetworksRemove,
         StackChange, UserOp
<1> SUFFICES OneMore(inbox)
  BY <1>1
<1>2. CASE NetworksSetCurrent
  BY <1>0, <1>2, SetCurrentEcho, FailedEcho DEF NetworksSetCurrent
<1>3. CASE NetworksAdd
  BY <1>0, <1>3, AddEcho DEF NetworksAdd
<1>4. CASE NetworksRemove
  BY <1>0, <1>4, RemoveEcho DEF NetworksRemove
<1>5. CASE NetworksUpdate
  <2>1. form.old \in Names /\ form.net \in Net
    BY <1>5 DEF NetworksUpdate, Inv, TypeOK
  <2>2. PICK name \in Names, url \in Urls :
          UpdateNetwork(form.old, name,
            [form.net EXCEPT !.status = "Unknown", !.http_url = url], inbox)
    BY <1>5 DEF NetworksUpdate
  <2>3. [form.net EXCEPT !.status = "Unknown", !.http_url = url] \in Net
    BY <2>1 DEF Net, Status
  <2> QED BY <1>0, <2>1, <2>2, <2>3, UpdateEcho
<1>6. CASE StackChange
  <2>1. PICK name \in Names, chain \in Chains, kind \in {"StackAdd", "StackRemove"} :
          inbox' = Send(inbox, StackMsg(kind, name, chain))
    BY <1>6 DEF StackChange
  <2>2. StackMsg(kind, name, chain) \in Msg
    BY DEF StackMsg, Msg
  <2>3. GoodBox(inbox') /\ Len(inbox'["networks"]) <= Len(inbox["networks"]) + 1
    BY <1>0, <2>1, <2>2, SendGood, SendLonger
  <2>4. spawned' = spawned /\ Len(spawned) \in Nat
    BY <1>0, <1>6 DEF StackChange, actorVars, ActorTypes
  <2>5. Len(inbox["networks"]) \in Nat /\ Len(inbox'["networks"]) \in Nat
    BY <1>0, <2>3 DEF GoodBox
  <2> QED BY <2>3, <2>4, <2>5 DEF OneMore
<1>7. CASE OpenForm
  BY <1>0, <1>7, Echoes DEF OpenForm, actorVars
<1> QED BY <1>2, <1>3, <1>4, <1>5, <1>6, <1>7 DEF User

(* Every step keeps the bound. *)
LEMMA NextEcho == ASSUME Inv, Inv', EchoBounded, [Next]_vars PROVE EchoBounded'
<1>1. /\ Len(spawned) \in Nat /\ Len(inbox["networks"]) \in Nat /\ ops \in Nat
      /\ Len(spawned') \in Nat /\ Len(inbox'["networks"]) \in Nat /\ ops' \in Nat
  BY DEF Inv, TypeOK
<1>2. Len(spawned) + Len(inbox["networks"]) <= ops
  BY DEF EchoBounded, InFlight
<1>3. CASE User
  BY <1>1, <1>2, <1>3, UserEcho DEF OneMore, EchoBounded, InFlight
<1>4. CASE NotifyPeers
  <2>1. ops' = ops
    BY <1>4 DEF NotifyPeers, budget
  <2> QED BY <1>1, <1>2, <1>4, <2>1, NotifyEcho DEF EchoBounded, InFlight
<1>5. CASE Receiver
  <2>1. ops' = ops
    BY <1>5 DEF Receiver
  <2> QED BY <1>1, <1>2, <1>5, <2>1, ReceiverEcho DEF EchoBounded, InFlight
<1>6. CASE PollBegin \/ PollApply \/ Flip \/ UNCHANGED vars
  <2>1. UNCHANGED <<spawned, inbox, ops>>
    BY <1>6 DEF PollBegin, PollApply, Flip, vars, actorVars, budget
  <2> QED BY <2>1 DEF EchoBounded, InFlight
<1>7. CASE Restart
  <2>1. spawned' = <<>> /\ inbox'["networks"] = <<>> /\ ops' = ops
    BY <1>7, NetworksAssumption DEF Restart
  <2> QED BY <1>1, <2>1 DEF EchoBounded, InFlight
<1>8. CASE Lag
  <2>1. ops' = ops
    BY <1>8 DEF Lag
  <2> QED BY <1>1, <1>2, <1>8, <2>1, LagEcho DEF EchoBounded, InFlight
<1> QED BY <1>3, <1>4, <1>5, <1>6, <1>7, <1>8 DEF Next, Tasks

(* set_current announces a switch on the bus, and the receiver feeds it back to
   set_current, which may announce again: for any set of networks and any
   capacity of the bus there are never more of these echoes in flight than
   there were user operations. *)
THEOREM EchoAlwaysBounded == Spec => []EchoBounded
<1>1. Init => EchoBounded
  <2>1. Init => spawned = <<>> /\ inbox["networks"] = <<>> /\ ops = 0
    BY NetworksAssumption DEF Init
  <2> QED BY <2>1 DEF EchoBounded, InFlight
<1>2. Inv /\ Inv' /\ EchoBounded /\ [Next]_vars => EchoBounded'
  BY NextEcho
<1> QED BY <1>1, <1>2, Invariance, PTL DEF Spec
------------------------------------------------------------------------------
(* The affinities of sites.  Two calls that overlap both save the map as they
   leave it. *)
SitesSaved == DOMAIN affinities = Domains /\ DOMAIN affFile = Domains /\ AffinitySaved

LEMMA InitSaved == CInit => SitesSaved
BY DEF CInit, SitesSaved, AffinitySaved

LEMMA StoreSaved == ASSUME SitesSaved, NEW k \in Calls, Store(k) PROVE SitesSaved'
<1>1. PICK map : map = [affinities EXCEPT ![calls[k].domain] = calls[k].affinity]
  OBVIOUS
<1>2. affinities' = map /\ (affFile' = map \/ (affFile' = affFile /\ affWrite' = "failed"))
  BY <1>1 DEF Store, SaveStore
<1>3. DOMAIN map = Domains
  BY <1>1 DEF SitesSaved
<1> QED BY <1>2, <1>3 DEF SitesSaved, AffinitySaved

LEMMA NextSaved == ASSUME SitesSaved, [CNext]_allVars PROVE SitesSaved'
<1>1. CASE UNCHANGED stored
  BY <1>1 DEF stored, SitesSaved, AffinitySaved
<1>2. CASE ConnectionsReceiver
  BY <1>2 DEF ConnectionsReceiver, OnChainRemoved, SitesSaved, AffinitySaved
<1>3. CASE CRestart
  BY <1>3 DEF CRestart, SitesSaved, AffinitySaved
<1>4. ASSUME NEW k \in Calls, SwitchChain(k) \/ SetAffinity(k) \/ CallStep(k) PROVE SitesSaved'
  <2>1. CASE Store(k)
    BY <2>1, StoreSaved
  <2>2. CASE SwitchChain(k) \/ SetAffinity(k) \/ (CallStep(k) /\ ~Store(k))
    BY <1>1, <2>2 DEF SwitchChain, SetAffinity, CallStep, SwitchCurrent, SwitchValidate,
                      SwitchLowest, SwitchRead, Announcement
  <2> QED BY <1>4, <2>1, <2>2 DEF CallStep
<1>5. CASE UNCHANGED cvars
  BY <1>1, <1>5 DEF cvars
<1>6. CASE UNCHANGED allVars
  BY <1>5, <1>6 DEF allVars
<1> QED BY <1>2, <1>3, <1>4, <1>5, <1>6 DEF CNext

(* However many calls of sites and of the user overlap, with one another, with
   removals of networks and with restarts, an affinity that memory holds is in
   connections.json unless the last write of it failed. *)
THEOREM AffinityAlwaysSaved == CSpec => []AffinitySaved
<1>1. SitesSaved => AffinitySaved
  BY DEF SitesSaved
<1> QED BY <1>1, InitSaved, NextSaved, PTL DEF CSpec
------------------------------------------------------------------------------
(* The actor among the sites.  Calls of sites ask the actor, and put a message
   of their own on the bus that makes it switch: Calling says what they carry. *)
Calling ==
  calls \in [Calls -> {None}
               \cup [pc : {"current", "validate", "lowest"}, domain : Domains, chain : Chains]
               \cup [pc : {"switch"}, domain : Domains, chain : Chains, dedup : Nat]
               \cup [pc : {"store", "send"}, id : Ids, domain : Domains \cup {Absent},
                     affinity : Affinities]]

CInv == Inv /\ Calling

(* A set of natural numbers has a least one. *)
LEMMA Least ==
  ASSUME NEW S, S \subseteq Nat, S # {} PROVE \E x \in S : \A y \in S : x <= y
<1>1. IsWellFoundedOn(OpToRel(<, Nat), Nat)
  BY NatLessThanWellFounded
<1>2. PICK R : R = OpToRel(<, Nat)
  OBVIOUS
<1>3. PICK x \in S : \A y \in S : ~ (<<y, x>> \in R)
  BY <1>1, <1>2, WFMin
<1>4. \A y \in Nat : y < x => <<y, x>> \in R
  BY <1>2 DEF OpToRel
<1>5. \A y \in S : ~ (y < x)
  BY <1>3, <1>4
<1>6. \A y \in S : x <= y
  BY <1>5, SMT
<1> QED BY <1>6

(* A chain has a lowest dedup id, which is 0 when no network has the chain. *)
LEMMA LowestDedupType ==
  ASSUME Inv, NEW chain PROVE LowestDedup(chain) \in Nat
<1>1. \A n \in Present : networks[n].id \in Ids
  BY DEF Present, Inv, TypeOK, Map, Net
<1>2. Dedups(chain) \subseteq Nat
  BY <1>1 DEF Ids, Dedups
<1>3. PICK d \in Dedups(chain) \cup {0} :
        /\ Dedups(chain) # {} => d \in Dedups(chain)
        /\ \A e \in Dedups(chain) : d <= e
  BY <1>2, Least
<1>4. LowestDedup(chain) \in Dedups(chain) \cup {0}
  BY <1>3 DEF LowestDedup
<1> QED BY <1>2, <1>4

(* What a call carries after one of its steps. *)
LEMMA CallGoes ==
  ASSUME Calling, NEW k \in Calls, NEW c, Goto(k, c),
         \/ c = None
         \/ c \in [pc : {"current", "validate", "lowest"}, domain : Domains, chain : Chains]
         \/ c \in [pc : {"switch"}, domain : Domains, chain : Chains, dedup : Nat]
         \/ c \in [pc : {"store", "send"}, id : Ids, domain : Domains \cup {Absent},
                   affinity : Affinities]
  PROVE  Calling'
BY DEF Calling, Goto

(* The steps of a call: it begins, *)
LEMMA CallBeginInv ==
  ASSUME CInv, NEW k \in Calls, SwitchChain(k) \/ SetAffinity(k) PROVE CInv'
<1>1. UNCHANGED <<actorVars, inbox, form, poller, up, faults, restarts>> /\ ops' = ops + 1
  BY DEF SwitchChain, SetAffinity, UserOp, Env, NetUnchanged
<1>2. Inv'
  BY <1>1 DEF actorVars, history, CInv, Inv, TypeOK, GoodBox, Persisted, Announced, Present,
              CopiesAnnounced, CopyAnnounced, Known
<1>3. CASE SwitchChain(k)
  <2>1. PICK domain \in Domains, chain \in Chains, pc \in {"validate", "current"} :
          Goto(k, [pc |-> pc, domain |-> domain, chain |-> chain])
    BY <1>3 DEF SwitchChain
  <2> QED BY <1>2, <2>1, CallGoes DEF CInv
<1>4. CASE SetAffinity(k)
  <2>1. announced \subseteq Ids /\ \A n \in Present : n \in Names /\ networks[n].id \in Ids
    BY DEF CInv, Inv, TypeOK, Map, Net, Present
  <2>2. PICK domain \in Domains :
          \/ \E id \in announced :
               Goto(k, [pc |-> "store", id |-> id, domain |-> domain,
                        affinity |-> Sticky(id)])
          \/ \E affinity \in {Unset, Global}, first \in Present :
               Goto(k, [pc |-> "store", domain |-> domain, affinity |-> affinity,
                        id |-> networks[CurrentName(networks, current, first)].id])
    BY <1>4 DEF SetAffinity
  <2>3. \A first \in Present : CurrentName(networks, current, first) \in Present
    BY DEF CurrentName, Present, CInv, Inv, TypeOK
  <2>4. PICK id \in Ids, affinity \in Affinities :
          Goto(k, [pc |-> "store", id |-> id, domain |-> domain, affinity |-> affinity])
    <3>1. CASE \E id \in announced :
                 Goto(k, [pc |-> "store", id |-> id, domain |-> domain,
                          affinity |-> Sticky(id)])
      <4>1. \A id \in Ids : Sticky(id) \in Affinities
        BY DEF Sticky, Affinities
      <4> QED BY <2>1, <3>1, <4>1
    <3>2. CASE \E affinity \in {Unset, Global}, first \in Present :
                 Goto(k, [pc |-> "store", domain |-> domain, affinity |-> affinity,
                          id |-> networks[CurrentName(networks, current, first)].id])
      BY <2>1, <2>3, <3>2 DEF Affinities
    <3> QED BY <2>2, <3>1, <3>2
  <2> QED BY <1>2, <2>4, CallGoes DEF CInv
<1> QED BY <1>3, <1>4

(* A step that only puts something good on the bus. *)
LEMMA InboxInv ==
  ASSUME Inv, GoodBox(inbox'), UNCHANGED <<actorVars, poller, form, up, ops, restarts>>,
         faults' \in Nat
  PROVE  Inv'
BY DEF actorVars, history, Inv, TypeOK, GoodBox, Persisted, Announced, Present,
       CopiesAnnounced, CopyAnnounced, Known

LEMMA StillInv == ASSUME Inv, UNCHANGED vars PROVE Inv'
BY DEF vars, history, Inv, TypeOK, GoodBox, Persisted, Announced, Present,
       CopiesAnnounced, CopyAnnounced, Known

(* asks, reads, stores and sends. *)
LEMMA CallStepInv == ASSUME CInv, NEW k \in Calls, CallStep(k) PROVE CInv'
<1>1. PICK c : c = calls[k]
  OBVIOUS
<1>2. \/ c = None
      \/ c \in [pc : {"current", "validate", "lowest"}, domain : Domains, chain : Chains]
      \/ c \in [pc : {"switch"}, domain : Domains, chain : Chains, dedup : Nat]
      \/ c \in [pc : {"store", "send"}, id : Ids, domain : Domains \cup {Absent},
                affinity : Affinities]
  BY <1>1 DEF CInv, Calling
<1>3. CASE SwitchRead(k)
  <2>1. c.domain \in Domains /\ c.chain \in Chains /\ c.dedup \in Nat
    BY <1>1, <1>2, <1>3 DEF SwitchRead, None
  <2>2. <<c.chain, c.dedup>> \in Ids /\ <<c.chain, 0>> \in Ids
    BY <2>1 DEF Ids
  <2>3. Global \in Affinities /\ Sticky(<<c.chain, 0>>) \in Affinities
    BY <2>2 DEF Sticky, Affinities
  <2>4. \/ Goto(k, [pc |-> "send", id |-> <<c.chain, c.dedup>>, domain |-> Absent,
                    affinity |-> Global])
        \/ Goto(k, [pc |-> "store", id |-> <<c.chain, 0>>, domain |-> c.domain,
                    affinity |-> Sticky(<<c.chain, 0>>)])
    BY <1>1, <1>3 DEF SwitchRead, StickyTarget
  <2>5. Calling'
    BY <2>1, <2>2, <2>3, <2>4, CallGoes DEF CInv
  <2>6. UNCHANGED vars
    BY <1>3 DEF SwitchRead
  <2> QED BY <2>5, <2>6, StillInv DEF CInv
<1>4. CASE Store(k)
  <2>1. c \in [pc : {"store", "send"}, id : Ids, domain : Domains \cup {Absent},
               affinity : Affinities]
    BY <1>1, <1>2, <1>4 DEF Store, None
  <2>2. PICK e : e = [c EXCEPT !.pc = "send"]
    OBVIOUS
  <2>3. /\ e \in [pc : {"store", "send"}, id : Ids, domain : Domains \cup {Absent},
                  affinity : Affinities]
        /\ Goto(k, e) \/ Goto(k, None)
    BY <1>1, <1>4, <2>1, <2>2 DEF Store
  <2>4. Calling'
    BY <2>3, CallGoes DEF CInv
  <2>5. /\ UNCHANGED <<actorVars, inbox, poller, form, up, ops, restarts>>
        /\ faults' \in Nat
    BY <1>4 DEF Store, Fault, CInv, Inv, TypeOK
  <2>6. GoodBox(inbox')
    BY <2>5 DEF CInv, Inv, GoodBox
  <2> QED BY <2>4, <2>5, <2>6, InboxInv DEF CInv
<1>6. CASE SwitchCurrent(k) \/ SwitchValidate(k)
  <2>1. c \in [pc : {"current", "validate", "lowest"}, domain : Domains, chain : Chains]
    BY <1>1, <1>2, <1>6 DEF SwitchCurrent, SwitchValidate, None
  <2>2. PICK d : /\ d \in [pc : {"current", "validate", "lowest"}, domain : Domains,
                           chain : Chains]
                 /\ Goto(k, None) \/ Goto(k, d)
    <3>1. \A pc \in {"validate", "lowest"} :
            [c EXCEPT !.pc = pc] \in [pc : {"current", "validate", "lowest"},
                                     domain : Domains, chain : Chains]
      BY <2>1
    <3> QED BY <1>1, <1>6, <2>1, <3>1 DEF SwitchCurrent, SwitchValidate
  <2>3. Calling'
    BY <2>2, CallGoes DEF CInv
  <2>4. UNCHANGED vars
    BY <1>6 DEF SwitchCurrent, SwitchValidate
  <2> QED BY <2>3, <2>4, StillInv DEF CInv
<1>7. CASE SwitchLowest(k)
  <2>1. c.domain \in Domains /\ c.chain \in Chains
    BY <1>1, <1>2, <1>7 DEF SwitchLowest, None
  <2>2. LowestDedup(c.chain) \in Nat
    BY LowestDedupType DEF CInv
  <2>3. Goto(k, [pc |-> "switch", domain |-> c.domain, chain |-> c.chain,
                 dedup |-> LowestDedup(c.chain)])
    BY <1>1, <1>7 DEF SwitchLowest
  <2>4. Calling'
    BY <2>1, <2>2, <2>3, CallGoes DEF CInv
  <2>5. UNCHANGED vars
    BY <1>7 DEF SwitchLowest
  <2> QED BY <2>4, <2>5, StillInv DEF CInv
<1>5. CASE Announcement(k)
  <2>1. c.id \in Ids /\ c.domain \in Domains \cup {Absent} /\ c.affinity \in Affinities
    BY <1>1, <1>2, <1>5 DEF Announcement, None
  <2>2. ChainChanged(c.id, c.domain, c.affinity) \in Msg
    BY <2>1 DEF ChainChanged, Msg
  <2>3. GoodBox(inbox')
    BY <1>1, <1>5, <2>2, SendGood DEF Announcement, CInv, Inv
  <2>4. Calling'
    BY <1>5 DEF Announcement, Goto, CInv, Calling
  <2>5. UNCHANGED <<actorVars, poller, form, up, ops, restarts>> /\ faults' \in Nat
    BY <1>5 DEF Announcement, budget, CInv, Inv, TypeOK
  <2> QED BY <2>3, <2>4, <2>5, InboxInv DEF CInv
<1> QED BY <1>3, <1>4, <1>5, <1>6, <1>7 DEF CallStep

(* The receiver of the connections takes from its own queue. *)
LEMMA ConnectionsReceiverInv == ASSUME CInv, ConnectionsReceiver PROVE CInv'
<1>1. DOMAIN inbox' = DOMAIN inbox /\ inbox'["networks"] = inbox["networks"]
  BY DEF ConnectionsReceiver, Received
<1>2. /\ GoodBox(inbox') /\ Calling' /\ faults' \in Nat
      /\ UNCHANGED <<actorVars, poller, form, up, ops, restarts>>
  BY <1>1 DEF ConnectionsReceiver, CInv, Inv, TypeOK, GoodBox, Calling, budget
<1> QED BY <1>2, InboxInv DEF CInv

LEMMA CNextInv == ASSUME CInv, [CNext]_allVars PROVE CInv'
<1>1. CASE UNCHANGED allVars
  <2>1. UNCHANGED vars /\ UNCHANGED calls
    BY <1>1 DEF allVars, cvars
  <2> QED BY <2>1, StillInv DEF CInv, Calling
<1>2. CASE (User \/ Tasks \/ Flip \/ Lag) /\ UNCHANGED cvars
  <2>1. Inv'
    BY <1>2, NextInv DEF CInv, Next
  <2>2. Calling'
    BY <1>2 DEF cvars, CInv, Calling
  <2> QED BY <2>1, <2>2 DEF CInv
<1>3. CASE CRestart
  <2>1. Inv'
    BY <1>3, RestartInv DEF CRestart, CInv
  <2>2. Calling'
    BY <1>3 DEF CRestart, Calling
  <2> QED BY <2>1, <2>2 DEF CInv
<1> QED BY <1>1, <1>2, <1>3, CallBeginInv, CallStepInv, ConnectionsReceiverInv DEF CNext

(* The composition's inductive invariant. *)
THEOREM CInvariance == CSpec => []CInv
<1>1. CInit => CInv
  BY InitInv DEF CInit, CInv, Calling
<1> QED BY <1>1, CNextInv, PTL DEF CSpec

(* The actor keeps its promises in the company of the sites: however many of
   their calls overlap with users, stacks, polls and restarts, networks.json
   holds the actor's map and current name, with the same two exceptions. *)
THEOREM PersistedAmongSites == CSpec => []Persisted
<1>1. CInv => Persisted
  BY DEF CInv, Inv
<1> QED BY <1>1, CInvariance, PTL

(* Likewise, every network in the map was announced in this process, whatever
   switches the sites ask for, or a failed write kept its announcement back. *)
THEOREM AnnouncedAmongSites == CSpec => []Announced
<1>1. CInv => Announced
  BY DEF CInv, Inv
<1> QED BY <1>1, CInvariance, PTL

------------------------------------------------------------------------------
(* The echo among the sites.  A call of a site ends in a message that the actor
   follows, so a call under way counts as an echo to come. *)
Active == {k \in Calls : calls[k] # None}

EchoToCome == IsFiniteSet(Active) /\ InFlight + Cardinality(Active) <= ops

LEMMA CallEcho ==
  ASSUME CInv, EchoToCome, NEW k \in Calls, SwitchChain(k) \/ SetAffinity(k) \/ CallStep(k),
         CInv'
  PROVE  EchoToCome'
<1>1. /\ Len(spawned) \in Nat /\ Len(inbox["networks"]) \in Nat /\ ops \in Nat
      /\ Len(spawned') \in Nat /\ Len(inbox'["networks"]) \in Nat /\ ops' \in Nat
  BY DEF CInv, Inv, TypeOK
<1>2. IsFiniteSet(Active) /\ Cardinality(Active) \in Nat
  BY FS_CardinalityType DEF EchoToCome
<1>3. Len(spawned) + Len(inbox["networks"]) + Cardinality(Active) <= ops
  BY DEF EchoToCome, InFlight
<1>4. \A c : calls' = [calls EXCEPT ![k] = c] =>
        Active' = IF c = None THEN Active \ {k} ELSE Active \cup {k}
  BY DEF CInv, Calling, Active
<1>5. CASE SwitchChain(k) \/ SetAffinity(k)
  <2>1. UNCHANGED <<spawned, inbox>> /\ ops' = ops + 1
    BY <1>5 DEF SwitchChain, SetAffinity, UserOp, NetUnchanged, actorVars
  <2>2. k \notin Active
    BY <1>5 DEF SwitchChain, SetAffinity, Active
  <2>3. Active' = Active \/ Active' = Active \cup {k} \/ Active' = Active \ {k}
    BY <1>4, <1>5 DEF SwitchChain, SetAffinity, Goto
  <2>4. /\ IsFiniteSet(Active') /\ Cardinality(Active') \in Nat
        /\ Cardinality(Active') <= Cardinality(Active) + 1
    BY <1>2, <2>2, <2>3, FS_AddElement, FS_RemoveElement
  <2> QED BY <1>1, <1>2, <1>3, <2>1, <2>4 DEF EchoToCome, InFlight
<1>6. CASE \/ SwitchCurrent(k) \/ SwitchValidate(k) \/ SwitchLowest(k)
           \/ SwitchRead(k) \/ Store(k)
  <2>1. UNCHANGED <<spawned, inbox, ops>>
    BY <1>6 DEF SwitchCurrent, SwitchValidate, SwitchLowest, SwitchRead, Store, vars,
                actorVars, budget
  <2>2. k \in Active
    BY <1>6 DEF SwitchCurrent, SwitchValidate, SwitchLowest, SwitchRead, Store, Active, None
  <2>3. Active' = Active \/ Active' = Active \ {k}
    <3>1. \E c : calls' = [calls EXCEPT ![k] = c]
      BY <1>6 DEF SwitchCurrent, SwitchValidate, SwitchLowest, SwitchRead, Store, Goto
    <3> QED BY <1>4, <2>2, <3>1
  <2>4. /\ IsFiniteSet(Active') /\ Cardinality(Active') \in Nat
        /\ Cardinality(Active') <= Cardinality(Active)
    <3>1. CASE Active' = Active
      BY <1>2, <3>1
    <3>2. CASE Active' = Active \ {k}
      <4>1. /\ IsFiniteSet(Active') /\ Cardinality(Active') = Cardinality(Active) - 1
        BY <1>2, <2>2, <3>2, FS_RemoveElement
      <4>2. Cardinality(Active') \in Nat
        BY <4>1, FS_CardinalityType
      <4> QED BY <1>2, <4>1, <4>2
    <3> QED BY <2>3, <3>1, <3>2
  <2> QED BY <1>1, <1>2, <1>3, <2>1, <2>4 DEF EchoToCome, InFlight
<1>7. CASE Announcement(k)
  <2>1. PICK c : c = calls[k]
    OBVIOUS
  <2>2. c.id \in Ids /\ c.domain \in Domains \cup {Absent} /\ c.affinity \in Affinities
    BY <1>7, <2>1 DEF Announcement, CInv, Calling, None
  <2>3. ChainChanged(c.id, c.domain, c.affinity) \in Msg
    BY <2>2 DEF ChainChanged, Msg
  <2>4. Len(inbox'["networks"]) <= Len(inbox["networks"]) + 1
    BY <1>7, <2>1, <2>3, SendLonger DEF Announcement, CInv, Inv
  <2>5. UNCHANGED <<spawned, ops>>
    BY <1>7 DEF Announcement, actorVars, budget
  <2>6. k \in Active /\ Active' = Active \ {k}
    <3>1. k \in Active
      BY <1>7 DEF Announcement, Active, None
    <3>2. calls' = [calls EXCEPT ![k] = None]
      BY <1>7 DEF Announcement, Goto
    <3> QED BY <1>4, <3>1, <3>2
  <2>7. /\ IsFiniteSet(Active') /\ Cardinality(Active') \in Nat
        /\ Cardinality(Active') = Cardinality(Active) - 1
    BY <1>2, <2>6, FS_RemoveElement, FS_CardinalityType
  <2> QED BY <1>1, <1>2, <1>3, <2>4, <2>5, <2>7 DEF EchoToCome, InFlight
<1> QED BY <1>5, <1>6, <1>7 DEF CallStep

LEMMA CNextEcho ==
  ASSUME CInv, CInv', EchoToCome, [CNext]_allVars PROVE EchoToCome'
<1>1. /\ Len(spawned) \in Nat /\ Len(inbox["networks"]) \in Nat /\ ops \in Nat
      /\ Len(spawned') \in Nat /\ Len(inbox'["networks"]) \in Nat /\ ops' \in Nat
  BY DEF CInv, Inv, TypeOK
<1>2. IsFiniteSet(Active) /\ Cardinality(Active) \in Nat
  BY FS_CardinalityType DEF EchoToCome
<1>3. Len(spawned) + Len(inbox["networks"]) + Cardinality(Active) <= ops
  BY DEF EchoToCome, InFlight
<1>4. ASSUME UNCHANGED calls,
             \/ ops' = ops + 1 /\ OneMore(inbox)
             \/ /\ ops' = ops
                /\ Len(spawned') + Len(inbox'["networks"])
                     <= Len(spawned) + Len(inbox["networks"])
      PROVE  EchoToCome'
  <2>1. Active' = Active
    BY <1>4 DEF Active
  <2> QED BY <1>1, <1>2, <1>3, <1>4, <2>1 DEF EchoToCome, InFlight, OneMore
<1>5. ASSUME UNCHANGED <<spawned, ops, calls>>, inbox'["networks"] = inbox["networks"]
      PROVE  EchoToCome'
  BY <1>1, <1>4, <1>5
<1>6. CASE UNCHANGED allVars
  BY <1>5, <1>6 DEF allVars, cvars, vars, actorVars, budget
<1>7. CASE (User \/ Tasks \/ Flip \/ Lag) /\ UNCHANGED cvars
  <2>1. CASE User
    BY <1>4, <1>7, <2>1, UserEcho DEF CInv, cvars
  <2>2. CASE NotifyPeers
    BY <1>4, <1>7, <2>2, NotifyEcho DEF NotifyPeers, budget, CInv, cvars
  <2>3. CASE Receiver
    BY <1>4, <1>7, <2>3, ReceiverEcho DEF Receiver, CInv, cvars
  <2>4. CASE PollBegin \/ PollApply \/ Flip
    BY <1>5, <1>7, <2>4 DEF PollBegin, PollApply, Flip, actorVars, budget, cvars
  <2>5. CASE Lag
    BY <1>4, <1>7, <2>5, LagEcho DEF Lag, CInv, cvars
  <2> QED BY <1>7, <2>1, <2>2, <2>3, <2>4, <2>5 DEF Tasks
<1>8. CASE ConnectionsReceiver
  BY <1>5, <1>8 DEF ConnectionsReceiver, Received, actorVars, budget
<1>9. CASE CRestart
  <2>1. spawned' = <<>> /\ inbox'["networks"] = <<>> /\ ops' = ops
    BY <1>9, NetworksAssumption DEF CRestart, Restart
  <2>2. Active' = {}
    BY <1>9 DEF CRestart, Active
  <2>3. IsFiniteSet(Active') /\ Cardinality(Active') = 0
    BY <2>2, FS_EmptySet
  <2> QED BY <1>1, <2>1, <2>3 DEF EchoToCome, InFlight
<1> QED BY <1>6, <1>7, <1>8, <1>9, CallEcho DEF CNext

(* The echo does not multiply among the sites either: their calls are counted
   as operations of the user, and each adds one message at most. *)
THEOREM EchoBoundedAmongSites == CSpec => []EchoBounded
<1>1. CInit => EchoToCome
  <2>1. CInit => spawned = <<>> /\ inbox["networks"] = <<>> /\ ops = 0 /\ Active = {}
    BY NetworksAssumption DEF CInit, Init, Active
  <2> QED BY <2>1, FS_EmptySet DEF EchoToCome, InFlight
<1>2. CInv /\ EchoToCome => EchoBounded
  <2>1. CInv => Len(spawned) \in Nat /\ Len(inbox["networks"]) \in Nat /\ ops \in Nat
    BY DEF CInv, Inv, TypeOK
  <2> QED BY <2>1, FS_CardinalityType DEF EchoToCome, EchoBounded, InFlight
<1>3. CInv /\ CInv' /\ EchoToCome /\ [CNext]_allVars => EchoToCome'
  BY CNextEcho
<1> QED BY <1>1, <1>2, <1>3, CInvariance, PTL DEF CSpec
==============================================================================
