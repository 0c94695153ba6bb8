------------------------------- MODULE Networks ------------------------------
(***************************************************************************)
(* The networks actor (crates/networks): the map of configured networks,   *)
(* the current one, the file both are saved to, the receiver task that     *)
(* feeds bus messages back into the actor, and the status poller that      *)
(* works on a copy of the map.                                             *)
(*                                                                         *)
(* A kameo actor runs one message handler at a time, so a handler is one   *)
(* action.  What is NOT atomic with the actor is modelled by state of its  *)
(* own: the poller's copy, the edit form the user has open, the tasks      *)
(* spawned to announce a switch, and the messages still on the bus.        *)
(*                                                                         *)
(* The map is keyed by name and every insertion uses the network's own     *)
(* name as its key, so a network here does not repeat its name.            *)
(***************************************************************************)
EXTENDS Broadcast, FiniteSets, SequencesExt

CONSTANTS Names,        \* network names
          Chains,       \* chain ids
          DevChain,     \* 31337, the chain id every anvil node reports
          Urls,         \* HTTP endpoints
          Domains,      \* the sites that may ask for a chain
          Absent,       \* no network under this name
          AllDefault,   \* Network::all_default(), as a map
          FirstDefault, \* the name of its first entry
          MaxUserOps,   \* bound on user and stack operations
          MaxFaults,     \* bound on endpoints that change, writes
                        \* that fail and messages lost to lag
          MaxRestarts   \* bound on application restarts

VARIABLES networks,   \* name -> network, or Absent
          order,      \* iteration order of the hash map: name -> rank
          current,    \* the name `current` of SerializedNetworks
          file,       \* contents of networks.json
          spawned,    \* tasks of notify_peers not yet run: the ids they carry
          poller,     \* the status poller: idle, or the copy it polls
          form,       \* the network edit form, closed or holding a copy
          up,         \* what each endpoint does when asked
          announced,  \* history: the ids told to subscribers since start
          untold,     \* history: the ids a failed save() kept from them
          lastWrite,  \* history: how the last save() ended
          ops, faults, restarts

history   == <<announced, untold, lastWrite>>
actorVars == <<networks, order, current, file, spawned, history>>
budget    == <<ops, faults, restarts>>
vars      == <<networks, order, current, file, spawned, history, inbox, poller,
               form, up, ops, faults, restarts>>

ASSUME NetworksAssumption ==
  /\ IsFiniteSet(Names)
  /\ "networks" \in Receivers
  /\ FirstDefault \in Names
  /\ DevChain \in Chains
  /\ {MaxUserOps, MaxFaults, MaxRestarts} \subseteq Nat

Ids    == Chains \X Nat                 \* NetworkId: chain_id, dedup_id
Status == {"Unknown", "Online", "Offline"}
Net    == [id : Ids, status : Status, is_stack : BOOLEAN, http_url : Urls]
Map    == [Names -> Net \cup {Absent}]

(* HashMap iterates in an order that is arbitrary, and fixed until the map is
   changed. *)
Orders == {rank \in [Names -> 1..Cardinality(Names)] :
             \A m, n \in Names : rank[m] = rank[n] => m = n}
IsFirst(n, S) == n \in S /\ \A m \in S : order[n] <= order[m]

ASSUME DefaultAssumption ==
  /\ Absent \notin Net
  /\ AllDefault \in Map
  /\ AllDefault[FirstDefault] # Absent

Unset      == [affinity |-> "Unset"]
Global     == [affinity |-> "Global"]
Sticky(id) == [affinity |-> "Sticky", id |-> id]

(* InternalMsg, the variants this actor sends or handles. *)
ChainChanged(id, domain, affinity) ==
  [kind |-> "ChainChanged", id |-> id, domain |-> domain, affinity |-> affinity]
NetworkMsg(kind, net) == [kind |-> kind, id |-> net.id]
StackMsg(kind, name, chain) == [kind |-> kind, name |-> name, chain |-> chain]

Affinities == {Unset, Global} \cup [affinity : {"Sticky"}, id : Ids]
------------------------------------------------------------------------------
Present      == {n \in Names : networks[n] # Absent}
Inserted(n, net) == [networks EXCEPT ![n] = net]
Removed(n)       == [networks EXCEPT ![n] = Absent]
Idle   == [state |-> "idle"]
Closed == [state |-> "closed"]

(* get_current_inner: a `current` that names no network stands for whichever
   one the hash map yields first; with an empty map the handler panics.  *)
CurrentName(map, name, first) == IF map[name] # Absent THEN name ELSE first

(* get_chain_id_count *)
ChainIdCountLast(chain) ==
  Cardinality({n \in Present : networks[n].id[1] = chain}) - 1

ChainIdCount(chain) ==
  Cardinality({n \in Present : networks[n].id[1] = chain})

(* Network::is_dev: known for a stack and for chain 31337, otherwise what the
   node answers to hardhat_metadata, or an error when there is no provider. *)
IsDev(net) ==
  IF net.is_stack \/ net.id[1] = DevChain
  THEN {"dev"} ELSE {"dev", "not_dev", "error"}

(* on_network_changed: notify_peers spawns the ChainChanged announcement. *)
NotifyTwice(map, name) == spawned \o <<map[name].id, map[name].id>>

OnNetworkChanged(map, name) == Append(spawned, map[name].id)

(* save(): the whole of SerializedNetworks replaces the file, or the file
   cannot be created and the handler ends with the map already changed. *)
Fault == faults < MaxFaults /\ faults' = faults + 1

SaveFails == Fault /\ lastWrite' = "failed" /\ UNCHANGED file

SavedOnlyMap(map, name) ==
  /\ file' = [networks |-> map, current |-> file.current]
  /\ lastWrite' = "ok" /\ UNCHANGED faults

Saved(map, name) ==
  /\ file' = [networks |-> map, current |-> name]
  /\ lastWrite' = "ok" /\ UNCHANGED faults

Save(map, name) == Saved(map, name) \/ SaveFails

(* network_added and network_updated, as the subscribers' knowledge. *)
AnnounceNothing(net) == UNCHANGED <<announced, untold>>

Announce(net) == announced' = announced \cup {net.id} /\ UNCHANGED untold

(* The end of `add` and of `update`: save(), and only then the announcement. *)
SaveAndAnnounce(map, name, kind, net, box) ==
  \/ /\ Saved(map, name)
     /\ Announce(net)
     /\ inbox' = Send(box, NetworkMsg(kind, net))
  \/ /\ SaveFails
     /\ untold' = untold \cup {net.id}
     /\ inbox' = box
     /\ UNCHANGED announced

(* The end of `remove`. *)
SaveAndRemove(map, name, net, box) ==
  \/ Saved(map, name) /\ inbox' = Send(box, NetworkMsg("NetworkRemoved", net))
  \/ SaveFails /\ inbox' = box
------------------------------------------------------------------------------
(* `set_current` calls on_network_changed only on an actual switch. *)
AlwaysSwitch(previous, new) == TRUE

IsSwitch(previous, new) == previous # new

(* Handler `set_current`, once the key is resolved to a name.  The name a
   caller gives need not exist. *)
SetCurrent(name, box) ==
  \E first \in Present :
    /\ IsFirst(first, Present)
    /\ LET previous == CurrentName(networks, current, first)
           new      == CurrentName(networks, name, first)
       IN spawned' = IF IsSwitch(previous, new)
                     THEN OnNetworkChanged(networks, new) ELSE spawned
    /\ current' = name
    /\ Save(networks, name)
    /\ inbox' = box
    /\ UNCHANGED <<networks, order, announced, untold>>

(* A handler that returns Err, or panics, before it changes anything. *)
Failed(box) == inbox' = box /\ UNCHANGED <<actorVars, faults>>

(* `set_current` with a NetworkId: the first network with it, or an error. *)
WithId(id) == {n \in Present : networks[n].id = id}

SetCurrentById(id, box) ==
  \/ \E n \in Names : IsFirst(n, WithId(id)) /\ SetCurrent(n, box)
  \/ WithId(id) = {} /\ Failed(box)

(* Handler `add`. *)
AddNetwork(name, chain, is_stack, url, box) ==
  LET net == [id |-> <<chain, ChainIdCount(chain)>>, status |-> "Unknown",
              is_stack |-> is_stack, http_url |-> url]
      duplicate == \E n \in Present : networks[n].id = net.id
  IN \/ networks[name] # Absent /\ Failed(box)
     \/ /\ networks[name] = Absent
        /\ \E answer \in IsDev(net) :
             \/ /\ answer = "error" \/ (answer = "not_dev" /\ duplicate)
                /\ Failed(box)
             \/ /\ answer = "dev" \/ (answer = "not_dev" /\ ~duplicate)
                /\ networks' = Inserted(name, net)
                /\ order' \in Orders
                /\ SaveAndAnnounce(Inserted(name, net), current, "NetworkAdded", net, box)
                /\ UNCHANGED <<current, spawned>>

(* Handler `update`: nothing requires old_name to exist still. *)
UpdateNetwork(old, name, net, box) ==
  LET map == [Removed(old) EXCEPT ![name] = net]
      cur == IF current = old THEN name ELSE current
  IN \/ name # old /\ networks[name] # Absent /\ Failed(box)
     \/ /\ name = old \/ networks[name] = Absent
        /\ networks' = map
        /\ order' \in Orders
        /\ current' = cur
        /\ spawned' = IF current = old THEN OnNetworkChanged(map, name) ELSE spawned
        /\ SaveAndAnnounce(map, cur, "NetworkUpdated", net, box)

(* Handler `remove`.  Removing the last network while it is current fails
   after the map has been changed and before it is saved or announced. *)
RemoveNetwork(name, box) ==
  LET net == networks[name]
      map == Removed(name)
  IN \/ net = Absent /\ Failed(box)
     \/ /\ net # Absent
        /\ networks' = map
        /\ order' \in Orders
        /\ \/ /\ current # name
              /\ UNCHANGED <<current, spawned>>
              /\ SaveAndRemove(map, current, net, box)
           \/ /\ current = name
              /\ \E first \in Present \ {name} :
                   /\ \A n \in Present \ {name} : order'[first] <= order'[n]
                   /\ current' = first
                   /\ spawned' = OnNetworkChanged(map, first)
                   /\ SaveAndRemove(map, first, net, box)
           \/ /\ current = name /\ Present = {name}
              /\ inbox' = box
              /\ UNCHANGED <<current, spawned, file, lastWrite, faults>>
        /\ UNCHANGED <<announced, untold>>
------------------------------------------------------------------------------
(* The user, through the Tauri commands. *)
Env == <<poller, up, restarts>>

UserOp == ops < MaxUserOps /\ ops' = ops + 1 /\ UNCHANGED Env

NetworksSetCurrent ==
  /\ UserOp /\ UNCHANGED form
  /\ \E name \in Names :
       IF Present = {} THEN Failed(inbox) ELSE SetCurrent(name, inbox)

NetworksAdd ==
  /\ UserOp /\ UNCHANGED form
  /\ \E name \in Names, chain \in Chains, url \in Urls :
       AddNetwork(name, chain, FALSE, url, inbox)

(* The edit form is filled from the network as it is when the form opens. *)
OpenForm ==
  /\ form = Closed
  /\ UserOp
  /\ \E n \in Present : form' = [state |-> "open", old |-> n, net |-> networks[n]]
  /\ UNCHANGED <<actorVars, inbox, faults>>

(* Saving it sends the copy back.  The form's schema has no status, which is
   Unknown again; the id is shown but cannot be edited. *)
NetworksUpdate ==
  /\ form # Closed
  /\ UserOp
  /\ form' = Closed
  /\ \E name \in Names, url \in Urls :
       UpdateNetwork(form.old, name,
              [form.net EXCEPT !.status = "Unknown", !.http_url = url], inbox)

NetworksRemove ==
  /\ UserOp /\ UNCHANGED form
  /\ \E name \in Names : RemoveNetwork(name, inbox)

(* stacks_create and stacks_remove announce the stack's network on the bus. *)
StackChange ==
  /\ UserOp /\ UNCHANGED <<form, actorVars, faults>>
  /\ \E name \in Names, chain \in Chains, kind \in {"StackAdd", "StackRemove"} :
       inbox' = Send(inbox, StackMsg(kind, name, chain))
------------------------------------------------------------------------------
(* A task spawned by notify_peers runs: they run in any order. *)
NotifyPeers ==
  /\ \E i \in DOMAIN spawned :
       /\ inbox' = Send(inbox, ChainChanged(spawned[i], Absent, Global))
       /\ spawned' = RemoveAt(spawned, i)
  /\ UNCHANGED <<networks, order, current, file, history, poller, form, up, budget>>

(* The receiver task of init.rs. *)
Receiver ==
  /\ inbox["networks"] # <<>>
  /\ LET m   == Head(inbox["networks"])
         box == Received("networks")
     IN \/ /\ m.kind = "ChainChanged"
           /\ IF m.affinity \in {Global, Unset}
              THEN SetCurrentById(m.id, box) ELSE Failed(box)
        \/ /\ m.kind = "StackAdd"
           /\ \E url \in Urls : AddNetwork(m.name, m.chain, TRUE, url, box)
        \/ m.kind = "StackRemove" /\ RemoveNetwork(m.name, box)
  /\ UNCHANGED <<poller, form, up, ops, restarts>>

(* status_poller: get_list ... *)
PollBegin ==
  /\ poller = Idle
  /\ poller' = [state |-> "polling", copy |-> networks]
  /\ UNCHANGED <<actorVars, inbox, form, up, budget>>

(* ... and Network::poll_status on every copy, with a timeout of 2 seconds
   that leaves the status as it was. *)
Polled(net) ==
  CASE net = Absent              -> Absent
    [] net # Absent /\ up[net.http_url] = "up"   -> [net EXCEPT !.status = "Online"]
    [] net # Absent /\ up[net.http_url] = "down" -> [net EXCEPT !.status = "Offline"]
    [] OTHER                     -> net

(* If any status changed, `update_statuses` inserts every copy. *)
Merged(results) ==
  [n \in Names |-> IF results[n] # Absent THEN results[n] ELSE networks[n]]

AllChanged(results, copy) ==
  \A n \in Names : copy[n] # Absent => results[n] # copy[n]

AnyChanged(results, copy) == \E n \in Names : results[n] # copy[n]

PollApply ==
  /\ poller # Idle
  /\ poller' = Idle
  /\ LET results == [n \in Names |-> Polled(poller.copy[n])]
     IN IF AnyChanged(results, poller.copy)
        THEN /\ networks' = Merged(results)
             /\ order' \in Orders
             /\ Save(Merged(results), current)
        ELSE UNCHANGED <<networks, order, file, lastWrite, faults>>
  /\ UNCHANGED <<current, spawned, announced, untold, inbox, form, up, ops, restarts>>
------------------------------------------------------------------------------
(* The environment: endpoints change, and the application is restarted. *)
Flip ==
  /\ Fault
  /\ \E url \in Urls, s \in {"up", "down", "silent"} : up' = [up EXCEPT ![url] = s]
  /\ UNCHANGED <<actorVars, inbox, poller, form, ops, restarts>>

(* A receiver has fallen behind. *)
Lag ==
  /\ Fault
  /\ \E r \in Receivers : Lagged(r)
  /\ UNCHANGED <<actorVars, poller, form, up, ops, restarts>>

(* on_start reads the file, saves it and announces every network; tasks,
   queues and forms of the previous process are gone. *)
Ids0(map) == {map[n].id : n \in {m \in Names : map[m] # Absent}}

Restart ==
  /\ restarts < MaxRestarts /\ restarts' = restarts + 1
  /\ networks' = file.networks
  /\ order' \in Orders
  /\ current' = file.current
  /\ announced' = Ids0(file.networks) /\ untold' = {} /\ lastWrite' = "ok"
  /\ spawned' = <<>>
  /\ inbox' = [r \in Receivers |-> <<>>]
  /\ poller' = Idle
  /\ form' = Closed
  /\ UNCHANGED <<file, up, ops, faults>>

Init ==
  /\ networks = AllDefault
  /\ order \in Orders
  /\ current = FirstDefault
  /\ file = [networks |-> AllDefault, current |-> FirstDefault]
  /\ announced = Ids0(AllDefault) /\ untold = {} /\ lastWrite = "ok"
  /\ spawned = <<>>
  /\ inbox = [r \in Receivers |-> <<>>]
  /\ poller = Idle
  /\ form = Closed
  /\ up \in [Urls -> {"up", "down"}]
  /\ ops = 0 /\ faults = 0 /\ restarts = 0

User == \/ NetworksSetCurrent \/ NetworksAdd \/ OpenForm \/ NetworksUpdate
        \/ NetworksRemove \/ StackChange

Tasks == NotifyPeers \/ Receiver \/ PollBegin \/ PollApply

Next == User \/ Tasks \/ Flip \/ Lag \/ Restart

(* The tokio runtime runs every task that can run; the user and the
   endpoints owe nothing. *)
Fairness == WF_vars(NotifyPeers) /\ WF_vars(Receiver)
            /\ WF_vars(PollBegin) /\ WF_vars(PollApply)

Spec     == Init /\ [][Next]_vars
FairSpec == Spec /\ Fairness
------------------------------------------------------------------------------
(* Type correctness of the actor, its file, its tasks and its queues. *)
Msg ==
  [kind : {"ChainChanged"}, id : Ids, domain : Domains \cup {Absent},
   affinity : Affinities]
    \cup [kind : {"StackAdd", "StackRemove"}, name : Names, chain : Chains]

TypeOK ==
  /\ networks \in Map
  /\ order \in Orders
  /\ current \in Names
  /\ file \in [networks : Map, current : Names]
  /\ spawned \in Seq(Ids)
  /\ inbox["networks"] \in Seq(Msg)
  /\ poller \in {Idle} \cup [state : {"polling"}, copy : Map]
  /\ form \in {Closed} \cup [state : {"open"}, old : Names, net : Net]
  /\ up \in [Urls -> {"up", "down", "silent"}]
  /\ announced \subseteq Ids /\ untold \subseteq Ids /\ lastWrite \in {"ok", "failed"}
  /\ {ops, faults, restarts} \subseteq Nat

(* A crash after any handler loses nothing: networks.json holds the map and
   the current name of the actor, unless the last write of it failed.  The
   exception is `remove` of the last network, which fails between the change
   of the map and save(). *)
Persisted ==
  \/ file = [networks |-> networks, current |-> current]
  \/ lastWrite = "failed"
  \/ Present = {}

(* Every network the actor holds was announced to the subscribers by
   broadcast_init, network_added or network_updated in this process, also
   one that the poller put back from its copy or a stale form saved again,
   except where a failed write kept its announcement back. *)
Announced == \A n \in Present : networks[n].id \in announced \cup untold

(* A switch is announced as ChainChanged, which the receiver feeds back into
   set_current, which may announce again: the echo never multiplies, there
   are never more of them in flight than there were user operations. *)
InFlight == Len(spawned) + Len(inbox["networks"])

EchoBounded == InFlight <= ops

(* As long as switches do not overlap, the echo of each one dies out instead
   of switching the wallet back and forth for ever: set_current announces
   only a switch to another network.  (With two echoes in flight the current
   network may alternate between the two for ever.) *)
EchoDies == [](InFlight <= 1) => <>[](InFlight = 0)

(* Once the user and the endpoints are quiet, every network whose endpoint
   answers or refuses ends up, and stays, with the status it really has,
   whatever copies the poller held when it was overtaken. *)
StatusRight(net) ==
  \/ up[net.http_url] = "silent"
  \/ up[net.http_url] = "up" /\ net.status = "Online"
  \/ up[net.http_url] = "down" /\ net.status = "Offline"

StatusConverges == <>[](\A n \in Present : StatusRight(networks[n]))
==============================================================================
