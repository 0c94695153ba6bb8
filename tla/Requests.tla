------------------------------ MODULE Requests -------------------------------
(***************************************************************************)
(* The requests of web pages and of the program's own window that act in   *)
(* the user's name (crates/rpc), and the websocket connections over which  *)
(* the pages send them (crates/ws).                                        *)
(*                                                                         *)
(* A connection's task serves one request at a time: it captures what it   *)
(* needs of wallets and networks, checks it, opens a window that shows     *)
(* (part of) what it is about to do, and acts when the user accepts.       *)
(* Every answer of the window is a command of its own, so that answers may *)
(* overtake one another on their way (crates/dialogs).  Meanwhile the user *)
(* switches wallets and networks, and pages come and go.                   *)
(***************************************************************************)
EXTENDS Naturals, FiniteSets

CONSTANTS Conns,       \* websocket connections, each used once
          UI,          \* the slot of rpc_send_transaction
          Addresses,   \* addresses a transaction may name
          Wallets,     \* the ones that are in a wallet
          DevWallets,  \* those of development wallets
          Chains, DevChains,
          Names,       \* names of networks
          Data,        \* contents of transactions and messages, tokens
          Values, Zero, \* amounts a transaction may send, and none
          Contract,    \* token -> its contract
          Owners,      \* <<chain, token, address>> of the NFTs there are
          Calls,       \* the requests pages send
          FirstNets, FirstName,
          None,
          Budgets  \* bounds: the requests, moves and answers of a behaviour

Slots == Conns \cup {UI}

ASSUME RequestsAssumption ==
  /\ UI \notin Conns
  /\ DevWallets \subseteq Wallets /\ Wallets \subseteq Addresses
  /\ None \notin Addresses \cup Chains \cup Names \cup Data \cup Values
  /\ Zero \in Values

Tokens == {"erc20", "erc721", "erc1155"}

Kinds == {"tx", "sign", "add", "switch"} \cup Tokens

Deeds == [kind : Kinds, chain : Chains \cup {None}, wallet : Addresses \cup {None},
          data : Data \cup Names \cup {None}, value : Values \cup {None}]

Networks == [name : Data \cup Names \cup {None}, chain : Chains \cup {None}, dedup : Nat]

ASSUME FirstAssumption ==
  /\ FirstNets \subseteq Networks /\ IsFiniteSet(FirstNets)
  /\ \A n, k \in FirstNets : n.name = k.name => n = k   \* they are a map by name
  /\ \E n \in FirstNets : n.name = FirstName

NoDeed == [kind |-> "tx", chain |-> None, wallet |-> None, data |-> None, value |-> None]

ASSUME CallsAssumption ==
  Calls \subseteq [kind : {"tx", "sign", "add", "update"} \cup Tokens,
                   chain : Chains \cup {None}, wallet : Addresses \cup {None},
                   data : Data \cup Names, value : Values]

Moves == {"wallet", "fast", "network", "remove", "stick", "leave"}

ASSUME BudgetsAssumption ==
  Budgets \subseteq [calls : SUBSET Calls, moves : SUBSET Moves, answers : Nat]

VARIABLES pc,      \* slot -> how far its request is
          req,     \* slot -> the request
          held,    \* slot -> the deed its handler will do
          dedup,   \* slot -> dedup id ChainUpdate has read
          window,  \* slot -> its dialog's window
          seen,    \* slot -> the parts of a deed that window has shown
          clicked, \* slot -> the user has clicked accept in it
          sent,    \* slot -> answers of the window on their way
          done, count,  \* what was done, and how often
          nets, cur,    \* the networks and the current one
          wallet,       \* address of the current wallet
          fast,         \* settings.fast_mode
          affinity,     \* connection -> chain its site is stuck to, or None
          stored,       \* tokens in the database
          moved,        \* slot -> the current chain changed as TokenAdd read it
          socket,  \* connection -> its socket, as the page left it
          task,    \* connection -> its accept task
          peers,   \* connection -> its entry in Peers.map
          left     \* what is left of the budget

serving  == <<pc, req, held, dedup, window, seen, clicked, sent>>
deedVars == <<done, count>>
netVars  == <<nets, cur, moved>>
world    == <<wallet, fast, affinity>>
peerVars == <<task, peers>>
vars == <<serving, deedVars, netVars, world, stored, socket, peerVars, left>>
------------------------------------------------------------------------------
(* What every window of a kind shows of a deed: tx-review the sender and the
   network, chain-add and chain-switch the network; msg-sign and the windows
   for tokens show neither wallet nor chain. *)
Terms ==
  [d \in Deeds |->
     IF d.kind = "tx" THEN {<<"chain", d.chain>>, <<"wallet", d.wallet>>}
     ELSE IF d.kind \in {"add", "switch"} THEN {<<"chain", d.chain>>, <<"data", d.data>>}
     ELSE {<<"data", d.data>>}]

AnyPart ==
  {"chain", "wallet", "data", "value"} \X
    (Chains \cup Addresses \cup Names \cup Data \cup Values \cup {None})

(* What tx-review only shows, and lets the user change, in a form, for which
   the ABI of the contract must be known. *)
Parts(data, value) == {<<"data", data>>, <<"value", value>>}

Content == [d \in Deeds |-> IF d.kind = "tx" THEN Parts(d.data, d.value) ELSE {}]

(* SendTransaction::finish and SignMessage::finish skip the dialog, in fast
   mode, of development wallets on development networks. *)
Free == {d \in Deeds : d.kind \in {"tx", "sign"} /\ d.chain \in DevChains
                       /\ d.wallet \in DevWallets}

MaySkip(d) == d \in Free /\ fast

CurChain == (CHOOSE n \in nets : n.name = cur).chain

(* Ctx::chain_id; the program's own window has no affinity. *)
ChainOf(s) == IF s \in Conns /\ affinity[s] # None THEN affinity[s] ELSE CurChain

HasChain(chain) == \E n \in nets : n.chain = chain
HasName(name)   == \E n \in nets : n.name = name

DedupOf(name) == IF HasName(name) THEN (CHOOSE n \in nets : n.name = name).dedup ELSE 0

Record(d) == done' = done \cup {d} /\ count' = count + 1

(* The current network becomes n; `moved` notes the requests that compared
   the chain already and will read it once more. *)
SetCurrent(n) ==
  /\ cur' = n.name
  /\ moved' = [s \in Slots |-> moved[s] \/ (pc[s] = "chain" /\ n.chain # CurChain)]
------------------------------------------------------------------------------
At(s, here) == pc[s] = here

Goto(s, there) == pc' = [pc EXCEPT ![s] = there]

(* handle_message sends the reply; on a socket that is gone this may fail,
   which ends the task. *)
Reply(s) ==
  \/ UNCHANGED peerVars
  \/ /\ s \in Conns /\ socket[s] = "lost"
     /\ task' = [task EXCEPT ![s] = "done"]
     /\ peers' = [peers EXCEPT ![s] = "absent"]

(* The dialog, if any, is dropped, and its window closed. *)
Dismiss(s) ==
  /\ window' = [window EXCEPT ![s] = "none"]
  /\ seen' = [seen EXCEPT ![s] = {}]
  /\ clicked' = [clicked EXCEPT ![s] = FALSE]
  /\ sent' = [sent EXCEPT ![s] = {}]

Reset(s) ==
  /\ Dismiss(s)
  /\ req' = [req EXCEPT ![s] = NoDeed]
  /\ held' = [held EXCEPT ![s] = NoDeed]
  /\ dedup' = [dedup EXCEPT ![s] = 0]

Finish(s) == Goto(s, "idle") /\ Reset(s) /\ Reply(s)

(* The handler returns without having done anything. *)
Return(s) == Finish(s) /\ UNCHANGED <<deedVars, netVars, stored>>

(* ctx.network() panics: nobody replies, and remove_peer is not reached. *)
Panic(s) ==
  /\ Goto(s, "idle") /\ Reset(s)
  /\ task' = [task EXCEPT ![s] = "panicked"]
  /\ UNCHANGED <<peers, deedVars, netVars, stored>>

(* The answers a window can give; an update has a new data, a new value, or
   both. *)
Update(data, value) == [event |-> "update", data |-> data, value |-> value]

Answer(event) == [event |-> event, data |-> None, value |-> None]

Answers == [event : {"simulate", "accept", "other", "close", "update"},
            data : Data \cup {None}, value : Values \cup {None}]

(* Dialog::new and open; tx-review asks for a simulation as it appears. *)
Open(s, d) ==
  /\ Goto(s, "dialog")
  /\ held' = [held EXCEPT ![s] = d]
  /\ window' = [window EXCEPT ![s] = "open"]
  /\ seen' = [seen EXCEPT ![s] = Terms[d]]
  /\ sent' = [sent EXCEPT ![s] = IF d.kind = "tx" THEN {Answer("simulate")} ELSE {}]
  /\ UNCHANGED <<req, dedup, clicked, deedVars, netVars, stored, peerVars>>

(* One more step before the window. *)
Proceed(s, d, there) ==
  /\ Goto(s, there)
  /\ held' = [held EXCEPT ![s] = d]
  /\ UNCHANGED <<req, window, seen, clicked, sent, deedVars, netVars, stored, peerVars>>
------------------------------------------------------------------------------
Deed(s, kind, chain, w) ==
  [kind |-> kind, chain |-> chain, wallet |-> w, data |-> req[s].data, value |-> req[s].value]

(* SendTransaction::get_from_address; messages are signed by the current
   wallet. *)
From(s) == IF req[s].kind = "sign" \/ req[s].wallet = None THEN wallet ELSE req[s].wallet

(* SendTransaction::build (and rpc_send_transaction), EthSign::build and
   EthSignTypedData::build: the sender and the network are captured. *)
BuildSigning(s) ==
  /\ req[s].kind \in {"tx", "sign"}
  /\ IF HasChain(ChainOf(s))
     THEN /\ Proceed(s, Deed(s, req[s].kind, ChainOf(s), From(s)), "check")
          /\ UNCHANGED dedup
     ELSE s \in Conns /\ Panic(s)

(* ChainAdd::run: a chain that is known is not added again. *)
BuildAdd(s) ==
  /\ req[s].kind = "add"
  /\ IF HasChain(req[s].chain) THEN Return(s)
     ELSE Open(s, Deed(s, "add", req[s].chain, None))

(* ChainUpdate::build_network reads the dedup id of the name it was given. *)
BuildUpdate(s) ==
  /\ req[s].kind = "update"
  /\ Proceed(s, Deed(s, "add", req[s].chain, None), "check")
  /\ dedup' = [dedup EXCEPT ![s] = DedupOf(req[s].data)]

(* TokenAdd::check_network *)
BuildToken(s) ==
  /\ req[s].kind \in Tokens
  /\ IF req[s].chain \in {None, CurChain}
     THEN Proceed(s, NoDeed, "chain") /\ UNCHANGED dedup
     ELSE Return(s)

Build(s) ==
  /\ At(s, "build")
  /\ BuildSigning(s) \/ BuildAdd(s) \/ BuildUpdate(s) \/ BuildToken(s)

(* TokenAdd::run reads the current chain a second time. *)
ReadChain(s) ==
  /\ At(s, "chain") /\ req[s].kind \in Tokens
  /\ Proceed(s, Deed(s, req[s].kind, CurChain, None), "check")
  /\ UNCHANGED dedup

(* finish: a sender in no wallet is an error; what may skip the dialog is
   done, or fails. *)
CheckSigning(s) ==
  /\ held[s].kind \in {"tx", "sign"}
  /\ IF held[s].wallet \notin Wallets THEN Return(s)
     ELSE IF ~MaySkip(held[s]) THEN Open(s, held[s])
     ELSE \/ Return(s)
          \/ Finish(s) /\ Record(held[s]) /\ UNCHANGED <<netVars, stored>>

(* ChainUpdate: nothing to do on the current chain; an unknown name is added
   first. *)
CheckUpdate(s) ==
  /\ req[s].kind = "update"
  /\ IF CurChain = req[s].chain THEN Return(s)
     ELSE IF HasName(req[s].data) THEN Proceed(s, NoDeed, "switch") /\ UNCHANGED dedup
     ELSE Open(s, held[s])

(* check_erc_owner asks who owns anything of the token's contract. *)
OwnsOfContract(chain, x, w) ==
  \E y \in Data : Contract[y] = Contract[x] /\ <<chain, y, w>> \in Owners

(* TokenAdd: the metadata may not be found, and an NFT is only added for an
   owner.  The wallet is the one that is current now; an ERC-1155 goes on to
   get_erc1155_balances. *)
CheckTokenNoOwner(s) ==
  /\ req[s].kind \in Tokens
  /\ \/ Return(s)
     \/ Open(s, [held[s] EXCEPT !.wallet = wallet])

CheckToken(s) ==
  /\ req[s].kind \in Tokens
  /\ LET d == [held[s] EXCEPT !.wallet = wallet] IN
     \/ Return(s)
     \/ req[s].kind = "erc20" /\ Open(s, d)
     \/ /\ req[s].kind # "erc20" /\ OwnsOfContract(d.chain, d.data, wallet)
        /\ IF req[s].kind = "erc721" THEN Open(s, d)
           ELSE Proceed(s, d, "balance") /\ UNCHANGED dedup

(* get_erc1155_balances reads the wallet a second time, and looks for the
   token itself. *)
CheckBalance(s) ==
  /\ At(s, "balance")
  /\ LET d == [held[s] EXCEPT !.wallet = wallet] IN
     Return(s) \/ (<<d.chain, d.data, wallet>> \in Owners /\ Open(s, d))

Check(s) ==
  /\ At(s, "check")
  /\ IF req[s].kind \in {"tx", "sign"} THEN CheckSigning(s)
     ELSE CheckUpdate(s) \/ CheckToken(s)

(* ChainUpdate's second window. *)
AskSwitch(s) ==
  /\ At(s, "switch")
  /\ Open(s, [NoDeed EXCEPT !.kind = "switch", !.chain = req[s].chain])
------------------------------------------------------------------------------
(* SendTransaction::update sets the fields that are there. *)
Or(x, y) == IF x = None THEN y ELSE x

EditedWhole(d, m) == [d EXCEPT !.data = m.data, !.value = m.value]

Edited(d, m) == [d EXCEPT !.data = Or(m.data, @), !.value = Or(m.value, @)]

Sends(s, m) == sent' = [sent EXCEPT ![s] = @ \cup {m}]

Shows(s, parts) == seen' = [seen EXCEPT ![s] = @ \cup parts]

Visible(s) == window[s] \in {"open", "form"}

(* The ABI arrives, if there is one, and tx-review renders the form. *)
ShowForm(s) ==
  /\ window[s] = "open" /\ held[s].kind = "tx"
  /\ window' = [window EXCEPT ![s] = "form"]
  /\ Shows(s, Content[held[s]])
  /\ UNCHANGED <<pc, req, held, dedup, clicked, sent, deedVars, netVars, world, stored,
                 socket, peerVars, left>>

(* The user accepts, rejects, *)
Click(s) ==
  /\ Visible(s)
  /\ \/ /\ Sends(s, Answer("accept"))
        /\ clicked' = [clicked EXCEPT ![s] = TRUE]
     \/ Sends(s, Answer("other")) /\ UNCHANGED clicked
  /\ UNCHANGED <<pc, req, held, dedup, window, seen>>

(* edits the transaction, of which the form may have a part only: then the
   window says no data, or a value of 0, *)
Edit(s) ==
  /\ window[s] = "form" /\ held[s].kind = "tx"
  /\ \E x \in Data \cup {None}, v \in Values \cup {None} :
       /\ Sends(s, Update(x, v))
       /\ Shows(s, Parts(x, Or(v, Zero)))
  /\ UNCHANGED <<pc, req, held, dedup, window, clicked>>

(* or closes the window. *)
CloseWindow(s) ==
  /\ Visible(s)
  /\ window' = [window EXCEPT ![s] = "closed"]
  /\ Sends(s, Answer("close"))
  /\ UNCHANGED <<pc, req, held, dedup, seen, clicked>>

UserAnswers(s) ==
  /\ left.answers > 0 /\ left' = [left EXCEPT !.answers = @ - 1]
  /\ Click(s) \/ Edit(s) \/ CloseWindow(s)
  /\ UNCHANGED <<deedVars, netVars, world, stored, socket, peerVars>>

(* The handler goes on waiting for the window. *)
Waits(s, m, d) ==
  /\ sent' = [sent EXCEPT ![s] = @ \ {m}]
  /\ held' = [held EXCEPT ![s] = d]
  /\ UNCHANGED <<pc, req, dedup, window, seen, clicked, deedVars, netVars, stored, peerVars>>

Accepts(s, m) ==
  /\ sent' = [sent EXCEPT ![s] = @ \ {m}]
  /\ Goto(s, "act")
  /\ UNCHANGED <<req, held, dedup, window, seen, clicked, deedVars, netVars, stored, peerVars>>

(* The match on the message received: tx-review knows all events and takes
   an unknown one for a rejection, as msg-sign does; the other windows'
   loops only know accept and Close.  The end of the channel, on which
   dialog_and_send's loop would fall through and send, never comes: the
   dialog the handler holds has the sender. *)
ReceiveAnyData(s, m) ==
  \/ m.event \in {"accept", "other"} /\ Accepts(s, m)
  \/ m.event = "close" /\ Return(s)
  \/ m.event = "simulate" /\ (Waits(s, m, held[s]) \/ Return(s))
  \/ m.event = "update" /\ (Waits(s, m, Edited(held[s], m)) \/ Return(s))

Receive(s, m) ==
  \/ m.event = "accept" /\ Accepts(s, m)
  \/ m.event = "close" /\ Return(s)
  \/ /\ m.event = "other"
     /\ IF held[s].kind \in {"tx", "sign"} THEN Return(s) ELSE Waits(s, m, held[s])
  \/ m.event = "simulate" /\ (Waits(s, m, held[s]) \/ Return(s))
  \/ m.event = "update" /\ (Waits(s, m, Edited(held[s], m)) \/ Return(s))

Recv(s) == At(s, "dialog") /\ \E m \in sent[s] : Receive(s, m)
------------------------------------------------------------------------------
(* SendTransaction::send and SignMessage::sign.  The wallet is looked up once
   more, by its name: a name that has gone is a failure (Act), and another
   wallet of that name changes nothing of the deed, whose sender is fixed in
   the request. *)
ActSigning(s) ==
  /\ held[s].kind \in {"tx", "sign"}
  /\ Finish(s) /\ Record(held[s])
  /\ UNCHANGED <<netVars, stored>>

(* networks().add, after which ChainUpdate goes on to its second window. *)
ActAdd(s) ==
  /\ held[s].kind = "add"
  /\ LET n == [name |-> held[s].data, chain |-> held[s].chain,
               dedup |-> Cardinality({k \in nets : k.chain = held[s].chain})] IN
     IF HasName(n.name) \/ (n.chain \notin DevChains
                            /\ \E k \in nets : k.chain = n.chain /\ k.dedup = n.dedup)
     THEN Return(s)
     ELSE /\ nets' = nets \cup {n} /\ Record(held[s])
          /\ IF req[s].kind = "update"
             THEN /\ Goto(s, "switch") /\ Dismiss(s)
                  /\ held' = [held EXCEPT ![s] = NoDeed]
                  /\ UNCHANGED <<req, dedup, peerVars>>
             ELSE Finish(s)
          /\ UNCHANGED <<cur, moved, stored>>

(* networks().set_current with the id made of the dedup id read at first. *)
ActSwitch(s) ==
  /\ held[s].kind = "switch"
  /\ LET ids == {n \in nets : n.chain = held[s].chain /\ n.dedup = dedup[s]} IN
     IF ids = {} THEN Return(s)
     ELSE /\ \E n \in ids : SetCurrent(n)
          /\ Finish(s) /\ Record(held[s])
          /\ UNCHANGED <<nets, stored>>

(* on_accept_erc20, on_accept_erc721 and on_accept_erc1155 store for the
   wallet that is current by now. *)
ActToken(s) ==
  /\ held[s].kind \in Tokens
  /\ LET d == [held[s] EXCEPT !.wallet = wallet] IN
     stored' = stored \cup {d} /\ Record(d)
  /\ Finish(s)
  /\ UNCHANGED netVars

(* The accepted deed is done, or fails: no provider, no signature, no
   answer. *)
Act(s) ==
  /\ At(s, "act")
  /\ Return(s) \/ ActSigning(s) \/ ActAdd(s) \/ ActSwitch(s) \/ ActToken(s)

Serve(s) ==
  /\ \/ Build(s) \/ ReadChain(s) \/ Check(s) \/ CheckBalance(s) \/ AskSwitch(s)
     \/ Recv(s) \/ Act(s)
  /\ UNCHANGED <<world, socket, left>>
------------------------------------------------------------------------------
(* A request: of a page, whose first one marks the peer alive, or of the
   program's own window. *)
Call(s) ==
  /\ At(s, "idle")
  /\ \/ /\ s \in Conns /\ task[s] = "loop" /\ socket[s] = "up"
        /\ peers' = [peers EXCEPT ![s] = "alive"]
     \/ s = UI /\ UNCHANGED peers
  /\ \E r \in left.calls :
       /\ left' = [left EXCEPT !.calls = @ \ {r}]
       /\ s = UI => r.kind = "tx"
       /\ req' = [req EXCEPT ![s] = r]
  /\ Goto(s, "build")
  /\ moved' = [moved EXCEPT ![s] = FALSE]
  /\ UNCHANGED <<held, dedup, window, seen, clicked, sent, deedVars, nets, cur, world,
                 stored, socket, task>>

(* accept: add_peer, then the loop of handle. *)
Accept(c) ==
  /\ socket[c] = "new" /\ socket' = [socket EXCEPT ![c] = "up"]
  /\ task' = [task EXCEPT ![c] = "loop"]
  /\ peers' = [peers EXCEPT ![c] = "silent"]
  /\ UNCHANGED <<serving, deedVars, netVars, world, stored, left>>

(* The page closes the connection, or is gone without a word. *)
Leave(c) ==
  /\ socket[c] = "up" /\ "leave" \in left.moves
  /\ \E end \in {"closed", "lost"} : socket' = [socket EXCEPT ![c] = end]
  /\ left' = [left EXCEPT !.moves = @ \ {"leave"}]
  /\ UNCHANGED <<serving, deedVars, netVars, world, stored, peerVars>>

(* The loop, between two requests, reads the Close frame; that a socket is
   gone shows when a ping cannot be sent. *)
NoticesClose(c) == socket[c] = "closed"
Notices(c)      == socket[c] \in {"closed", "lost"}

EndLoop(c) ==
  /\ task[c] = "loop" /\ At(c, "idle") /\ Notices(c)
  /\ task' = [task EXCEPT ![c] = "done"]
  /\ peers' = [peers EXCEPT ![c] = "absent"]
  /\ UNCHANGED <<serving, deedVars, netVars, world, stored, socket, left>>
------------------------------------------------------------------------------
(* What goes on around the requests: the user switches the wallet, fast mode
   or the network, or removes a network; a site is stuck to a chain by
   wallet_switchEthereumChain, and let go of after a removal. *)
SwitchWallet == \E w \in Wallets \ {wallet} : wallet' = w

SwitchNetwork == \E n \in nets : n.name # cur /\ SetCurrent(n)

RemoveNetwork ==
  \E n, k \in nets :
    /\ n # k /\ nets' = nets \ {n}
    /\ IF n.name = cur THEN SetCurrent(k) ELSE UNCHANGED <<cur, moved>>

Stick(c) == \E n \in nets : affinity' = [affinity EXCEPT ![c] = n.chain]

Forgets(c) ==
  /\ affinity[c] # None /\ ~HasChain(affinity[c])
  /\ affinity' = [affinity EXCEPT ![c] = None]

Move ==
  /\ \E kind \in left.moves :
       /\ left' = [left EXCEPT !.moves = @ \ {kind}]
       /\ \/ kind = "wallet" /\ SwitchWallet /\ UNCHANGED <<netVars, fast, affinity>>
          \/ kind = "fast" /\ fast' = ~fast /\ UNCHANGED <<netVars, wallet, affinity>>
          \/ kind = "network" /\ SwitchNetwork /\ UNCHANGED <<nets, world>>
          \/ kind = "remove" /\ RemoveNetwork /\ UNCHANGED world
          \/ /\ kind = "stick" /\ UNCHANGED <<netVars, wallet, fast>>
             /\ \E c \in Conns : task[c] = "loop" /\ Stick(c)
  /\ UNCHANGED <<serving, deedVars, stored, socket, peerVars>>

ForgetAffinity(c) ==
  /\ Forgets(c)
  /\ UNCHANGED <<serving, deedVars, netVars, wallet, fast, stored, socket, peerVars, left>>

Init ==
  /\ pc = [s \in Slots |-> "idle"]
  /\ req = [s \in Slots |-> NoDeed] /\ held = [s \in Slots |-> NoDeed]
  /\ dedup = [s \in Slots |-> 0]
  /\ window = [s \in Slots |-> "none"] /\ seen = [s \in Slots |-> {}]
  /\ clicked = [s \in Slots |-> FALSE] /\ sent = [s \in Slots |-> {}]
  /\ done = {} /\ count = 0
  /\ nets = FirstNets /\ cur = FirstName /\ moved = [s \in Slots |-> FALSE]
  /\ wallet \in Wallets /\ fast \in BOOLEAN /\ affinity = [c \in Conns |-> None]
  /\ stored = {}
  /\ socket = [c \in Conns |-> "new"] /\ task = [c \in Conns |-> "none"]
  /\ peers = [c \in Conns |-> "absent"]
  /\ left \in Budgets

Next ==
  \/ \E s \in Slots : Call(s) \/ Serve(s) \/ ShowForm(s) \/ UserAnswers(s)
  \/ \E c \in Conns : Accept(c) \/ Leave(c) \/ EndLoop(c) \/ ForgetAffinity(c)
  \/ Move

(* Tasks run when they can; node, signer and disk answer in the end.  Users
   and pages owe nothing. *)
Fairness ==
  /\ \A s \in Slots : WF_vars(Serve(s))
  /\ \A c \in Conns : WF_vars(EndLoop(c))

Spec     == Init /\ [][Next]_vars
FairSpec == Spec /\ Fairness
------------------------------------------------------------------------------
(* Type correctness of requests, windows, connections and their world; there
   always is a current network. *)
RequestTypes ==
  /\ pc \in [Slots -> {"idle", "build", "chain", "check", "balance", "dialog", "act", "switch"}]
  /\ held \in [Slots -> Deeds] /\ req \in [Slots -> Calls \cup {NoDeed}]
  /\ dedup \in [Slots -> Nat]
  /\ window \in [Slots -> {"none", "open", "form", "closed"}]
  /\ seen \in [Slots -> SUBSET AnyPart] /\ clicked \in [Slots -> BOOLEAN]
  /\ sent \in [Slots -> SUBSET Answers]

WorldTypes ==
  /\ nets \subseteq Networks /\ IsFiniteSet(nets) /\ HasName(cur)
  /\ wallet \in Wallets /\ fast \in BOOLEAN
  /\ affinity \in [Conns -> Chains \cup {None}] /\ moved \in [Slots -> BOOLEAN]
  /\ left \in [calls : SUBSET Calls, moves : SUBSET Moves, answers : Nat]

TypeOK ==
  /\ RequestTypes /\ WorldTypes
  /\ done \subseteq Deeds /\ count \in Nat /\ stored \subseteq Deeds
  /\ socket \in [Conns -> {"new", "up", "closed", "lost"}]
  /\ task \in [Conns -> {"none", "loop", "done", "panicked"}]
  /\ peers \in [Conns -> {"absent", "silent", "alive"}]

(* The content of the request being served. *)
Asked(s) == IF pc[s] = "idle" THEN {} ELSE Parts(req[s].data, req[s].value)

AllAsked == [s \in Slots |-> Asked(s)]

(* The sender and the network of what a handler waits to do are shown by its
   window; each part of its content, and each that an edit on its way would
   put there, was shown by that window or is what the page asked for, in
   whatever order the answers arrive.  It acts only after the user has clicked
   accept in that very window; and a handler without a window has left no
   trace of an earlier one, and holds what was asked for. *)
Shown(s) ==
  IF pc[s] \in {"dialog", "act"}
  THEN /\ Terms[held[s]] \subseteq seen[s]
       /\ Content[held[s]] \subseteq seen[s] \cup Asked(s)
       /\ \A m \in sent[s] :
            /\ m.event = "update" =>
                 /\ held[s].kind = "tx"
                 /\ m.data # None => <<"data", m.data>> \in seen[s]
                 /\ m.value # None => <<"value", m.value>> \in seen[s]
            /\ m.event = "accept" => clicked[s]
       /\ pc[s] = "act" => clicked[s]
  ELSE /\ window[s] = "none" /\ seen[s] = {} /\ ~clicked[s]
       /\ pc[s] \in {"check", "balance"} => Content[held[s]] \subseteq Asked(s)

HoldsShown == \A s \in Slots : Shown(s)

(* The requests implement the promise of Consent. *)
C == INSTANCE Consent WITH asked <- AllAsked, offered <- seen, agreed <- clicked

Consents == C!Spec

(* A token is stored for the chain the page asked for, unless the current
   network changed just between the two times TokenAdd reads it.  The wallet
   that was current when it was checked owns an ERC-1155, and of an ERC-721
   something of the same contract - whichever wallet it is stored for. *)
OwnsAsChecked(kind, chain, x, w) ==
  \/ kind = "erc20"
  \/ kind = "erc721" /\ OwnsOfContract(chain, x, w)
  \/ kind = "erc1155" /\ <<chain, x, w>> \in Owners

StoresAsChecked ==
  \A d \in stored' \ stored :
    \E s \in Slots :
      /\ pc[s] = "act" /\ req[s].data = d.data
      /\ moved[s] \/ req[s].chain \in {None, d.chain}
      /\ OwnsAsChecked(d.kind, d.chain, d.data, held[s].wallet)

TokenAsChecked == [][StoresAsChecked]_vars

(* The entry of a page that has left goes away, however it left - unless its
   task panicked, or a window nobody answers keeps it. *)
GonePeerLeaves ==
  \A c \in Conns :
    socket[c] \in {"closed", "lost"} ~>
      (peers[c] = "absent" \/ task[c] = "panicked" \/ pc[c] = "dialog")
==============================================================================
