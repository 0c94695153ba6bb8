---------------------------- MODULE WalletConnect ----------------------------
(***************************************************************************)
(* WalletConnect sessions (crates/walletconnect): pairings with dApps, the *)
(* proposals that arrive on them, the sessions that are settled, and the   *)
(* requests, switches of account and ends of sessions.                     *)
(*                                                                         *)
(* Four maps are shared by all tasks, and each is locked only for a        *)
(* statement: every lock, every request to the relay and every wait for    *)
(* the user is a step.  A message can be delivered by the message loop and *)
(* again by the backlog that pair() fetches, each of which handles one     *)
(* message at a time.  Requests to the relay may fail.                     *)
(*                                                                         *)
(* A session has the number of the proposal task that settles it, since    *)
(* its topic is derived from a fresh key.  What a dApp knows is what was   *)
(* published to it.                                                        *)
(***************************************************************************)
EXTENDS Naturals, FiniteSets

CONSTANTS Pairings,      \* pairing topics, each with a proposal of its dApp
          Dispatchers,   \* the message loop and the backlog fetches
          Switches,      \* slots for calls of wc_switch_account
          Requests,      \* requests of dApps
          Addresses,     \* the accounts of the wallet
          None,          \* no account, no message
          MaxDeliveries, \* bound on the deliveries of proposals
          MaxOps,        \* bound on what user and dApps do
          MaxFails       \* bound on requests to the relay that fail

VARIABLES pairings,   \* PAIRINGS
          pairing,    \* pairing -> a call of pair() waits for the relay
          subscribed, \* pairing topics the relay delivers
          inFlight,   \* IN_FLIGHT_PROPOSALS
          dispatcher, \* dispatcher -> the pairing whose key it has read
          task,       \* number -> the handle_proposal task
          spawned,    \* proposal tasks so far
          session,    \* SESSIONS: number -> its account, or None
          handlers,   \* SESSION_HANDLERS
          closing,    \* number, side -> where its end is
          switch,     \* slot -> the call of switch_account
          request,    \* request -> where it is
          account,    \* the current account of the wallet
          told,       \* number -> the account the dApp was told last
          deleted,    \* sessions that are over for the dApp
          unsettled,  \* history: ends that could not be applied
          mixed,      \* history: sessions with overlapping or failed switches
          deliveries, ops, fails

maps    == <<pairings, pairing, subscribed, inFlight>>
calls   == <<closing, switch, request>>
history == <<told, deleted, unsettled, mixed>>
vars    == <<maps, dispatcher, task, spawned, session, handlers, calls, account,
             history, deliveries, ops, fails>>

ASSUME WalletConnectAssumption ==
  /\ None \notin Addresses \cup Pairings /\ Addresses # {}
  /\ {MaxDeliveries, MaxOps, MaxFails} \subseteq Nat

Numbers == 1 .. MaxDeliveries
Sides   == {"peer", "user"}
Idle    == [pc |-> "idle"]

Stored(t) == session[t] # None
Op  == ops < MaxOps /\ ops' = ops + 1
Ok  == UNCHANGED fails
Err == fails < MaxFails /\ fails' = fails + 1
------------------------------------------------------------------------------
(* pair(): the key is stored, *)
PairStore(p) ==
  /\ pairing[p] = "idle" /\ Op
  /\ pairings' = pairings \cup {p}
  /\ pairing' = [pairing EXCEPT ![p] = "subscribe"]
  /\ UNCHANGED <<subscribed, inFlight, dispatcher, task, spawned, session, handlers,
                 calls, account, history, deliveries, fails>>

(* and dropped again when the relay cannot be asked to deliver. *)
PairSubscribe(p) ==
  /\ pairing[p] = "subscribe"
  /\ pairing' = [pairing EXCEPT ![p] = "idle"]
  /\ \/ Ok /\ subscribed' = subscribed \cup {p} /\ UNCHANGED pairings
     \/ Err /\ pairings' = pairings \ {p} /\ UNCHANGED subscribed
  /\ UNCHANGED <<inFlight, dispatcher, task, spawned, session, handlers, calls,
                 account, history, deliveries, ops>>

(* dispatch of a proposal: sym_key_for finds the pairing, or the message is
   dropped; *)
Deliver(d, p) ==
  /\ p \in subscribed /\ dispatcher[d] = None
  /\ deliveries < MaxDeliveries /\ deliveries' = deliveries + 1
  /\ dispatcher' = [dispatcher EXCEPT ![d] = IF p \in pairings THEN p ELSE None]
  /\ UNCHANGED <<maps, task, spawned, session, handlers, calls, account, history,
                 ops, fails>>

(* start_proposal: a second one on the same topic is ignored. *)
Spawn(p) == [task EXCEPT ![spawned + 1] = [pc |-> "check", pairing |-> p, account |-> None]]

StartUnguarded(d) ==
  /\ dispatcher[d] # None
  /\ dispatcher' = [dispatcher EXCEPT ![d] = None]
  /\ inFlight' = inFlight \cup {dispatcher[d]}
  /\ task' = Spawn(dispatcher[d]) /\ spawned' = spawned + 1
  /\ UNCHANGED <<pairings, pairing, subscribed, session, handlers, calls, account,
                 history, deliveries, ops, fails>>

StartProposal(d) ==
  /\ dispatcher[d] # None
  /\ dispatcher' = [dispatcher EXCEPT ![d] = None]
  /\ IF dispatcher[d] \in inFlight THEN UNCHANGED <<inFlight, task, spawned>>
     ELSE /\ inFlight' = inFlight \cup {dispatcher[d]}
          /\ task' = Spawn(dispatcher[d]) /\ spawned' = spawned + 1
  /\ UNCHANGED <<pairings, pairing, subscribed, session, handlers, calls, account,
                 history, deliveries, ops, fails>>
------------------------------------------------------------------------------
(* A step of the task that handles a proposal. *)
Goto(t, from, to) == task[t].pc = from /\ task' = [task EXCEPT ![t].pc = to]

(* A request to the relay: an error ends handle_proposal. *)
Ask(t, from, to) == \/ Ok /\ Goto(t, from, to)
                    \/ Err /\ Goto(t, from, "finish")

(* handle_proposal: the fields and the methods of the proposal, *)
CheckProposal(t) ==
  /\ \/ Goto(t, "check", "dialog")
     \/ Goto(t, "check", "reject")     \* a required method is not supported
     \/ Goto(t, "check", "finish")     \* a field is missing, or no window opens
  /\ UNCHANGED <<maps, dispatcher, spawned, session, handlers, calls, account,
                 history, deliveries, ops, fails>>

(* the user's answer, *)
AnswerProposal(t) ==
  /\ \/ Goto(t, "dialog", "subscribe")
     \/ Goto(t, "dialog", "reject")
  /\ UNCHANGED <<maps, dispatcher, spawned, session, handlers, calls, account,
                 history, deliveries, ops, fails>>

(* the answer to the dApp if it is no; *)
RejectProposal(t) ==
  /\ Ask(t, "reject", "remove")
  /\ UNCHANGED <<maps, dispatcher, spawned, session, handlers, calls, account,
                 history, deliveries, ops>>

(* settle_session: derive the new topic, if the dApp's key is one, and subscribe
   to it, *)
SubscribeSession(t) ==
  /\ \/ Ask(t, "subscribe", "account")
     \/ Ok /\ Goto(t, "subscribe", "finish")
  /\ UNCHANGED <<maps, dispatcher, spawned, session, handlers, calls, account,
                 history, deliveries, ops>>

(* take the account that is current now, *)
ReadAccount(t) ==
  /\ task[t].pc = "account"
  /\ task' = [task EXCEPT ![t].pc = "respond", ![t].account = account]
  /\ UNCHANGED <<maps, dispatcher, spawned, session, handlers, calls, account,
                 history, deliveries, ops, fails>>

(* respond on the pairing topic, *)
Respond(t) ==
  /\ Ask(t, "respond", "settle")
  /\ UNCHANGED <<maps, dispatcher, spawned, session, handlers, calls, account,
                 history, deliveries, ops>>

(* settle on the session topic, after which the dApp uses the session, *)
Settle(t) ==
  /\ Ask(t, "settle", "handler")
  /\ told' = IF fails' = fails THEN [told EXCEPT ![t] = task[t].account] ELSE told
  /\ UNCHANGED <<maps, dispatcher, spawned, session, handlers, calls, account,
                 deleted, unsettled, mixed, deliveries, ops>>

(* store the handler and then the session, *)
HandlerOnlyWithUrl(t) ==
  /\ Goto(t, "handler", "session")
  /\ \E url \in BOOLEAN : handlers' = IF url THEN handlers \cup {t} ELSE handlers
  /\ UNCHANGED <<maps, dispatcher, spawned, session, calls, account, history,
                 deliveries, ops, fails>>

InsertHandler(t) ==
  /\ Goto(t, "handler", "session")
  /\ handlers' = handlers \cup {t}
  /\ UNCHANGED <<maps, dispatcher, spawned, session, calls, account, history,
                 deliveries, ops, fails>>

InsertCurrent(t) ==
  /\ Goto(t, "session", "remove")
  /\ session' = [session EXCEPT ![t] = account]
  /\ UNCHANGED <<maps, dispatcher, spawned, handlers, calls, account, history,
                 deliveries, ops, fails>>

InsertSession(t) ==
  /\ Goto(t, "session", "remove")
  /\ session' = [session EXCEPT ![t] = task[t].account]
  /\ UNCHANGED <<maps, dispatcher, spawned, handlers, calls, account, history,
                 deliveries, ops, fails>>

(* and forget the pairing. *)
RemovePairing(t) ==
  /\ Goto(t, "remove", "finish")
  /\ pairings' = pairings \ {task[t].pairing}
  /\ UNCHANGED <<pairing, subscribed, inFlight, dispatcher, spawned, session,
                 handlers, calls, account, history, deliveries, ops, fails>>

(* finish_proposal, however handle_proposal ended. *)
FinishUnlessFailed(t) ==
  /\ Goto(t, "finish", "over")
  /\ inFlight' = IF task[t].pairing \in pairings THEN inFlight
                 ELSE inFlight \ {task[t].pairing}
  /\ UNCHANGED <<pairings, pairing, subscribed, dispatcher, spawned, session,
                 handlers, calls, account, history, deliveries, ops, fails>>

FinishProposal(t) ==
  /\ Goto(t, "finish", "over")
  /\ inFlight' = inFlight \ {task[t].pairing}
  /\ UNCHANGED <<pairings, pairing, subscribed, dispatcher, spawned, session,
                 handlers, calls, account, history, deliveries, ops, fails>>
------------------------------------------------------------------------------
(* A request of the dApp: dispatch drops it unless the session is stored. *)
Become(r, state) == request' = [request EXCEPT ![r] = state]

DispatchRequest(r, t) ==
  /\ request[r] = Idle /\ told[t] # None /\ t \notin deleted /\ Op
  /\ Become(r, IF Stored(t) THEN [pc |-> "session", of |-> t]
               ELSE [pc |-> "dropped", of |-> t])
  /\ UNCHANGED <<maps, dispatcher, task, spawned, session, handlers, closing, switch,
                 account, history, deliveries, fails>>

(* handle_request: its id and its method or an error, the session as it is now,
   its expiry and its methods, *)
ReadSession(r) ==
  /\ request[r].pc = "session"
  /\ \E pc \in IF Stored(request[r].of) THEN {"failed", "handler", "refuse"}
                 ELSE {"failed", "unanswered"} :
       Become(r, [request[r] EXCEPT !.pc = pc])
  /\ UNCHANGED <<maps, dispatcher, task, spawned, session, handlers, closing, switch,
                 account, history, deliveries, ops, fails>>

(* then, if it is a request of JSON-RPC, its handler, *)
ReadHandler(r) ==
  /\ request[r].pc = "handler"
  /\ \E pc \in {"failed", IF request[r].of \in handlers THEN "running" ELSE "unanswered"} :
       Become(r, [request[r] EXCEPT !.pc = pc])
  /\ UNCHANGED <<maps, dispatcher, task, spawned, session, handlers, closing, switch,
                 account, history, deliveries, ops, fails>>

(* which takes as long as it takes, and the answer is published. *)
PublishAnswer(r) ==
  /\ request[r].pc \in {"running", "refuse"}
  /\ \/ Ok /\ Become(r, [request[r] EXCEPT !.pc = "answered"])
     \/ Err /\ Become(r, [request[r] EXCEPT !.pc = "failed"])
  /\ UNCHANGED <<maps, dispatcher, task, spawned, session, handlers, closing, switch,
                 account, history, deliveries, ops>>
------------------------------------------------------------------------------
(* wc_sessionDelete of the dApp: dropped unless the session is stored. *)
Close(t, side, pc) == closing' = [closing EXCEPT ![t][side] = pc]

PeerDelete(t) ==
  /\ told[t] # None /\ t \notin deleted /\ Op
  /\ deleted' = deleted \cup {t}
  /\ IF Stored(t) THEN Close(t, "peer", "session") /\ UNCHANGED unsettled
     ELSE unsettled' = unsettled \cup {t} /\ UNCHANGED closing
  /\ UNCHANGED <<maps, dispatcher, task, spawned, session, handlers, switch, request,
                 account, told, mixed, deliveries, fails>>

(* disconnect(): the dApp is told, *)
Disconnect(t) ==
  /\ Stored(t) /\ closing[t]["user"] = "idle" /\ Op
  /\ Close(t, "user", "publish")
  /\ UNCHANGED <<maps, dispatcher, task, spawned, session, handlers, switch, request,
                 account, history, deliveries, fails>>

PublishDelete(t) ==
  /\ closing[t]["user"] = "publish"
  /\ \/ Ok /\ Close(t, "user", "unsubscribe") /\ deleted' = deleted \cup {t}
     \/ Err /\ Close(t, "user", "idle") /\ UNCHANGED deleted
  /\ UNCHANGED <<maps, dispatcher, task, spawned, session, handlers, switch, request,
                 account, told, unsettled, mixed, deliveries, ops>>

(* the relay is asked to stop, *)
Unsubscribe(t) ==
  /\ closing[t]["user"] = "unsubscribe"
  /\ \/ Ok /\ Close(t, "user", "session") /\ UNCHANGED unsettled
     \/ Err /\ Close(t, "user", "idle") /\ unsettled' = unsettled \cup {t}
  /\ UNCHANGED <<maps, dispatcher, task, spawned, session, handlers, switch, request,
                 account, told, deleted, mixed, deliveries, ops>>

(* and the session and its handler are removed, as they are by the task that
   is spawned for a delete of the dApp. *)
RemoveSession(t, side) ==
  /\ closing[t][side] = "session"
  /\ session' = [session EXCEPT ![t] = None]
  /\ Close(t, side, "handler")
  /\ UNCHANGED <<maps, dispatcher, task, spawned, handlers, switch, request, account,
                 history, deliveries, ops, fails>>

RemoveHandler(t, side) ==
  /\ closing[t][side] = "handler"
  /\ handlers' = handlers \ {t}
  /\ Close(t, side, "idle")
  /\ UNCHANGED <<maps, dispatcher, task, spawned, session, switch, request, account,
                 history, deliveries, ops, fails>>
------------------------------------------------------------------------------
(* switch_account(): the session is read, *)
Switching(t) == \E s \in Switches : switch[s] # Idle /\ switch[s].of = t

SwitchAccount(s, t, a) ==
  /\ switch[s] = Idle /\ Stored(t) /\ Op
  /\ switch' = [switch EXCEPT ![s] = [pc |-> "update", of |-> t, account |-> a]]
  /\ mixed' = IF Switching(t) THEN mixed \cup {t} ELSE mixed
  /\ UNCHANGED <<maps, dispatcher, task, spawned, session, handlers, closing, request,
                 account, told, deleted, unsettled, deliveries, fails>>

(* the accounts and the event are published, *)
PublishSwitch(s) ==
  /\ switch[s].pc \in {"update", "event"}
  /\ LET t == switch[s].of IN
     \/ /\ Ok
        /\ told' = [told EXCEPT ![t] = switch[s].account]
        /\ switch' = [switch EXCEPT ![s].pc = IF @ = "update" THEN "event" ELSE "store"]
        /\ UNCHANGED mixed
     \/ /\ Err
        /\ switch' = [switch EXCEPT ![s] = Idle]
        /\ mixed' = mixed \cup {t}
        /\ UNCHANGED told
  /\ UNCHANGED <<maps, dispatcher, task, spawned, session, handlers, closing, request,
                 account, deleted, unsettled, deliveries, ops>>

(* and the account is stored, if the session is still there. *)
StoreInserts(s) ==
  /\ switch[s].pc = "store"
  /\ session' = [session EXCEPT ![switch[s].of] = switch[s].account]
  /\ switch' = [switch EXCEPT ![s] = Idle]
  /\ UNCHANGED <<maps, dispatcher, task, spawned, handlers, closing, request, account,
                 history, deliveries, ops, fails>>

StoreAccount(s) ==
  /\ switch[s].pc = "store"
  /\ session' = [session EXCEPT ![switch[s].of] =
                   IF @ = None THEN None ELSE switch[s].account]
  /\ switch' = [switch EXCEPT ![s] = Idle]
  /\ UNCHANGED <<maps, dispatcher, task, spawned, handlers, closing, request, account,
                 history, deliveries, ops, fails>>

(* The user selects another account in the wallet. *)
SelectAccount ==
  /\ Op
  /\ \E a \in Addresses \ {account} : account' = a
  /\ UNCHANGED <<maps, dispatcher, task, spawned, session, handlers, calls, history,
                 deliveries, fails>>
------------------------------------------------------------------------------
Init ==
  /\ pairings = {} /\ subscribed = {} /\ inFlight = {}
  /\ pairing = [p \in Pairings |-> "idle"]
  /\ dispatcher = [d \in Dispatchers |-> None]
  /\ task = [t \in Numbers |-> [pc |-> "none", pairing |-> None, account |-> None]]
  /\ spawned = 0
  /\ session = [t \in Numbers |-> None] /\ handlers = {}
  /\ closing = [t \in Numbers |-> [w \in Sides |-> "idle"]]
  /\ switch = [s \in Switches |-> Idle]
  /\ request = [r \in Requests |-> Idle]
  /\ account = CHOOSE a \in Addresses : TRUE
  /\ told = [t \in Numbers |-> None] /\ deleted = {} /\ unsettled = {} /\ mixed = {}
  /\ deliveries = 0 /\ ops = 0 /\ fails = 0

(* What the program does by itself once it is asked to. *)
ProposalStep(t) ==
  \/ CheckProposal(t) \/ RejectProposal(t) \/ SubscribeSession(t) \/ ReadAccount(t)
  \/ Respond(t) \/ Settle(t) \/ InsertHandler(t) \/ InsertSession(t)
  \/ RemovePairing(t) \/ FinishProposal(t)
CloseStep(t) ==
  \/ PublishDelete(t) \/ Unsubscribe(t)
  \/ \E w \in Sides : RemoveSession(t, w) \/ RemoveHandler(t, w)
SwitchStep(s)  == PublishSwitch(s) \/ StoreAccount(s)
RequestStep(r) == ReadSession(r) \/ ReadHandler(r)

Next ==
  \/ \E p \in Pairings : PairStore(p) \/ PairSubscribe(p)
  \/ \E d \in Dispatchers : StartProposal(d) \/ \E p \in Pairings : Deliver(d, p)
  \/ \E t \in Numbers : ProposalStep(t) \/ AnswerProposal(t) \/ CloseStep(t)
                        \/ Disconnect(t) \/ PeerDelete(t)
  \/ \E s \in Switches : SwitchStep(s)
                         \/ \E t \in Numbers, a \in Addresses : SwitchAccount(s, t, a)
  \/ \E r \in Requests : RequestStep(r) \/ PublishAnswer(r)
                         \/ \E t \in Numbers : DispatchRequest(r, t)
  \/ SelectAccount

(* The runtime runs every task; requests to the relay end, one way or the
   other.  The user need not answer a dialog, nor a handler return. *)
Fairness ==
  /\ \A d \in Dispatchers : WF_vars(StartProposal(d))
  /\ \A t \in Numbers : WF_vars(ProposalStep(t)) /\ WF_vars(CloseStep(t))
  /\ \A s \in Switches : WF_vars(SwitchStep(s))
  /\ \A r \in Requests : WF_vars(RequestStep(r))

Spec     == Init /\ [][Next]_vars
FairSpec == Spec /\ Fairness
------------------------------------------------------------------------------
(* What start_proposal is for: a proposal that is delivered twice never has
   two tasks, and two dialogs, at the same time. *)
Running(t) == task[t].pc \notin {"none", "over"}

OneDialog ==
  \A t, u \in Numbers :
    Running(t) /\ Running(u) /\ task[t].pairing = task[u].pairing => t = u

(* What settle_session says of its two maps: a request that has seen its
   session finds the handler.  A request that finds no session or no handler
   belongs to a session that has been removed in the meantime. *)
UnansweredIsGone ==
  \A r \in Requests : request[r].pc = "unanswered" => ~Stored(request[r].of)

(* What store.rs says of a session's address, the account exposed to the dApp:
   it is the one the dApp was told, from the settlement on and whatever account
   is selected in the wallet meanwhile, except during a switch and after
   switches that overlapped or failed halfway. *)
AccountExposed ==
  \A t \in Numbers \ mixed :
    Stored(t) /\ ~Switching(t) => session[t] = told[t]

(* What finish_proposal says: a later proposal on the same topic is not blocked
   for ever, whatever became of the first, unless the user leaves its dialog
   open. *)
ProposalReleased ==
  \A p \in Pairings :
    []<>(p \notin inFlight
         \/ \E t \in Numbers : task[t].pc = "dialog" /\ task[t].pairing = p)

(* A session that is over for the dApp is forgotten and does not come back,
   unless its end arrived before it was stored or the relay failed. *)
DeletedIsForgotten ==
  \A t \in Numbers : (t \in deleted) ~> [](~Stored(t) \/ t \in unsettled)
==============================================================================
