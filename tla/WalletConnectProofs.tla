------------------------- MODULE WalletConnectProofs -------------------------
(***************************************************************************)
(* That a proposal never has two dialogs, that a request is only left      *)
(* without an answer when its session is gone, that a dApp knows the       *)
(* account of its session, and that a session that was deleted goes and    *)
(* stays away, for any number of pairings, deliveries, requests and calls, *)
(* and with a relay that may fail.                                         *)
(*                                                                         *)
(* OneDialog is not inductive: Owned adds that a running task holds the    *)
(* mark of its pairing.  UnansweredIsGone is not either: a session that    *)
(* was removed must not be stored again.  AfterSettled says that whatever  *)
(* knows a session came after its task had stored it.  AccountExposed      *)
(* needs what the dApp was told at every step on the way to a stored       *)
(* account: while a task settles (SettledAs) and while a switch runs       *)
(* (SwitchedTo), which is alone unless the session is recorded as mixed    *)
(* (Alone) and came after the settlement (SwitchAfter).                    *)
(***************************************************************************)
EXTENDS WalletConnect, TLAPS

Pcs == {"none", "check", "dialog", "reject", "subscribe", "account", "respond",
        "settle", "handler", "session", "remove", "finish", "over"}

Types ==
  /\ dispatcher \in [Dispatchers -> Pairings \cup {None}]
  /\ task \in [Numbers -> [pc : Pcs, pairing : Pairings \cup {None},
                           account : Addresses \cup {None}]]
  /\ spawned \in Nat
  /\ session \in [Numbers -> Addresses \cup {None}] /\ handlers \subseteq Numbers
  /\ closing \in [Numbers -> [Sides -> {"idle", "publish", "unsubscribe", "session",
                                        "handler"}]]
  /\ switch \in [Switches -> {Idle} \cup
       [pc : {"update", "event", "store"}, of : Numbers, account : Addresses]]
  /\ request \in [Requests -> {Idle} \cup
       [pc : {"dropped", "session", "handler", "refuse", "running", "unanswered",
              "answered", "failed"}, of : Numbers]]
  /\ account \in Addresses

Fresh == \A t \in Numbers : t > spawned => task[t].pc = "none"

Owned == \A t \in Numbers : Running(t) => task[t].pairing \in inFlight

(* The task of t can no longer store a session. *)
Settled(t) == task[t].pc \in {"remove", "finish", "over"}

AfterSettled ==
  /\ \A t \in Numbers : Stored(t) => Settled(t)
  /\ \A t \in Numbers, w \in Sides : closing[t][w] # "idle" => Settled(t)
  /\ \A r \in Requests :
       request[r].pc \notin {"idle", "dropped"} => Settled(request[r].of)

HandlerFirst ==
  \A t \in Numbers : Stored(t) \/ task[t].pc = "session" => t \in handlers

HandlerLast ==
  \A t \in Numbers, w \in Sides : closing[t][w] = "handler" => ~Stored(t)

Proposals == Fresh /\ Owned /\ OneDialog
Sessions  == AfterSettled /\ HandlerFirst /\ HandlerLast /\ UnansweredIsGone
Inv       == Types /\ Proposals /\ Sessions
------------------------------------------------------------------------------
(* Nothing is there in the beginning. *)
LEMMA InitInv == Init => Inv
<1> SUFFICES ASSUME Init PROVE Inv
  OBVIOUS
<1>1. \A t \in Numbers : task[t].pc = "none" /\ session[t] = None
  BY DEF Init
<1>2. \A t \in Numbers, w \in Sides : closing[t][w] = "idle"
  BY DEF Init
<1>3. \A r \in Requests : request[r].pc = "idle"
  BY DEF Init, Idle
<1>4. (CHOOSE a \in Addresses : TRUE) \in Addresses
  BY WalletConnectAssumption
<1>5. Types
  <2>1. task \in [Numbers -> [pc : Pcs, pairing : Pairings \cup {None},
                              account : Addresses \cup {None}]]
    BY DEF Init, Pcs
  <2>2. closing \in [Numbers -> [Sides -> {"idle", "publish", "unsubscribe", "session",
                                           "handler"}]]
    BY DEF Init
  <2> QED BY <1>4, <2>1, <2>2 DEF Init, Types
<1>6. Proposals
  BY <1>1 DEF Proposals, Fresh, Owned, OneDialog, Running
<1>7. Sessions
  BY <1>1, <1>2, <1>3
  DEF Sessions, AfterSettled, HandlerFirst, HandlerLast, UnansweredIsGone, Stored
<1> QED BY <1>5, <1>6, <1>7 DEF Inv

(* Steps that change neither tasks nor sessions nor what is done to them. *)
LEMMA OtherInv ==
  ASSUME Inv, UNCHANGED <<task, spawned, session, handlers, closing, request>>,
         inFlight' = inFlight, dispatcher' \in [Dispatchers -> Pairings \cup {None}],
         account' \in Addresses,
         switch' \in [Switches -> {Idle} \cup
           [pc : {"update", "event", "store"}, of : Numbers, account : Addresses]]
  PROVE  Inv'
<1>1. Types'
  BY DEF Inv, Types
<1>2. Proposals'
  BY DEF Inv, Proposals, Fresh, Owned, OneDialog, Running
<1>3. Sessions'
  BY DEF Inv, Sessions, AfterSettled, HandlerFirst, HandlerLast, UnansweredIsGone,
         Stored, Settled
<1> QED BY <1>1, <1>2, <1>3 DEF Inv

(* A request that is not idle belongs to a session. *)
LEMMA RequestNumber ==
  ASSUME Types, NEW r \in Requests, request[r].pc # "idle" PROVE request[r].of \in Numbers
<1>1. request[r] # Idle
  BY DEF Idle
<1> QED BY <1>1 DEF Types

(* What Goto does to the tasks. *)
LEMMA TaskMoved ==
  ASSUME Types, NEW t \in Numbers, NEW to \in Pcs, task' = [task EXCEPT ![t].pc = to]
  PROVE  /\ task' \in [Numbers -> [pc : Pcs, pairing : Pairings \cup {None},
                                  account : Addresses \cup {None}]]
         /\ task'[t].pc = to /\ task'[t].pairing = task[t].pairing
         /\ task'[t].account = task[t].account
         /\ \A u \in Numbers : u # t => task'[u] = task[u]
<1>1. task[t] \in [pc : Pcs, pairing : Pairings \cup {None}, account : Addresses \cup {None}]
  BY DEF Types
<1>2. PICK new : new = [task[t] EXCEPT !.pc = to]
  OBVIOUS
<1>3. /\ new \in [pc : Pcs, pairing : Pairings \cup {None}, account : Addresses \cup {None}]
      /\ new.pc = to /\ new.pairing = task[t].pairing /\ new.account = task[t].account
  BY <1>1, <1>2
<1>4. task' = [task EXCEPT ![t] = new]
  BY <1>2
<1> QED BY <1>3, <1>4 DEF Types

(* Steps of a task that leave what is stored alone. *)
LEMMA SessionsKept ==
  ASSUME Inv, UNCHANGED <<session, closing, request>>, handlers \subseteq handlers',
         \A t \in Numbers : Settled(t) => Settled(t)',
         \A t \in Numbers : (task[t].pc = "session")' => task[t].pc = "session" \/ t \in handlers'
  PROVE  Sessions'
<1>1. AfterSettled'
  BY RequestNumber DEF Inv, Sessions, AfterSettled, Stored
<1>2. HandlerFirst' /\ HandlerLast'
  BY DEF Inv, Sessions, HandlerFirst, HandlerLast, Stored
<1>3. UnansweredIsGone'
  BY DEF Inv, Sessions, UnansweredIsGone, Stored
<1> QED BY <1>1, <1>2, <1>3 DEF Sessions

(* A new task gets a number nobody knows and a pairing nobody handles. *)
LEMMA StartInv == ASSUME Inv, NEW d \in Dispatchers, StartProposal(d) PROVE Inv'
<1> DEFINE p == dispatcher[d]
<1>1. dispatcher' \in [Dispatchers -> Pairings \cup {None}] /\ p \in Pairings
  BY DEF StartProposal, Inv, Types
<1>2. UNCHANGED <<session, handlers, closing, switch, request, account>>
  BY DEF StartProposal, calls
<1>3. CASE p \in inFlight
  <2>1. UNCHANGED <<inFlight, task, spawned>>
    BY <1>3 DEF StartProposal
  <2> QED BY <1>1, <1>2, <2>1, OtherInv DEF Inv, Types
<1>4. CASE p \notin inFlight
  <2>1. /\ inFlight' = inFlight \cup {p} /\ spawned' = spawned + 1
        /\ task' = [task EXCEPT ![spawned + 1] =
                      [pc |-> "check", pairing |-> p, account |-> None]]
    BY <1>4 DEF StartProposal, Spawn
  <2>2. \A t \in Numbers : t # spawned + 1 => task'[t] = task[t]
    BY <2>1 DEF Inv, Types
  <2>3. spawned + 1 \in Numbers =>
          /\ task'[spawned + 1] = [pc |-> "check", pairing |-> p, account |-> None]
          /\ task[spawned + 1].pc = "none"
    BY <2>1 DEF Inv, Types, Proposals, Fresh, Numbers
  <2>4. Types'
    <3>1. [pc |-> "check", pairing |-> p, account |-> None]
            \in [pc : Pcs, pairing : Pairings \cup {None}, account : Addresses \cup {None}]
      BY <1>1 DEF Pcs
    <3>2. task' \in [Numbers -> [pc : Pcs, pairing : Pairings \cup {None},
                                 account : Addresses \cup {None}]]
      BY <2>1, <3>1 DEF Inv, Types
    <3>3. spawned' \in Nat
      BY <2>1 DEF Inv, Types
    <3> QED BY <1>1, <1>2, <3>2, <3>3 DEF Inv, Types
  <2>5. Fresh'
    BY <2>1, <2>2 DEF Inv, Types, Proposals, Fresh, Numbers
  <2>6. Owned' /\ OneDialog'
    BY <1>4, <2>1, <2>2, <2>3 DEF Inv, Proposals, Owned, OneDialog, Running
  <2>7. \A t \in Numbers : /\ Settled(t) => Settled(t)'
                           /\ (task[t].pc = "session")' => task[t].pc = "session"
    BY <2>2, <2>3 DEF Settled
  <2>8. Sessions'
    BY <1>2, <2>7, SessionsKept
  <2> QED BY <2>4, <2>5, <2>6, <2>8 DEF Inv, Proposals
<1> QED BY <1>3, <1>4

(* A step of a task that does not store anything: it may move to "settled",
   never back. *)
Untouched == UNCHANGED <<session, handlers, closing, switch, request, account, dispatcher>>

LEMMA TaskInv ==
  ASSUME Inv, NEW t \in Numbers, NEW new, Untouched,
         new \in [pc : Pcs, pairing : Pairings \cup {None}, account : Addresses \cup {None}],
         new.pairing = task[t].pairing, task' = [task EXCEPT ![t] = new],
         UNCHANGED <<spawned, inFlight>>,
         Running(t), Settled(t) => Settled(t)', new.pc \notin {"none", "session", "over"}
  PROVE  Inv'
<1>1. /\ task'[t] = new
      /\ \A u \in Numbers : u # t => task'[u] = task[u]
  BY DEF Inv, Types
<1>2. Types'
  BY DEF Inv, Types, Untouched
<1>3. Proposals'
  BY <1>1 DEF Inv, Types, Proposals, Fresh, Owned, OneDialog, Running
<1>4. \A u \in Numbers : /\ Settled(u) => Settled(u)'
                         /\ (task[u].pc = "session")' => task[u].pc = "session"
  BY <1>1 DEF Settled
<1>5. Sessions'
  BY <1>4, SessionsKept DEF Untouched
<1> QED BY <1>2, <1>3, <1>5 DEF Inv

(* The steps of handle_proposal before it stores anything, and those that
   forget the pairing. *)
LEMMA GotoInv ==
  ASSUME Inv, NEW t \in Numbers, Untouched, UNCHANGED <<spawned, inFlight>>,
         NEW from \in Pcs \ {"none", "over"},
         NEW to \in Pcs \ {"none", "session", "over"}, Goto(t, from, to),
         from \in {"remove", "finish"} => to \in {"remove", "finish"}
  PROVE  Inv'
<1> DEFINE new == [task[t] EXCEPT !.pc = to]
<1>1. task[t] \in [pc : Pcs, pairing : Pairings \cup {None}, account : Addresses \cup {None}]
  BY DEF Inv, Types
<1>2. new \in [pc : Pcs, pairing : Pairings \cup {None}, account : Addresses \cup {None}]
  BY <1>1
<1>3. new.pairing = task[t].pairing /\ new.pc = to
  BY <1>1
<1>4. task' = [task EXCEPT ![t] = new]
  BY DEF Goto
<1>5. task'[t] = new
  BY <1>4 DEF Inv, Types
<1>6. Running(t) /\ (Settled(t) => Settled(t)')
  BY <1>3, <1>5 DEF Goto, Running, Settled
<1> HIDE DEF new
<1> QED BY <1>2, <1>3, <1>4, <1>6, TaskInv

(* The steps that ask the relay, whichever way it answers. *)
LEMMA AskInv ==
  ASSUME Inv, NEW t \in Numbers, Untouched, UNCHANGED <<spawned, inFlight>>,
         NEW from \in Pcs \ {"none", "over", "remove", "finish"},
         NEW to \in Pcs \ {"none", "session", "over"}, Ask(t, from, to)
  PROVE  Inv'
<1>1. CASE Goto(t, from, to)
  BY <1>1, GotoInv
<1>2. CASE Goto(t, from, "finish")
  BY <1>2, GotoInv DEF Pcs
<1> QED BY <1>1, <1>2 DEF Ask

(* The account is read before anything is stored. *)
LEMMA ReadAccountInv == ASSUME Inv, NEW t \in Numbers, ReadAccount(t) PROVE Inv'
<1> DEFINE new == [task[t] EXCEPT !.pc = "respond", !.account = account]
<1>1. task[t] \in [pc : Pcs, pairing : Pairings \cup {None}, account : Addresses \cup {None}]
  BY DEF Inv, Types
<1>2. new \in [pc : Pcs, pairing : Pairings \cup {None}, account : Addresses \cup {None}]
  BY <1>1 DEF Inv, Types, Pcs
<1>3. new.pairing = task[t].pairing /\ new.pc = "respond"
  BY <1>1
<1>4. task' = [task EXCEPT ![t] = new]
  BY DEF ReadAccount, Inv, Types
<1>5. Running(t) /\ ~Settled(t)
  BY DEF ReadAccount, Running, Settled
<1>6. Untouched /\ UNCHANGED <<spawned, inFlight>>
  BY DEF ReadAccount, Untouched, calls, maps
<1> HIDE DEF new
<1> QED BY <1>2, <1>3, <1>4, <1>5, <1>6, TaskInv

(* The handler is stored before the session. *)
LEMMA InsertHandlerInv == ASSUME Inv, NEW t \in Numbers, InsertHandler(t) PROVE Inv'
<1>1. /\ UNCHANGED <<dispatcher, spawned, session, closing, switch, request, account, inFlight>>
      /\ handlers' = handlers \cup {t} /\ task[t].pc = "handler"
      /\ task' = [task EXCEPT ![t].pc = "session"]
  BY DEF InsertHandler, Goto, calls, maps
<1>2. /\ task'[t].pc = "session" /\ task'[t].pairing = task[t].pairing
      /\ \A u \in Numbers : u # t => task'[u] = task[u]
  BY <1>1 DEF Inv, Types
<1>3. Types'
  <2>1. task' \in [Numbers -> [pc : Pcs, pairing : Pairings \cup {None},
                               account : Addresses \cup {None}]]
    BY <1>1, TaskMoved DEF Inv, Pcs
  <2> QED BY <1>1, <2>1 DEF Inv, Types
<1>4. Proposals'
  BY <1>1, <1>2 DEF Inv, Types, Proposals, Fresh, Owned, OneDialog, Running
<1>5. \A u \in Numbers : Settled(u) => Settled(u)'
  BY <1>1, <1>2 DEF Settled
<1>6. Sessions'
  BY <1>1, <1>2, <1>5, SessionsKept
<1> QED BY <1>3, <1>4, <1>6 DEF Inv

(* The session is stored while nothing else knows it: its handler is there, and
   no request and no end of it has started. *)
LEMMA InsertSessionInv == ASSUME Inv, NEW t \in Numbers, InsertSession(t) PROVE Inv'
<1>1. /\ UNCHANGED <<dispatcher, spawned, handlers, closing, switch, request, account, inFlight>>
      /\ session' = [session EXCEPT ![t] = task[t].account] /\ task[t].pc = "session"
      /\ task' = [task EXCEPT ![t].pc = "remove"]
  BY DEF InsertSession, Goto, calls, maps
<1>2. /\ task'[t].pc = "remove" /\ task'[t].pairing = task[t].pairing
      /\ \A u \in Numbers : u # t => task'[u] = task[u] /\ session'[u] = session[u]
  BY <1>1 DEF Inv, Types
<1>3. Types'
  <2>1. task' \in [Numbers -> [pc : Pcs, pairing : Pairings \cup {None},
                               account : Addresses \cup {None}]]
    BY <1>1, TaskMoved DEF Inv, Pcs
  <2>2. session' \in [Numbers -> Addresses \cup {None}]
    BY <1>1 DEF Inv, Types
  <2> QED BY <1>1, <2>1, <2>2 DEF Inv, Types
<1>4. Proposals'
  BY <1>1, <1>2 DEF Inv, Types, Proposals, Fresh, Owned, OneDialog, Running
<1>5. ~Settled(t) /\ Settled(t)' /\ \A u \in Numbers : Settled(u) => Settled(u)'
  BY <1>1, <1>2 DEF Settled
<1>6. \A w \in Sides : closing[t][w] = "idle"
  BY <1>5 DEF Inv, Sessions, AfterSettled
<1>7. \A r \in Requests : request[r].pc = "unanswered" => request[r].of # t
  BY <1>5 DEF Inv, Sessions, AfterSettled
<1>8. AfterSettled' /\ HandlerFirst'
  <2>1. AfterSettled'
    BY <1>1, <1>2, <1>5, RequestNumber DEF Inv, Sessions, AfterSettled, Stored
  <2>2. HandlerFirst'
    BY <1>1, <1>2 DEF Inv, Sessions, HandlerFirst, Stored
  <2> QED BY <2>1, <2>2
<1>9. HandlerLast'
  BY <1>1, <1>2, <1>6 DEF Inv, Sessions, HandlerLast, Stored
<1>10. UnansweredIsGone'
  BY <1>1, <1>2, <1>7 DEF Inv, Types, Sessions, UnansweredIsGone, Stored, Idle
<1> QED BY <1>3, <1>4, <1>8, <1>9, <1>10 DEF Inv, Sessions

(* The mark is taken off when the task is over. *)
LEMMA FinishInv == ASSUME Inv, NEW t \in Numbers, FinishProposal(t) PROVE Inv'
<1>1. /\ Untouched /\ UNCHANGED spawned
      /\ inFlight' = inFlight \ {task[t].pairing} /\ task[t].pc = "finish"
      /\ task' = [task EXCEPT ![t].pc = "over"]
  BY DEF FinishProposal, Goto, Untouched, calls
<1>2. /\ task'[t].pc = "over"
      /\ \A u \in Numbers : u # t => task'[u] = task[u]
  BY <1>1 DEF Inv, Types
<1>3. Types'
  <2>1. task' \in [Numbers -> [pc : Pcs, pairing : Pairings \cup {None},
                               account : Addresses \cup {None}]]
    BY <1>1, TaskMoved DEF Inv, Pcs
  <2> QED BY <1>1, <2>1 DEF Inv, Types, Untouched
<1>4. Running(t) /\ ~Running(t)'
  BY <1>1, <1>2 DEF Running
<1>5. Fresh' /\ Owned' /\ OneDialog'
  BY <1>1, <1>2, <1>4 DEF Inv, Types, Proposals, Fresh, Owned, OneDialog, Running
<1>6. \A u \in Numbers : /\ Settled(u) => Settled(u)'
                         /\ (task[u].pc = "session")' => task[u].pc = "session"
  BY <1>1, <1>2 DEF Settled
<1>7. Sessions'
  BY <1>1, <1>6, SessionsKept DEF Untouched
<1> QED BY <1>3, <1>5, <1>7 DEF Inv, Proposals
------------------------------------------------------------------------------
(* Steps that leave the tasks alone. *)
LEMMA ProposalsKept ==
  ASSUME Inv, UNCHANGED <<task, spawned, inFlight>> PROVE Proposals'
BY DEF Inv, Proposals, Fresh, Owned, OneDialog, Running

NoTask == UNCHANGED <<dispatcher, task, spawned, inFlight, account>>

(* The steps of a request: what it does not find was removed. *)
LEMMA RequestInv ==
  ASSUME Inv, NEW r \in Requests, NEW state, request' = [request EXCEPT ![r] = state],
         state \in [pc : {"dropped", "session", "handler", "refuse", "running", "unanswered",
                         "answered", "failed"}, of : Numbers],
         NoTask, UNCHANGED <<session, handlers, closing, switch>>,
         state.pc # "dropped" => Settled(state.of),
         state.pc = "unanswered" => ~Stored(state.of)
  PROVE  Inv'
<1>1. /\ request'[r] = state
      /\ \A q \in Requests : q # r => request'[q] = request[q]
  BY DEF Inv, Types
<1>2. Types'
  BY DEF Inv, Types, NoTask
<1>3. Proposals'
  BY ProposalsKept DEF NoTask
<1>4. \A t \in Numbers : Settled(t)' = Settled(t) /\ Stored(t)' = Stored(t)
  BY DEF Settled, Stored, NoTask
<1>5. AfterSettled'
  BY <1>1, <1>4, RequestNumber DEF Inv, Sessions, AfterSettled
<1>6. HandlerFirst' /\ HandlerLast'
  BY DEF Inv, Sessions, HandlerFirst, HandlerLast, Stored, NoTask
<1>7. UnansweredIsGone'
  BY <1>1 DEF Inv, Sessions, UnansweredIsGone, Stored
<1> QED BY <1>2, <1>3, <1>5, <1>6, <1>7 DEF Inv, Sessions

(* Every step of a request is of that form. *)
LEMMA RequestStepInv ==
  ASSUME Inv, NEW r \in Requests,
         RequestStep(r) \/ PublishAnswer(r) \/ \E t \in Numbers : DispatchRequest(r, t)
  PROVE  Inv'
<1>1. NoTask /\ UNCHANGED <<session, handlers, closing, switch>>
  BY DEF RequestStep, ReadSession, ReadHandler, PublishAnswer, DispatchRequest, NoTask, maps
<1>2. ASSUME NEW t \in Numbers, DispatchRequest(r, t) PROVE Inv'
  <2>1. PICK state : /\ state = IF Stored(t) THEN [pc |-> "session", of |-> t]
                                ELSE [pc |-> "dropped", of |-> t]
                     /\ request' = [request EXCEPT ![r] = state]
    BY <1>2 DEF DispatchRequest, Become
  <2>2. state.pc # "dropped" => Settled(state.of)
    BY <2>1 DEF Inv, Sessions, AfterSettled
  <2> QED BY <1>1, <2>1, <2>2, RequestInv
<1>3. ASSUME NEW pc \in {"handler", "refuse", "running", "unanswered", "answered", "failed"},
             request[r].pc \notin {"idle", "dropped"},
             request' = [request EXCEPT ![r] = [request[r] EXCEPT !.pc = pc]],
             pc = "unanswered" => ~Stored(request[r].of)
      PROVE  Inv'
  <2>1. request[r] \in [pc : {"dropped", "session", "handler", "refuse", "running",
                             "unanswered", "answered", "failed"}, of : Numbers]
    BY <1>3 DEF Inv, Types, Idle
  <2>2. PICK state : state = [request[r] EXCEPT !.pc = pc]
    OBVIOUS
  <2>3. /\ state \in [pc : {"dropped", "session", "handler", "refuse", "running",
                            "unanswered", "answered", "failed"}, of : Numbers]
        /\ state.pc = pc /\ state.of = request[r].of
    BY <2>1, <2>2
  <2>4. Settled(request[r].of)
    BY <1>3 DEF Inv, Sessions, AfterSettled
  <2>5. request' = [request EXCEPT ![r] = state]
    BY <1>3, <2>2
  <2> QED BY <1>1, <1>3, <2>3, <2>4, <2>5, RequestInv
<1>4. CASE ReadSession(r)
  BY <1>3, <1>4 DEF ReadSession, Become
<1>5. CASE ReadHandler(r)
  <2>1. request[r].of \in Numbers
    BY <1>5, RequestNumber DEF ReadHandler, Inv
  <2>2. request[r].of \notin handlers => ~Stored(request[r].of)
    BY <2>1 DEF Inv, Sessions, HandlerFirst
  <2> QED BY <1>3, <1>5, <2>2 DEF ReadHandler, Become
<1>6. CASE PublishAnswer(r)
  BY <1>3, <1>6 DEF PublishAnswer, Become
<1> QED BY <1>2, <1>4, <1>5, <1>6 DEF RequestStep
------------------------------------------------------------------------------
(* The steps that end a session: where it goes on, its task is settled. *)
LEMMA CloseMoved ==
  ASSUME Types, NEW t \in Numbers, NEW w \in Sides,
         NEW pc \in {"idle", "publish", "unsubscribe", "session", "handler"}, Close(t, w, pc)
  PROVE  /\ closing' \in [Numbers -> [Sides -> {"idle", "publish", "unsubscribe", "session",
                                              "handler"}]]
         /\ closing'[t][w] = pc
         /\ \A u \in Numbers, v \in Sides :
              u # t \/ v # w => closing'[u][v] = closing[u][v]
<1>1. closing[t] \in [Sides -> {"idle", "publish", "unsubscribe", "session", "handler"}]
  BY DEF Types
<1>2. PICK new : new = [closing[t] EXCEPT ![w] = pc]
  OBVIOUS
<1>3. /\ new \in [Sides -> {"idle", "publish", "unsubscribe", "session", "handler"}]
      /\ new[w] = pc /\ \A v \in Sides : v # w => new[v] = closing[t][v]
  BY <1>1, <1>2
<1>4. closing' = [closing EXCEPT ![t] = new]
  BY <1>2 DEF Close
<1> QED BY <1>3, <1>4 DEF Types

(* A session goes before its handler. *)
LEMMA CloseInv ==
  ASSUME Inv, NEW t \in Numbers, NEW w \in Sides,
         NEW pc \in {"idle", "publish", "unsubscribe", "session", "handler"}, Close(t, w, pc),
         NoTask, UNCHANGED <<switch, request>>, Settled(t),
         session' \in [Numbers -> Addresses \cup {None}],
         \A u \in Numbers : session'[u] \in {session[u], None},
         handlers' \in {handlers, handlers \ {t}},
         handlers' # handlers \/ pc = "handler" => session'[t] = None
  PROVE  Inv'
<1>1. /\ closing' \in [Numbers -> [Sides -> {"idle", "publish", "unsubscribe", "session",
                                           "handler"}]]
      /\ closing'[t][w] = pc
      /\ \A u \in Numbers, v \in Sides :
           u # t \/ v # w => closing'[u][v] = closing[u][v]
  BY CloseMoved DEF Inv
<1>2. Types'
  BY <1>1 DEF Inv, Types, NoTask
<1>3. Proposals'
  BY ProposalsKept DEF NoTask
<1>4. \A u \in Numbers : Settled(u)' = Settled(u) /\ (Stored(u)' => Stored(u))
  BY DEF Settled, Stored, NoTask
<1>5. AfterSettled'
  BY <1>1, <1>4, RequestNumber DEF Inv, Sessions, AfterSettled
<1>6. HandlerFirst'
  <2> SUFFICES ASSUME NEW u \in Numbers, Stored(u)' \/ (task[u].pc = "session")'
               PROVE  u \in handlers'
    BY DEF HandlerFirst
  <2>1. u \in handlers
    BY <1>4 DEF Inv, Sessions, HandlerFirst, NoTask
  <2>2. u = t => handlers' = handlers
    BY DEF NoTask, Settled, Stored
  <2> QED BY <2>1, <2>2
<1>7. HandlerLast'
  BY <1>1, <1>4 DEF Inv, Sessions, HandlerLast, Stored
<1>8. UnansweredIsGone'
  BY <1>4, RequestNumber DEF Inv, Sessions, UnansweredIsGone
<1> QED BY <1>2, <1>3, <1>5, <1>6, <1>7, <1>8 DEF Inv, Sessions

(* Every step of disconnect() and of the task for a delete is of that form. *)
LEMMA CloseStepInv ==
  ASSUME Inv, NEW t \in Numbers, CloseStep(t) \/ Disconnect(t)
  PROVE  Inv'
<1>1. NoTask /\ UNCHANGED <<switch, request>>
  BY DEF CloseStep, PublishDelete, Unsubscribe, RemoveSession, RemoveHandler, Disconnect,
         NoTask, maps
<1>2. session \in [Numbers -> Addresses \cup {None}]
  BY DEF Inv, Types
<1>3. \A w \in Sides : closing[t][w] # "idle" => Settled(t)
  BY DEF Inv, Sessions, AfterSettled
<1>4. CASE PublishDelete(t) \/ Unsubscribe(t)
  <2>1. Settled(t) /\ UNCHANGED <<session, handlers>>
    BY <1>3, <1>4 DEF PublishDelete, Unsubscribe, Sides
  <2>2. \E pc \in {"idle", "unsubscribe", "session"} : Close(t, "user", pc)
    BY <1>4 DEF PublishDelete, Unsubscribe
  <2> QED BY <1>1, <1>2, <2>1, <2>2, CloseInv DEF Sides
<1>5. ASSUME NEW w \in Sides, RemoveSession(t, w) PROVE Inv'
  <2>1. /\ Settled(t) /\ handlers' = handlers /\ Close(t, w, "handler")
        /\ session' = [session EXCEPT ![t] = None]
    BY <1>3, <1>5 DEF RemoveSession
  <2>2. /\ session' \in [Numbers -> Addresses \cup {None}] /\ session'[t] = None
        /\ \A u \in Numbers : session'[u] \in {session[u], None}
    BY <1>2, <2>1
  <2> QED BY <1>1, <2>1, <2>2, CloseInv
<1>6. ASSUME NEW w \in Sides, RemoveHandler(t, w) PROVE Inv'
  <2>1. /\ Settled(t) /\ session' = session /\ Close(t, w, "idle")
        /\ handlers' = handlers \ {t}
    BY <1>3, <1>6 DEF RemoveHandler
  <2>2. session[t] = None
    BY <1>6 DEF RemoveHandler, Inv, Sessions, HandlerLast, Stored
  <2> QED BY <1>1, <1>2, <2>1, <2>2, CloseInv
<1>7. CASE Disconnect(t)
  <2>1. Settled(t) /\ UNCHANGED <<session, handlers>> /\ Close(t, "user", "publish")
    BY <1>7 DEF Disconnect, Inv, Sessions, AfterSettled
  <2> QED BY <1>1, <1>2, <2>1, CloseInv DEF Sides
<1> QED BY <1>4, <1>5, <1>6, <1>7 DEF CloseStep

(* A delete of the dApp is dropped, or starts the end of a stored session. *)
LEMMA PeerDeleteInv == ASSUME Inv, NEW t \in Numbers, PeerDelete(t) PROVE Inv'
<1>1. NoTask /\ UNCHANGED <<switch, request, session, handlers>>
  BY DEF PeerDelete, NoTask, maps
<1>2. session \in [Numbers -> Addresses \cup {None}]
  BY DEF Inv, Types
<1>3. CASE Stored(t)
  <2>1. Settled(t) /\ Close(t, "peer", "session")
    BY <1>3 DEF PeerDelete, Inv, Sessions, AfterSettled
  <2> QED BY <1>1, <1>2, <2>1, CloseInv DEF Sides
<1>4. CASE ~Stored(t)
  <2>1. closing' = closing
    BY <1>4 DEF PeerDelete
  <2> QED BY <1>1, <2>1, OtherInv DEF Inv, Types, NoTask
<1> QED BY <1>3, <1>4
------------------------------------------------------------------------------
(* The steps of a switch of account never store a session that is not there. *)
LEMMA SwitchInv ==
  ASSUME Inv, NEW s \in Switches,
         SwitchStep(s) \/ \E t \in Numbers, a \in Addresses : SwitchAccount(s, t, a)
  PROVE  Inv'
<1> DEFINE S == {Idle} \cup
                [pc : {"update", "event", "store"}, of : Numbers, account : Addresses]
<1>1. NoTask /\ UNCHANGED <<handlers, closing, request>>
  BY DEF SwitchStep, PublishSwitch, StoreAccount, SwitchAccount, NoTask, maps
<1>2. CASE \E t \in Numbers, a \in Addresses : SwitchAccount(s, t, a)
  <2>1. switch' \in [Switches -> S] /\ session' = session
    BY <1>2 DEF SwitchAccount, Inv, Types
  <2> QED BY <1>1, <2>1, OtherInv DEF Inv, Types, NoTask
<1>3. CASE PublishSwitch(s)
  <2>1. switch[s] \in [pc : {"update", "event", "store"}, of : Numbers, account : Addresses]
    BY <1>3 DEF PublishSwitch, Inv, Types, Idle
  <2>2. PICK new \in S : switch' = [switch EXCEPT ![s] = new]
    <3>1. CASE switch' = [switch EXCEPT ![s] = Idle]
      BY <3>1
    <3>2. CASE switch' = [switch EXCEPT ![s].pc = IF @ = "update" THEN "event" ELSE "store"]
      <4>1. [switch[s] EXCEPT !.pc = IF @ = "update" THEN "event" ELSE "store"] \in S
        BY <2>1
      <4> QED BY <3>2, <4>1
    <3> QED BY <1>3, <3>1, <3>2 DEF PublishSwitch
  <2>3. switch' \in [Switches -> S] /\ session' = session
    BY <1>3, <2>2 DEF PublishSwitch, Inv, Types
  <2> QED BY <1>1, <2>3, OtherInv DEF Inv, Types, NoTask
<1>4. CASE StoreAccount(s)
  <2> DEFINE t == switch[s].of
  <2>1. switch[s] \in [pc : {"update", "event", "store"}, of : Numbers, account : Addresses]
    BY <1>4 DEF StoreAccount, Inv, Types, Idle
  <2>2. session' = [session EXCEPT ![t] = IF @ = None THEN None ELSE switch[s].account]
    BY <1>4 DEF StoreAccount
  <2>3. /\ session' \in [Numbers -> Addresses \cup {None}]
        /\ \A u \in Numbers : Stored(u)' = Stored(u)
    BY <2>1, <2>2, WalletConnectAssumption DEF Inv, Types, Stored
  <2>4. switch' \in [Switches -> S]
    BY <1>4 DEF StoreAccount, Inv, Types
  <2>5. Types'
    BY <1>1, <2>3, <2>4 DEF Inv, Types, NoTask
  <2>6. Proposals'
    BY <1>1, ProposalsKept DEF NoTask
  <2>7. \A u \in Numbers : Settled(u)' = Settled(u)
    BY <1>1 DEF Settled, NoTask
  <2>8. AfterSettled' /\ HandlerLast' /\ UnansweredIsGone'
    BY <1>1, <2>3, <2>7, RequestNumber
    DEF Inv, Sessions, AfterSettled, HandlerLast, UnansweredIsGone
  <2>9. HandlerFirst'
    BY <1>1, <2>3 DEF Inv, Sessions, HandlerFirst, NoTask
  <2> QED BY <2>5, <2>6, <2>8, <2>9 DEF Inv, Sessions
<1> QED BY <1>2, <1>3, <1>4 DEF SwitchStep
------------------------------------------------------------------------------
(* Every step of handle_proposal and of its end. *)
LEMMA ProposalStepInv ==
  ASSUME Inv, NEW t \in Numbers, ProposalStep(t) \/ AnswerProposal(t) PROVE Inv'
<1>1. CASE CheckProposal(t) \/ AnswerProposal(t)
  <2>1. Untouched /\ UNCHANGED <<spawned, inFlight>>
    BY <1>1 DEF CheckProposal, AnswerProposal, Untouched, calls, maps
  <2>2. \E from \in {"check", "dialog"}, to \in {"dialog", "reject", "finish", "subscribe"} :
          Goto(t, from, to)
    BY <1>1 DEF CheckProposal, AnswerProposal
  <2> QED BY <2>1, <2>2, GotoInv DEF Pcs
<1>2. CASE RejectProposal(t) \/ SubscribeSession(t) \/ Respond(t) \/ Settle(t)
  <2>1. Untouched /\ UNCHANGED <<spawned, inFlight>>
    BY <1>2 DEF RejectProposal, SubscribeSession, Respond, Settle, Untouched, calls, maps
  <2>2. CASE Goto(t, "subscribe", "finish")
    BY <2>1, <2>2, GotoInv DEF Pcs
  <2>3. CASE \E from \in {"reject", "subscribe", "respond", "settle"},
                to \in {"remove", "account", "settle", "handler"} : Ask(t, from, to)
    BY <2>1, <2>3, AskInv DEF Pcs
  <2> QED
    BY <1>2, <2>2, <2>3 DEF RejectProposal, SubscribeSession, Respond, Settle
<1>3. CASE RemovePairing(t)
  <2>1. Untouched /\ UNCHANGED <<spawned, inFlight>> /\ Goto(t, "remove", "finish")
    BY <1>3 DEF RemovePairing, Untouched, calls
  <2> QED BY <2>1, GotoInv DEF Pcs
<1> QED BY <1>1, <1>2, <1>3, ReadAccountInv, InsertHandlerInv, InsertSessionInv, FinishInv
        DEF ProposalStep

(* Every step. *)
LEMMA NextInv == ASSUME Inv, [Next]_vars PROVE Inv'
<1>1. ASSUME NEW p \in Pairings, PairStore(p) \/ PairSubscribe(p) PROVE Inv'
  <2>1. UNCHANGED <<task, spawned, session, handlers, closing, request, inFlight, dispatcher,
                    account, switch>>
    BY <1>1 DEF PairStore, PairSubscribe, calls
  <2> QED BY <2>1, OtherInv DEF Inv, Types
<1>2. ASSUME NEW d \in Dispatchers, NEW p \in Pairings, Deliver(d, p) PROVE Inv'
  <2>1. UNCHANGED <<task, spawned, session, handlers, closing, request, inFlight, account,
                    switch>>
    BY <1>2 DEF Deliver, calls, maps
  <2>2. dispatcher' \in [Dispatchers -> Pairings \cup {None}]
    BY <1>2 DEF Deliver, Inv, Types
  <2> QED BY <2>1, <2>2, OtherInv DEF Inv, Types
<1>3. CASE SelectAccount
  <2>1. /\ UNCHANGED <<task, spawned, session, handlers, closing, request, inFlight, dispatcher,
                       switch>>
        /\ account' \in Addresses
    BY <1>3 DEF SelectAccount, calls, maps
  <2> QED BY <2>1, OtherInv DEF Inv, Types
<1>4. CASE UNCHANGED vars
  <2>1. UNCHANGED <<task, spawned, session, handlers, closing, request, inFlight, dispatcher,
                    account, switch>>
    BY <1>4 DEF vars, calls, maps
  <2> QED BY <2>1, OtherInv DEF Inv, Types
<1> QED BY <1>1, <1>2, <1>3, <1>4, StartInv, ProposalStepInv, CloseStepInv, PeerDeleteInv,
           SwitchInv, RequestStepInv DEF Next

(* The inductive invariant holds in every reachable state. *)
THEOREM Invariance == Spec => []Inv
BY InitInv, NextInv, PTL DEF Spec

(* start_proposal and finish_proposal keep proposals on one pairing apart: for
   any number of pairings, dispatchers and deliveries, no proposal ever has two
   tasks, and so two dialogs, at the same time. *)
THEOREM AlwaysOneDialog == Spec => []OneDialog
<1>1. Inv => OneDialog
  BY DEF Inv, Proposals
<1> QED BY <1>1, Invariance, PTL

(* settle_session stores the handler first and removal takes the session first:
   for any number of sessions, requests and calls, and whatever the relay does,
   handle_request fails to find a session or its handler only when the session
   is gone. *)
THEOREM UnansweredAlwaysGone == Spec => []UnansweredIsGone
<1>1. Inv => UnansweredIsGone
  BY DEF Inv, Sessions
<1> QED BY <1>1, Invariance, PTL
------------------------------------------------------------------------------
(* The account of a session and what the dApp was told.  AccountExposed is not
   inductive: until the session is stored its task must still have the account
   it settled with, and while an account is switched the one the dApp was told
   is that of the only switch. *)
SwitchAfter == \A s \in Switches : switch[s] # Idle => Settled(switch[s].of)

SettledAs ==
  \A t \in Numbers : task[t].pc \in {"handler", "session"} => told[t] = task[t].account

SwitchedTo ==
  \A s \in Switches :
    switch[s].pc \in {"event", "store"} /\ switch[s].of \notin mixed
      => told[switch[s].of] = switch[s].account

Alone ==
  \A s, u \in Switches :
    /\ switch[s] # Idle /\ switch[u] # Idle /\ switch[s].of = switch[u].of
    /\ switch[s].of \notin mixed
    => s = u

Exposure ==
  /\ told \in [Numbers -> Addresses \cup {None}]
  /\ SwitchAfter /\ SettledAs /\ SwitchedTo /\ Alone /\ AccountExposed

(* No session is stored and no account switched. *)
LEMMA InitExposure == Init => Exposure
<1> SUFFICES ASSUME Init PROVE Exposure
  OBVIOUS
<1>1. \A t \in Numbers : task[t].pc = "none" /\ session[t] = None
  BY DEF Init
<1>2. \A s \in Switches : switch[s] = Idle /\ switch[s].pc = "idle"
  BY DEF Init, Idle
<1>3. told \in [Numbers -> Addresses \cup {None}]
  BY DEF Init
<1> QED BY <1>1, <1>2, <1>3
        DEF Exposure, SwitchAfter, SettledAs, SwitchedTo, Alone, AccountExposed, Stored

(* A switch that is not idle is a call for a session. *)
LEMMA SwitchNumber ==
  ASSUME Types, NEW s \in Switches, switch[s] # Idle
  PROVE  switch[s] \in [pc : {"update", "event", "store"}, of : Numbers, account : Addresses]
BY DEF Types

(* Steps that tell the dApp nothing and at most remove sessions. *)
LEMMA ExposureKept ==
  ASSUME Inv, Exposure, UNCHANGED <<told, switch, mixed>>,
         \A t \in Numbers : session'[t] \in {session[t], None},
         \A t \in Numbers : Settled(t) => Settled(t)',
         \A t \in Numbers : (task[t].pc \in {"handler", "session"})' =>
           task[t].pc \in {"handler", "session"} /\ task'[t].account = task[t].account
  PROVE  Exposure'
<1>1. SwitchAfter'
  BY SwitchNumber DEF Inv, Exposure, SwitchAfter
<1>2. SettledAs'
  BY DEF Exposure, SettledAs
<1>3. SwitchedTo' /\ Alone'
  BY DEF Exposure, SwitchedTo, Alone
<1>4. AccountExposed'
  BY DEF Exposure, AccountExposed, Stored, Switching
<1> QED BY <1>1, <1>2, <1>3, <1>4 DEF Exposure

(* The steps of a task that neither settle nor store. *)
LEMMA GotoExposure ==
  ASSUME Inv, Exposure, UNCHANGED <<told, switch, mixed, session>>, NEW t \in Numbers,
         NEW from \in Pcs, NEW to \in Pcs, Goto(t, from, to),
         to = "handler" => from = "handler", to = "session" => from = "handler",
         from \in {"remove", "finish", "over"} => to \in {"remove", "finish", "over"}
  PROVE  Exposure'
<1>1. /\ task[t].pc = from /\ task'[t].pc = to /\ task'[t].account = task[t].account
      /\ \A u \in Numbers : u # t => task'[u] = task[u]
  BY TaskMoved DEF Goto, Inv
<1>2. \A u \in Numbers : Settled(u) => Settled(u)'
  BY <1>1 DEF Settled
<1>3. \A u \in Numbers : (task[u].pc \in {"handler", "session"})' =>
        task[u].pc \in {"handler", "session"} /\ task'[u].account = task[u].account
  BY <1>1
<1> QED BY <1>2, <1>3, ExposureKept

(* Settling tells the dApp the account of the task, and nothing else knows the
   session yet. *)
LEMMA SettleExposure ==
  ASSUME Inv, Exposure, NEW t \in Numbers, Settle(t) PROVE Exposure'
<1>1. /\ UNCHANGED <<switch, mixed, session>> /\ task[t].pc = "settle"
      /\ told' = IF fails' = fails THEN [told EXCEPT ![t] = task[t].account] ELSE told
      /\ \/ fails' = fails /\ task' = [task EXCEPT ![t].pc = "handler"]
         \/ task' = [task EXCEPT ![t].pc = "finish"]
  BY DEF Settle, Ask, Goto, Ok, calls
<1>2. /\ task'[t].pc \in {"handler", "finish"} /\ task'[t].account = task[t].account
      /\ \A u \in Numbers : u # t => task'[u] = task[u]
      /\ task'[t].pc = "handler" => fails' = fails
  BY <1>1, TaskMoved DEF Inv, Pcs
<1>3. /\ told' \in [Numbers -> Addresses \cup {None}]
      /\ fails' = fails => told'[t] = task[t].account
      /\ \A u \in Numbers : u # t => told'[u] = told[u]
  BY <1>1 DEF Inv, Types, Exposure
<1>4. ~Settled(t) /\ ~Stored(t) /\ \A u \in Numbers : Settled(u) => Settled(u)'
  BY <1>1, <1>2 DEF Settled, Inv, Sessions, AfterSettled
<1>5. \A s \in Switches : switch[s] # Idle => switch[s].of \in Numbers \ {t}
  BY <1>4, SwitchNumber DEF Inv, Exposure, SwitchAfter
<1>6. SwitchAfter' /\ Alone'
  BY <1>1, <1>4, <1>5 DEF Exposure, SwitchAfter, Alone
<1>7. SettledAs'
  BY <1>2, <1>3 DEF Exposure, SettledAs
<1>8. SwitchedTo'
  <2>1. \A s \in Switches : switch[s].pc # "idle" => switch[s] # Idle
    BY DEF Idle
  <2> QED BY <1>1, <1>3, <1>5, <2>1 DEF Exposure, SwitchedTo
<1>9. AccountExposed'
  BY <1>1, <1>3, <1>4 DEF Exposure, AccountExposed, Stored, Switching
<1> QED BY <1>3, <1>6, <1>7, <1>8, <1>9 DEF Exposure

(* What is stored is what the dApp was told, whatever account the wallet has
   by then. *)
LEMMA InsertExposure ==
  ASSUME Inv, Exposure, NEW t \in Numbers, InsertSession(t) PROVE Exposure'
<1>1. /\ UNCHANGED <<switch, mixed, told>> /\ task[t].pc = "session"
      /\ session' = [session EXCEPT ![t] = task[t].account]
      /\ task' = [task EXCEPT ![t].pc = "remove"]
  BY DEF InsertSession, Goto, calls, history
<1>2. /\ task'[t].pc = "remove" /\ session'[t] = told[t]
      /\ \A u \in Numbers : u # t => task'[u] = task[u] /\ session'[u] = session[u]
  BY <1>1, TaskMoved DEF Inv, Types, Pcs, Exposure, SettledAs
<1>3. \A u \in Numbers : Settled(u) => Settled(u)'
  BY <1>1, <1>2 DEF Settled
<1>4. SwitchAfter' /\ SwitchedTo' /\ Alone'
  BY <1>1, <1>3, SwitchNumber DEF Inv, Exposure, SwitchAfter, SwitchedTo, Alone
<1>5. SettledAs'
  BY <1>1, <1>2 DEF Exposure, SettledAs
<1>6. AccountExposed'
  BY <1>1, <1>2 DEF Exposure, AccountExposed, Stored, Switching
<1> QED BY <1>1, <1>4, <1>5, <1>6 DEF Exposure

(* A call that finds another one under way is counted as mixed. *)
LEMMA SwitchAccountExposure ==
  ASSUME Inv, Exposure, NEW s \in Switches, NEW t \in Numbers, NEW a \in Addresses,
         SwitchAccount(s, t, a)
  PROVE  Exposure'
<1>1. /\ UNCHANGED <<task, told, session>> /\ Stored(t) /\ switch[s] = Idle
      /\ switch' = [switch EXCEPT ![s] = [pc |-> "update", of |-> t, account |-> a]]
      /\ mixed' = IF Switching(t) THEN mixed \cup {t} ELSE mixed
  BY DEF SwitchAccount
<1>2. /\ switch'[s] = [pc |-> "update", of |-> t, account |-> a]
      /\ \A u \in Switches : u # s => switch'[u] = switch[u]
  BY <1>1 DEF Inv, Types
<1>3. Settled(t) /\ \A u \in Numbers : Settled(u)' = Settled(u)
  BY <1>1 DEF Inv, Sessions, AfterSettled, Settled
<1>4. SwitchAfter'
  BY <1>2, <1>3, SwitchNumber DEF Inv, Exposure, SwitchAfter
<1>5. SettledAs' /\ SwitchedTo'
  BY <1>1, <1>2 DEF Exposure, SettledAs, SwitchedTo
<1>6. Alone'
  <2>1. \A u \in Switches : u # s /\ switch[u] # Idle /\ switch[u].of = t => t \in mixed'
    BY <1>1 DEF Switching
  <2>2. mixed \subseteq mixed'
    BY <1>1
  <2> QED BY <1>2, <2>1, <2>2 DEF Exposure, Alone
<1>7. AccountExposed'
  <2>1. switch'[s] # Idle
    BY <1>2 DEF Idle
  <2>2. Switching(t)'
    BY <1>2, <2>1 DEF Switching
  <2>3. \A u \in Numbers : Switching(u) => Switching(u)'
    BY <1>1, <1>2 DEF Switching
  <2>4. mixed \subseteq mixed'
    BY <1>1
  <2> QED BY <1>1, <2>2, <2>3, <2>4 DEF Exposure, AccountExposed, Stored
<1> QED BY <1>1, <1>4, <1>5, <1>6, <1>7 DEF Exposure

(* The dApp is told the new account, or the switch ends halfway. *)
LEMMA PublishSwitchExposure ==
  ASSUME Inv, Exposure, NEW s \in Switches, PublishSwitch(s) PROVE Exposure'
<1> DEFINE t == switch[s].of
           a == switch[s].account
<1>1. switch[s] # Idle /\ UNCHANGED <<task, session>>
  BY DEF PublishSwitch, Idle
<1>2. /\ t \in Numbers /\ a \in Addresses
      /\ switch[s] \in [pc : {"update", "event", "store"}, of : Numbers, account : Addresses]
  BY <1>1, SwitchNumber DEF Inv
<1>3. \A u \in Numbers : Settled(u)' = Settled(u)
  BY <1>1 DEF Settled
<1>4. CASE /\ told' = [told EXCEPT ![t] = a] /\ mixed' = mixed
           /\ switch' = [switch EXCEPT ![s].pc = IF @ = "update" THEN "event" ELSE "store"]
  <2>1. PICK new : new = [switch[s] EXCEPT !.pc = IF @ = "update" THEN "event" ELSE "store"]
    OBVIOUS
  <2>2. new.of = t /\ new.account = a /\ new.pc \in {"event", "store"}
    BY <1>2, <2>1
  <2>3. switch' = [switch EXCEPT ![s] = new]
    BY <1>4, <2>1
  <2>4. switch'[s] = new /\ \A u \in Switches : u # s => switch'[u] = switch[u]
    BY <2>3 DEF Inv, Types
  <2>5. switch'[s] # Idle
    BY <2>2, <2>4 DEF Idle
  <2>6. /\ told' \in [Numbers -> Addresses \cup {None}] /\ told'[t] = a
        /\ \A u \in Numbers : u # t => told'[u] = told[u]
    BY <1>2, <1>4 DEF Exposure
  <2>7. Settled(t)
    BY <1>1 DEF Exposure, SwitchAfter
  <2>8. SwitchAfter'
    BY <1>3, <2>2, <2>4, <2>7, <1>2, SwitchNumber DEF Inv, Exposure, SwitchAfter
  <2>9. SettledAs'
    BY <1>1, <2>6, <2>7 DEF Exposure, SettledAs, Settled
  <2>10. Alone'
    BY <1>1, <1>4, <2>2, <2>4 DEF Exposure, Alone
  <2>11. SwitchedTo'
    <3> SUFFICES ASSUME NEW u \in Switches, u # s,
                        switch[u].pc \in {"event", "store"}, switch[u].of \notin mixed
                 PROVE  told'[switch[u].of] = switch[u].account
      BY <1>4, <2>2, <2>4, <2>6 DEF SwitchedTo
    <3>1. switch[u] # Idle
      BY DEF Idle
    <3>2. switch[u].of \in Numbers
      BY <3>1, SwitchNumber DEF Inv
    <3>3. switch[u].of # t
      BY <1>1, <3>1 DEF Exposure, Alone
    <3> QED BY <2>6, <3>2, <3>3 DEF Exposure, SwitchedTo
  <2>12. AccountExposed'
    <3>1. Switching(t)'
      BY <2>2, <2>4, <2>5 DEF Switching
    <3>2. \A u \in Numbers : u # t => (Switching(u) => Switching(u)')
      BY <2>2, <2>4 DEF Switching
    <3> QED BY <1>1, <1>4, <2>6, <3>1, <3>2 DEF Exposure, AccountExposed, Stored
  <2> QED BY <2>6, <2>8, <2>9, <2>10, <2>11, <2>12 DEF Exposure
<1>5. CASE switch' = [switch EXCEPT ![s] = Idle] /\ mixed' = mixed \cup {t} /\ told' = told
  <2>1. switch'[s] = Idle /\ \A u \in Switches : u # s => switch'[u] = switch[u]
    BY <1>5 DEF Inv, Types
  <2>2. SwitchAfter'
    BY <1>3, <2>1, SwitchNumber DEF Inv, Exposure, SwitchAfter
  <2>3. SettledAs' /\ Alone'
    BY <1>1, <1>5, <2>1 DEF Exposure, SettledAs, Alone
  <2>4. SwitchedTo'
    BY <1>5, <2>1 DEF Exposure, SwitchedTo, Idle
  <2>5. \A u \in Numbers : u # t /\ Switching(u) => Switching(u)'
    BY <2>1 DEF Switching
  <2>6. AccountExposed'
    BY <1>1, <1>5, <2>5 DEF Exposure, AccountExposed, Stored
  <2> QED BY <1>5, <2>2, <2>3, <2>4, <2>6 DEF Exposure
<1> QED BY <1>4, <1>5 DEF PublishSwitch

(* The account that is stored is the one the dApp was told. *)
LEMMA StoreExposure ==
  ASSUME Inv, Exposure, NEW s \in Switches, StoreAccount(s) PROVE Exposure'
<1> DEFINE t == switch[s].of
           a == switch[s].account
<1>1. /\ switch[s] # Idle /\ UNCHANGED <<task, told, mixed>>
      /\ switch' = [switch EXCEPT ![s] = Idle] /\ switch[s].pc = "store"
      /\ session' = [session EXCEPT ![t] = IF @ = None THEN None ELSE a]
  BY DEF StoreAccount, Idle, history
<1>2. t \in Numbers
  BY <1>1, SwitchNumber DEF Inv
<1>3. /\ switch'[s] = Idle /\ \A u \in Switches : u # s => switch'[u] = switch[u]
      /\ session'[t] = None \/ session'[t] = a
      /\ \A u \in Numbers : u # t => session'[u] = session[u]
  BY <1>1, <1>2 DEF Inv, Types
<1>4. \A u \in Numbers : Settled(u)' = Settled(u)
  BY <1>1 DEF Settled
<1>5. SwitchAfter'
  BY <1>3, <1>4, SwitchNumber DEF Inv, Exposure, SwitchAfter
<1>6. SettledAs' /\ Alone'
  BY <1>1, <1>3 DEF Exposure, SettledAs, Alone
<1>7. SwitchedTo'
  BY <1>1, <1>3 DEF Exposure, SwitchedTo, Idle
<1>8. AccountExposed'
  <2>1. t \notin mixed => told[t] = a
    BY <1>1 DEF Exposure, SwitchedTo
  <2>2. \A u \in Numbers : u # t /\ Switching(u) => Switching(u)'
    BY <1>3 DEF Switching
  <2> QED BY <1>1, <1>3, <2>1, <2>2 DEF Exposure, AccountExposed, Stored
<1> QED BY <1>1, <1>5, <1>6, <1>7, <1>8 DEF Exposure

(* Every step. *)
LEMMA NextExposure == ASSUME Inv, Exposure, [Next]_vars PROVE Exposure'
<1>1. CASE /\ UNCHANGED <<task, told, switch, mixed>>
           /\ \A t \in Numbers : session'[t] \in {session[t], None}
  BY <1>1, ExposureKept DEF Settled
<1>2. CASE UNCHANGED vars \/ SelectAccount
  BY <1>1, <1>2 DEF vars, calls, history, SelectAccount
<1>3. ASSUME NEW p \in Pairings,
             \/ PairStore(p) \/ PairSubscribe(p) \/ \E d \in Dispatchers : Deliver(d, p)
      PROVE  Exposure'
  BY <1>1, <1>3 DEF PairStore, PairSubscribe, Deliver, calls, history
<1>4. ASSUME NEW d \in Dispatchers, StartProposal(d) PROVE Exposure'
  <2>1. UNCHANGED <<told, switch, mixed, session>>
    BY <1>4 DEF StartProposal, calls, history
  <2>2. CASE task' = task
    BY <1>1, <2>1, <2>2
  <2>3. CASE task' = [task EXCEPT ![spawned + 1] = [pc |-> "check", account |-> None,
                                                    pairing |-> dispatcher[d]]]
    <3>1. \A t \in Numbers : t # spawned + 1 => task'[t] = task[t]
      BY <2>3 DEF Inv, Types
    <3>2. spawned + 1 \in Numbers => /\ task'[spawned + 1].pc = "check"
                                     /\ task[spawned + 1].pc = "none"
      BY <2>3 DEF Inv, Types, Proposals, Fresh, Numbers
    <3>3. \A t \in Numbers : Settled(t) => Settled(t)'
      BY <3>1, <3>2 DEF Settled
    <3>4. \A t \in Numbers : (task[t].pc \in {"handler", "session"})' => task'[t] = task[t]
      BY <3>1, <3>2
    <3> QED BY <2>1, <3>3, <3>4, ExposureKept
  <2> QED BY <1>4, <2>2, <2>3 DEF StartProposal, Spawn
<1>5. ASSUME NEW t \in Numbers, CloseStep(t) \/ Disconnect(t) \/ PeerDelete(t) PROVE Exposure'
  <2>1. UNCHANGED <<task, told, switch, mixed>>
    BY <1>5 DEF CloseStep, PublishDelete, Unsubscribe, RemoveSession, RemoveHandler,
                Disconnect, PeerDelete, history
  <2>2. session' = session \/ session' = [session EXCEPT ![t] = None]
    BY <1>5 DEF CloseStep, PublishDelete, Unsubscribe, RemoveSession, RemoveHandler,
                Disconnect, PeerDelete
  <2>3. \A u \in Numbers : session'[u] \in {session[u], None}
    BY <2>2 DEF Inv, Types
  <2> QED BY <1>1, <2>1, <2>3
<1>6. ASSUME NEW r \in Requests,
             RequestStep(r) \/ PublishAnswer(r) \/ \E t \in Numbers : DispatchRequest(r, t)
      PROVE  Exposure'
  BY <1>1, <1>6 DEF RequestStep, ReadSession, ReadHandler, PublishAnswer, DispatchRequest,
                    history
<1>7. ASSUME NEW t \in Numbers, ProposalStep(t) \/ AnswerProposal(t) PROVE Exposure'
  <2>1. CASE Settle(t) \/ InsertSession(t)
    BY <2>1, SettleExposure, InsertExposure
  <2>2. CASE ReadAccount(t)
    <3>1. /\ UNCHANGED <<told, switch, mixed, session>> /\ task[t].pc = "account"
          /\ task' = [task EXCEPT ![t].pc = "respond", ![t].account = account]
      BY <2>2 DEF ReadAccount, calls, history
    <3>2. task'[t].pc = "respond" /\ \A u \in Numbers : u # t => task'[u] = task[u]
      BY <3>1 DEF Inv, Types
    <3>3. \A u \in Numbers : Settled(u) => Settled(u)'
      BY <3>1, <3>2 DEF Settled
    <3> QED BY <3>1, <3>2, <3>3, ExposureKept
  <2>3. CASE CheckProposal(t) \/ AnswerProposal(t) \/ RejectProposal(t) \/ SubscribeSession(t)
             \/ Respond(t) \/ InsertHandler(t) \/ RemovePairing(t) \/ FinishProposal(t)
    <3>1. UNCHANGED <<told, switch, mixed, session>>
      BY <2>3 DEF CheckProposal, AnswerProposal, RejectProposal, SubscribeSession, Respond,
                  InsertHandler, RemovePairing, FinishProposal, calls, history
    <3>2. \/ Goto(t, "handler", "session") \/ Goto(t, "remove", "finish")
          \/ Goto(t, "finish", "over")
          \/ \E from \in {"check", "dialog", "reject", "subscribe", "respond"},
                to \in {"dialog", "reject", "finish", "subscribe", "remove", "account",
                        "settle"} : Goto(t, from, to)
      BY <2>3 DEF CheckProposal, AnswerProposal, RejectProposal, SubscribeSession, Respond,
                  InsertHandler, RemovePairing, FinishProposal, Ask
    <3> QED BY <3>1, <3>2, GotoExposure DEF Pcs
  <2> QED BY <1>7, <2>1, <2>2, <2>3 DEF ProposalStep
<1> QED BY <1>2, <1>3, <1>4, <1>5, <1>6, <1>7, SwitchAccountExposure, PublishSwitchExposure,
           StoreExposure DEF Next, SwitchStep

(* The address of a session is the account exposed to the dApp, as store.rs
   says: for any number of sessions and calls, and whatever account the wallet
   selects meanwhile, the account that is stored is the one the dApp was told
   last, outside a switch and unless switches overlapped or failed. *)
THEOREM AlwaysAccountExposed == Spec => []AccountExposed
<1>1. Exposure => AccountExposed
  BY DEF Exposure
<1>2. Spec => [](Inv /\ Exposure)
  BY InitInv, NextInv, InitExposure, NextExposure, PTL DEF Spec
<1> QED BY <1>1, <1>2, PTL
------------------------------------------------------------------------------
(* A session that was deleted is gone, or a task is on its way to remove it,
   unless its end arrived before it was stored or the relay failed. *)
Ending ==
  \A t \in Numbers : t \in deleted /\ t \notin unsettled =>
    /\ Settled(t)
    /\ Stored(t) => \E w \in Sides : closing[t][w] \in {"unsubscribe", "session"}

(* The safety half of DeletedIsForgotten: whatever switches, requests and ends
   of the session are still under way, it is not stored again. *)
ForgottenStays ==
  [][\A t \in Numbers : t \in deleted /\ t \notin unsettled /\ ~Stored(t) => ~Stored(t)']_vars

(* A task that can no longer store its session never can again. *)
LEMMA StillSettled ==
  ASSUME Inv, [Next]_vars PROVE \A u \in Numbers : Settled(u) => Settled(u)'
<1>1. CASE UNCHANGED task
  BY <1>1 DEF Settled
<1>2. ASSUME NEW d \in Dispatchers, StartProposal(d)
      PROVE  \A u \in Numbers : Settled(u) => Settled(u)'
  <2>1. CASE task' = [task EXCEPT ![spawned + 1] = [pc |-> "check", account |-> None,
                                                    pairing |-> dispatcher[d]]]
    <3>1. \A t \in Numbers : t # spawned + 1 => task'[t] = task[t]
      BY <2>1 DEF Inv, Types
    <3>2. spawned + 1 \in Numbers => task[spawned + 1].pc = "none"
      BY DEF Inv, Types, Proposals, Fresh, Numbers
    <3> QED BY <3>1, <3>2 DEF Settled
  <2> QED BY <1>1, <1>2, <2>1 DEF StartProposal, Spawn
<1>3. ASSUME NEW t \in Numbers, ProposalStep(t) \/ AnswerProposal(t)
      PROVE  \A u \in Numbers : Settled(u) => Settled(u)'
  <2>1. CASE ReadAccount(t)
    <3>1. task[t].pc = "account" /\ \A u \in Numbers : u # t => task'[u] = task[u]
      BY <2>1 DEF ReadAccount, Inv, Types
    <3> QED BY <3>1 DEF Settled
  <2>2. CASE \/ Goto(t, "remove", "finish") \/ Goto(t, "finish", "over")
             \/ \E from \in Pcs \ {"remove", "finish", "over"}, to \in Pcs : Goto(t, from, to)
    <3>1. PICK from \in Pcs, to \in Pcs :
            /\ Goto(t, from, to)
            /\ from \in {"remove", "finish", "over"} => to \in {"remove", "finish", "over"}
      BY <2>2 DEF Pcs
    <3>2. /\ task[t].pc = from /\ task'[t].pc = to
          /\ \A u \in Numbers : u # t => task'[u] = task[u]
      BY <3>1, TaskMoved DEF Goto, Inv
    <3> QED BY <3>1, <3>2 DEF Settled
  <2> QED BY <1>3, <2>1, <2>2 DEF ProposalStep, CheckProposal, AnswerProposal,
             RejectProposal, SubscribeSession, Respond, Settle, InsertHandler,
             InsertSession, RemovePairing, FinishProposal, Ask, Pcs
<1> QED
  <2>1. [Next]_vars =>
          \/ UNCHANGED task \/ \E d \in Dispatchers : StartProposal(d)
          \/ \E t \in Numbers : ProposalStep(t) \/ AnswerProposal(t)
    BY DEF Next, vars, PairStore, PairSubscribe, Deliver, CloseStep, PublishDelete,
           Unsubscribe, RemoveSession, RemoveHandler, Disconnect, PeerDelete, SwitchStep,
           PublishSwitch, StoreAccount, SwitchAccount, RequestStep, ReadSession,
           ReadHandler, PublishAnswer, DispatchRequest, SelectAccount
  <2> QED BY <1>1, <1>2, <1>3, <2>1

(* Only its own task stores a session that is not there: a switch stores an
   account in a session it finds. *)
LEMMA NotStoredAgain ==
  ASSUME Inv, Exposure, [Next]_vars
  PROVE  \A u \in Numbers : Settled(u) /\ ~Stored(u) => ~Stored(u)'
<1>1. CASE \A u \in Numbers : session'[u] \in {session[u], None}
  BY <1>1 DEF Stored
<1>2. CASE UNCHANGED session
  BY <1>1, <1>2
<1>3. ASSUME NEW t \in Numbers, InsertSession(t)
      PROVE  \A u \in Numbers : Settled(u) /\ ~Stored(u) => ~Stored(u)'
  <2>1. ~Settled(t)
    BY <1>3 DEF InsertSession, Goto, Settled
  <2>2. \A u \in Numbers : u # t => session'[u] = session[u]
    BY <1>3 DEF InsertSession, Inv, Types
  <2> QED BY <2>1, <2>2 DEF Stored
<1>4. ASSUME NEW t \in Numbers, NEW w \in Sides, RemoveSession(t, w)
      PROVE  \A u \in Numbers : Settled(u) /\ ~Stored(u) => ~Stored(u)'
  BY <1>1, <1>4 DEF RemoveSession, Inv, Types
<1>5. ASSUME NEW s \in Switches, StoreAccount(s)
      PROVE  \A u \in Numbers : Settled(u) /\ ~Stored(u) => ~Stored(u)'
  BY <1>5 DEF StoreAccount, Stored, Inv, Types
<1> QED
  <2>1. [Next]_vars =>
          \/ UNCHANGED session
          \/ \E t \in Numbers : InsertSession(t) \/ \E w \in Sides : RemoveSession(t, w)
          \/ \E s \in Switches : StoreAccount(s)
    BY DEF Next, vars, PairStore, PairSubscribe, Deliver, StartProposal, ProposalStep,
           CheckProposal, AnswerProposal, RejectProposal, SubscribeSession, ReadAccount,
           Respond, Settle, InsertHandler, RemovePairing, FinishProposal, CloseStep,
           PublishDelete, Unsubscribe, RemoveHandler, Disconnect, PeerDelete, SwitchStep,
           PublishSwitch, SwitchAccount, RequestStep, ReadSession, ReadHandler,
           PublishAnswer, DispatchRequest, SelectAccount
  <2> QED BY <1>2, <1>3, <1>4, <1>5, <2>1

(* The two ways to end a session: each takes over when it deletes it, and goes
   on until it is removed or the relay fails. *)
LEMMA CloseEnding ==
  ASSUME Inv, Ending, NEW t \in Numbers,
         CloseStep(t) \/ Disconnect(t) \/ PeerDelete(t),
         \A u \in Numbers : Settled(u) => Settled(u)',
         \A u \in Numbers : Settled(u) /\ ~Stored(u) => ~Stored(u)'
  PROVE  Ending'
<1> USE DEF Sides
<1>1. closing \in [Numbers -> [Sides -> {"idle", "publish", "unsubscribe", "session",
                                         "handler"}]]
  BY DEF Inv, Types
<1>2. \A w \in Sides : closing[t][w] # "idle" => Settled(t)
  BY DEF Inv, Sessions, AfterSettled
<1>3. Stored(t) => Settled(t)
  BY DEF Inv, Sessions, AfterSettled
<1>4. ASSUME NEW u \in Numbers, u # t, u \in deleted', u \notin unsettled'
      PROVE  /\ Settled(u)'
             /\ Stored(u)' => \E w \in Sides : closing'[u][w] \in {"unsubscribe", "session"}
  <2>1. closing'[u] = closing[u] /\ u \in deleted /\ u \notin unsettled
    BY <1>1, <1>4 DEF CloseStep, PublishDelete, Unsubscribe, RemoveSession, RemoveHandler,
                      Disconnect, PeerDelete, Close, history
  <2> QED BY <2>1 DEF Ending
<1>5. ASSUME t \in deleted', t \notin unsettled'
      PROVE  /\ Settled(t)'
             /\ Stored(t)' => \E w \in Sides : closing'[t][w] \in {"unsubscribe", "session"}
  <2>1. CASE PublishDelete(t)
    <3>1. CASE t \in deleted /\ t \notin unsettled /\ Close(t, "user", "idle")
      BY <1>1, <2>1, <3>1 DEF PublishDelete, Close, Ending
    <3>2. CASE Close(t, "user", "unsubscribe")
      BY <1>1, <1>2, <2>1, <3>2 DEF PublishDelete, Close
    <3> QED BY <1>5, <2>1, <3>1, <3>2 DEF PublishDelete
  <2>2. CASE Unsubscribe(t)
    BY <1>1, <1>2, <1>5, <2>2 DEF Unsubscribe, Close
  <2>3. ASSUME NEW w \in Sides, RemoveSession(t, w) PROVE Settled(t) /\ ~Stored(t)'
    BY <1>2, <2>3 DEF RemoveSession, Stored, Inv, Types
  <2>4. ASSUME NEW w \in Sides, RemoveHandler(t, w) PROVE Settled(t) /\ ~Stored(t)'
    <3>1. ~Stored(t)
      BY <2>4 DEF RemoveHandler, Inv, Sessions, HandlerLast
    <3> QED BY <1>2, <2>4, <3>1 DEF RemoveHandler, Stored
  <2>5. CASE Disconnect(t)
    BY <1>1, <1>5, <2>5 DEF Disconnect, Close, Ending, history
  <2>6. CASE PeerDelete(t)
    BY <1>1, <1>3, <1>5, <2>6 DEF PeerDelete, Close
  <2> QED BY <2>1, <2>2, <2>3, <2>4, <2>5, <2>6 DEF CloseStep
<1> QED BY <1>4, <1>5 DEF Ending

LEMMA NextEnding == ASSUME Inv, Exposure, Ending, [Next]_vars PROVE Ending'
<1>1. \A u \in Numbers : Settled(u) => Settled(u)'
  BY StillSettled
<1>2. \A u \in Numbers : Settled(u) /\ ~Stored(u) => ~Stored(u)'
  BY NotStoredAgain
<1>3. CASE UNCHANGED <<closing, deleted, unsettled>>
  BY <1>1, <1>2, <1>3 DEF Ending
<1>4. \/ UNCHANGED <<closing, deleted, unsettled>>
      \/ \E t \in Numbers : CloseStep(t) \/ Disconnect(t) \/ PeerDelete(t)
  BY DEF Next, vars, calls, history, PairStore, PairSubscribe, Deliver, StartProposal,
         ProposalStep, CheckProposal, AnswerProposal, RejectProposal, SubscribeSession,
         ReadAccount, Respond, Settle, InsertHandler, InsertSession, RemovePairing,
         FinishProposal, SwitchStep, PublishSwitch, StoreAccount, SwitchAccount,
         RequestStep, ReadSession, ReadHandler, PublishAnswer, DispatchRequest,
         SelectAccount
<1> QED BY <1>1, <1>2, <1>3, <1>4, CloseEnding

(* The inductive invariant of all sessions. *)
THEOREM EndingInvariance == Spec => [](Inv /\ Exposure /\ Ending)
<1>1. Init => Ending
  BY DEF Init, Ending
<1> QED BY <1>1, InitInv, NextInv, InitExposure, NextExposure, NextEnding, PTL DEF Spec

(* A session that is over for the dApp is gone or about to go: disconnect() or
   the task of wc_sessionDelete has not yet removed it, unless its end arrived
   before it was stored or the relay failed. *)
THEOREM DeletedAlwaysEnding == Spec => []Ending
BY EndingInvariance, PTL

(* Once it is gone it stays so: a switch_account or a proposal that is still
   under way does not bring it back. *)
THEOREM ForgottenForGood == Spec => ForgottenStays
<1>1. Inv /\ Exposure /\ Ending /\ [Next]_vars =>
        [\A t \in Numbers : t \in deleted /\ t \notin unsettled /\ ~Stored(t) => ~Stored(t)']_vars
  BY NotStoredAgain DEF Ending
<1> QED BY <1>1, EndingInvariance, PTL DEF Spec, ForgottenStays
==============================================================================
