------------------------------- MODULE Dialogs -------------------------------
(***************************************************************************)
(* Dialog windows (crates/dialogs, bin/src/windows/dialogs.rs): a request  *)
(* handler that owns a Dialog and waits for the user's answer, the window  *)
(* the UI shows for it, and the Tauri commands and window events that look *)
(* the dialog up in the global map.                                        *)
(*                                                                         *)
(* Two locks are taken across awaits: OPEN_DIALOGS, a Mutex around the     *)
(* map, and the RwLock `inner` of each dialog.  Commands take the map and  *)
(* then read `inner`; the task spawned by Drop takes `inner` for writing   *)
(* and then the map.  tokio's RwLock is fair: a reader that arrives while  *)
(* the writer waits is queued behind it.                                   *)
(***************************************************************************)
EXTENDS Naturals, Sequences, FiniteSets, TLC

CONSTANTS Dialogs,    \* dialogs, each opened by one request handler
          Commands,   \* slots for commands and window events being served
          Free,       \* nobody holds the map
          MaxAnswers  \* bound on the user's clicks

VARIABLES handler,   \* dialog -> where its request handler is
          dropTask,  \* dialog -> where the task spawned by Drop is
          inbound,   \* dialog -> answers sent and not yet received
          readers,   \* dialog -> holders of inner.read()
          writing,   \* dialog -> the Drop task holds inner.write()
          mapHolder, \* the command that holds OPEN_DIALOGS across an await
          open,      \* the dialogs in OPEN_DIALOGS
          command,   \* slot -> the command it serves
          ui,        \* DialogOpen and DialogClose messages to the app
          window,    \* dialog -> its window
          answers

vars == <<handler, dropTask, inbound, readers, writing, mapHolder, open,
          command, ui, window, answers>>

ASSUME DialogsAssumption == Free \notin Commands /\ MaxAnswers \in Nat

NoCommand == [at |-> "idle"]
Answers   == {"accept", "other"}         \* what dialog_send may carry

(* The statement-long uses of OPEN_DIALOGS.lock() need nobody to hold it. *)
MapFree == mapHolder = Free

(* An attempt to read inner: granted unless the writer holds it or waits. *)
MayRead(d) == ~writing[d] /\ dropTask[d] # "write"
------------------------------------------------------------------------------
(* Dialog::open: inner.read(), *)
OpenRead(d) ==
  /\ handler[d] = "new" /\ MayRead(d)
  /\ handler' = [handler EXCEPT ![d] = "opening"]
  /\ readers' = [readers EXCEPT ![d] = @ \cup {d}]
  /\ UNCHANGED <<dropTask, inbound, writing, mapHolder, open, command, ui, window, answers>>

(* insert into the map, *)
OpenNoInsert(d) ==
  /\ handler[d] = "opening" /\ MapFree
  /\ handler' = [handler EXCEPT ![d] = "inserted"]
  /\ UNCHANGED <<dropTask, inbound, readers, writing, mapHolder, open, command, ui, window, answers>>

OpenInsert(d) ==
  /\ handler[d] = "opening" /\ MapFree
  /\ handler' = [handler EXCEPT ![d] = "inserted"]
  /\ open' = open \cup {d}
  /\ UNCHANGED <<dropTask, inbound, readers, writing, mapHolder, command, ui, window, answers>>

(* and ask the app for the window. *)
OpenSend(d) ==
  /\ handler[d] = "inserted"
  /\ handler' = [handler EXCEPT ![d] = "opened"]
  /\ readers' = [readers EXCEPT ![d] = @ \ {d}]
  /\ ui' = Append(ui, [kind |-> "DialogOpen", d |-> d])
  /\ UNCHANGED <<dropTask, inbound, writing, mapHolder, open, command, window, answers>>

(* Dialog::recv holds inner.read() while it waits. *)
RecvRead(d) ==
  /\ handler[d] = "opened" /\ MayRead(d)
  /\ handler' = [handler EXCEPT ![d] = "receiving"]
  /\ readers' = [readers EXCEPT ![d] = @ \cup {d}]
  /\ UNCHANGED <<dropTask, inbound, writing, mapHolder, open, command, ui, window, answers>>

(* The handlers' loops end on an accept and on Close and go on otherwise;
   when they return, the Dialog is dropped and its task spawned. *)
EndsRequest(m) == m \in {"accept", "close"}

RecvMsg(d) ==
  /\ handler[d] = "receiving" /\ inbound[d] # <<>>
  /\ inbound' = [inbound EXCEPT ![d] = Tail(@)]
  /\ readers' = [readers EXCEPT ![d] = @ \ {d}]
  /\ IF EndsRequest(Head(inbound[d]))
     THEN /\ handler' = [handler EXCEPT ![d] = "returned"]
          /\ dropTask' = [dropTask EXCEPT ![d] = "write"]
     ELSE /\ handler' = [handler EXCEPT ![d] = "opened"]
          /\ UNCHANGED dropTask
  /\ UNCHANGED <<writing, mapHolder, open, command, ui, window, answers>>

(* impl Drop: inner.write(), *)
DropWrite(d) ==
  /\ dropTask[d] = "write" /\ readers[d] = {}
  /\ dropTask' = [dropTask EXCEPT ![d] = "lock"]
  /\ writing' = [writing EXCEPT ![d] = TRUE]
  /\ UNCHANGED <<handler, inbound, readers, mapHolder, open, command, ui, window, answers>>

(* remove from the map and ask the app to close the window. *)
DropNoClose(d) ==
  /\ dropTask[d] = "lock" /\ MapFree
  /\ dropTask' = [dropTask EXCEPT ![d] = "done"]
  /\ writing' = [writing EXCEPT ![d] = FALSE]
  /\ open' = open \ {d}
  /\ UNCHANGED <<handler, inbound, readers, mapHolder, command, ui, window, answers>>

DropRemove(d) ==
  /\ dropTask[d] = "lock" /\ MapFree
  /\ dropTask' = [dropTask EXCEPT ![d] = "done"]
  /\ writing' = [writing EXCEPT ![d] = FALSE]
  /\ open' = open \ {d}
  /\ ui' = Append(ui, [kind |-> "DialogClose", d |-> d])
  /\ UNCHANGED <<handler, inbound, readers, mapHolder, command, window, answers>>
------------------------------------------------------------------------------
(* A command or window event starts to be served in a free slot. *)
Serve(k, d, kind) ==
  /\ command[k] = NoCommand
  /\ command' = [command EXCEPT ![k] = [at |-> "lock", d |-> d, kind |-> kind]]

(* The page loads its payload and sends answers, while the window is there. *)
UserActs(k, d) ==
  /\ window[d] = "open"
  /\ answers < MaxAnswers /\ answers' = answers + 1
  /\ \E kind \in {"get_payload"} \cup Answers : Serve(k, d, kind)
  /\ UNCHANGED <<handler, dropTask, inbound, readers, writing, mapHolder, open, ui, window>>

(* The user closes the window: CloseRequested, *)
UserCloses(k, d) ==
  /\ window[d] = "open"
  /\ window' = [window EXCEPT ![d] = "closing"]
  /\ Serve(k, d, "close")
  /\ UNCHANGED <<handler, dropTask, inbound, readers, writing, mapHolder, open, ui, answers>>

(* and then Destroyed; both events spawn dialog_close. *)
Destroyed(k, d) ==
  /\ window[d] = "closing"
  /\ window' = [window EXCEPT ![d] = "closed"]
  /\ Serve(k, d, "close")
  /\ UNCHANGED <<handler, dropTask, inbound, readers, writing, mapHolder, open, ui, answers>>

(* The app's event loop opens and closes windows; closing one raises
   CloseRequested as well. *)
AppOpens ==
  /\ ui # <<>> /\ Head(ui).kind = "DialogOpen"
  /\ window' = [window EXCEPT ![Head(ui).d] = "open"]
  /\ ui' = Tail(ui)
  /\ UNCHANGED <<handler, dropTask, inbound, readers, writing, mapHolder, open, command, answers>>

AppCloses(k) ==
  /\ ui # <<>> /\ Head(ui).kind = "DialogClose"
  /\ ui' = Tail(ui)
  /\ LET d == Head(ui).d IN
     IF window[d] = "open"
     THEN /\ window' = [window EXCEPT ![d] = "closing"]
          /\ Serve(k, d, "close")
     ELSE UNCHANGED <<window, command>>
  /\ UNCHANGED <<handler, dropTask, inbound, readers, writing, mapHolder, open, answers>>

(* dialog_get_payload, dialog_send, dialog_close: lock the map and look the
   dialog up; one that is not there ends the command. *)
CommandKeepsMap(k) ==
  /\ command[k].at = "lock" /\ MapFree
  /\ mapHolder' = k
  /\ command' = [command EXCEPT ![k] =
                   IF command[k].d \in open THEN [@ EXCEPT !.at = "read"] ELSE NoCommand]
  /\ UNCHANGED <<handler, dropTask, inbound, readers, writing, open, ui, window, answers>>

CommandLock(k) ==
  /\ command[k].at = "lock" /\ MapFree
  /\ IF command[k].d \in open
     THEN /\ mapHolder' = k
          /\ command' = [command EXCEPT ![k].at = "read"]
     ELSE /\ command' = [command EXCEPT ![k] = NoCommand]
          /\ UNCHANGED mapHolder
  /\ UNCHANGED <<handler, dropTask, inbound, readers, writing, open, ui, window, answers>>

(* Then, still holding the map, read inner and send into its channel. *)
CommandRead(k) ==
  /\ command[k].at = "read" /\ MayRead(command[k].d)
  /\ inbound' = IF command[k].kind = "get_payload" THEN inbound
                ELSE [inbound EXCEPT ![command[k].d] = Append(@, command[k].kind)]
  /\ mapHolder' = Free
  /\ command' = [command EXCEPT ![k] = NoCommand]
  /\ UNCHANGED <<handler, dropTask, readers, writing, open, ui, window, answers>>
------------------------------------------------------------------------------
Init ==
  /\ handler = [d \in Dialogs |-> "new"]
  /\ dropTask = [d \in Dialogs |-> "none"]
  /\ inbound = [d \in Dialogs |-> <<>>]
  /\ readers = [d \in Dialogs |-> {}]
  /\ writing = [d \in Dialogs |-> FALSE]
  /\ mapHolder = Free
  /\ open = {}
  /\ command = [k \in Commands |-> NoCommand]
  /\ ui = <<>>
  /\ window = [d \in Dialogs |-> "none"]
  /\ answers = 0

HandlerStep(d) == OpenRead(d) \/ OpenInsert(d) \/ OpenSend(d)
                  \/ RecvRead(d) \/ RecvMsg(d)
DropStep(d)    == DropWrite(d) \/ DropRemove(d)
CommandStep(k) == CommandLock(k) \/ CommandRead(k)
AppStep        == AppOpens \/ \E k \in Commands : AppCloses(k)
WindowGone(d)  == \E k \in Commands : Destroyed(k, d)

Next ==
  \/ \E d \in Dialogs : HandlerStep(d) \/ DropStep(d) \/ WindowGone(d)
  \/ \E k \in Commands : CommandStep(k)
  \/ AppStep
  \/ \E k \in Commands, d \in Dialogs : UserActs(k, d) \/ UserCloses(k, d)

(* Tasks and the app's event loop run when they can.  The map's mutex is
   fair, so a task that can take it again and again gets it.  The user owes
   no answer. *)
Fairness ==
  /\ \A d \in Dialogs : SF_vars(HandlerStep(d)) /\ SF_vars(DropStep(d))
  /\ \A d \in Dialogs : WF_vars(WindowGone(d))
  /\ \A k \in Commands : SF_vars(CommandStep(k))
  /\ WF_vars(AppStep)

Spec     == Init /\ [][Next]_vars
FairSpec == Spec /\ Fairness
------------------------------------------------------------------------------
(* While a handler can still be answered, the window that shows its dialog
   finds it in the map: get_payload and the answers do not fail. *)
WindowFindsDialog ==
  \A d \in Dialogs :
    window[d] # "none" /\ dropTask[d] \in {"none", "write"} => d \in open

(* The map and a dialog held each by one that waits for the other. *)
Deadlocked ==
  \E k \in Commands :
    command[k].at = "read" /\ mapHolder = k /\ dropTask[command[k].d] \in {"write", "lock"}

(* Closing the window ends the request: its handler gets the Close and
   returns, or the two locks are deadlocked.  Nothing else can hold it up. *)
CloseEndsRequest ==
  \A d \in Dialogs :
    (window[d] \in {"closing", "closed"}) ~> (handler[d] = "returned" \/ Deadlocked)

(* The window of a dropped dialog is closed, or the locks are deadlocked. *)
DropClosesUnlessDeadlocked ==
  \A d \in Dialogs : (dropTask[d] # "none") ~> (window[d] = "closed" \/ Deadlocked)

(* What handle.rs says of Dialog: it will automatically close on Drop. *)
ClosesOnDrop ==
  \A d \in Dialogs : (dropTask[d] # "none") ~> (window[d] = "closed")
==============================================================================
