---------------------------- MODULE DialogsProofs ----------------------------
(***************************************************************************)
(* Of the dialogs, for any number of them and of overlapping commands: a   *)
(* window finds the dialog it shows in the map for as long as its handler  *)
(* can be answered; and the deadlock of the map and a dialog's lock, once  *)
(* there, is there for good.                                               *)
(*                                                                         *)
(* A window exists because a DialogOpen was sent, which is why the order   *)
(* in which open() inserts and sends matters: Shown says it of the windows *)
(* and of the messages on their way.  That the Drop task holds the lock    *)
(* for writing while it waits for the map is WriterLocks.                  *)
(***************************************************************************)
EXTENDS Dialogs, TLAPS

HandlerStates == {"new", "opening", "inserted", "opened", "receiving", "returned"}
DropStates    == {"none", "write", "lock", "done"}
WindowStates  == {"none", "open", "closing", "closed"}

Served        == [at : {"lock", "read"}, d : Dialogs,
                  kind : {"get_payload", "close"} \cup Answers]

DialogTypes ==
  /\ handler \in [Dialogs -> HandlerStates] /\ dropTask \in [Dialogs -> DropStates]
  /\ window \in [Dialogs -> WindowStates] /\ writing \in [Dialogs -> BOOLEAN]
  /\ ui \in Seq([kind : {"DialogOpen", "DialogClose"}, d : Dialogs])
  /\ command \in [Commands -> {NoCommand} \cup Served]

(* The request handler is past the insertion into the map. *)
Inserted(d) == handler[d] \in {"inserted", "opened", "receiving", "returned"}

(* The window of a dialog was asked for, and is there or will be. *)
Asked(d) == window[d] # "none" \/ \E i \in DOMAIN ui : ui[i].d = d

Shown == \A d \in Dialogs : Asked(d) => Inserted(d)

InMap == \A d \in Dialogs : Inserted(d) /\ dropTask[d] # "done" => d \in open

(* Drop comes when the handler returns. *)
DropAfterReturn == \A d \in Dialogs : dropTask[d] # "none" => handler[d] = "returned"

WriterLocks == \A d \in Dialogs : dropTask[d] = "lock" => writing[d]

(* A command reads inner with the map in its hands. *)
HoldsMap == \A k \in Commands : command[k].at = "read" => mapHolder = k

Inv == DialogTypes /\ Shown /\ InMap /\ DropAfterReturn /\ WriterLocks /\ HoldsMap
------------------------------------------------------------------------------
LEMMA InitInv == Init => Inv
BY DEF Init, Inv, DialogTypes, HandlerStates, DropStates, WindowStates, Shown, InMap,
       DropAfterReturn, WriterLocks, HoldsMap, NoCommand, Asked, Inserted

(* The steps of a handler: it inserts before it asks for the window. *)
LEMMA HandlerInv == ASSUME Inv, NEW d \in Dialogs, HandlerStep(d) PROVE Inv'
<1> USE DEF Inv
<1>1. /\ UNCHANGED <<writing, window, command, mapHolder>> /\ open \subseteq open'
      /\ \A e \in Dialogs : Inserted(e) => Inserted(e)'
  BY DEF HandlerStep, OpenRead, OpenInsert, OpenSend, RecvRead, RecvMsg, Inserted,
         DialogTypes, HandlerStates
<1>2. CASE OpenRead(d) \/ RecvRead(d)
  BY <1>1, <1>2 DEF OpenRead, RecvRead, DialogTypes, HandlerStates, Shown, Asked, InMap,
                    Inserted, DropAfterReturn, WriterLocks, HoldsMap
<1>3. CASE OpenInsert(d)
  BY <1>1, <1>3 DEF OpenInsert, DialogTypes, HandlerStates, Shown, Asked, InMap,
                    Inserted, DropAfterReturn, WriterLocks, HoldsMap
<1>4. CASE OpenSend(d)
  <2>1. PICK m : m = [kind |-> "DialogOpen", d |-> d]
    OBVIOUS
  <2>2. ui \in Seq([kind : {"DialogOpen", "DialogClose"}, d : Dialogs]) /\ ui' = Append(ui, m)
        /\ m \in [kind : {"DialogOpen", "DialogClose"}, d : Dialogs]
    BY <1>4, <2>1 DEF OpenSend, DialogTypes
  <2>3. DialogTypes' /\ DropAfterReturn' /\ WriterLocks' /\ InMap' /\ HoldsMap'
    BY <1>1, <1>4, <2>2 DEF OpenSend, DialogTypes, HandlerStates, InMap, Inserted,
                            DropAfterReturn, WriterLocks, HoldsMap
  <2>4. \A i \in DOMAIN ui' : ui'[i].d = d \/ (i \in DOMAIN ui /\ ui'[i] = ui[i])
    BY <2>1, <2>2
  <2>5. Inserted(d)
    BY <1>4 DEF OpenSend, Inserted
  <2>6. Shown'
    BY <1>1, <2>4, <2>5 DEF Shown, Asked
  <2> QED BY <2>3, <2>6
<1>5. CASE RecvMsg(d)
  BY <1>1, <1>5 DEF RecvMsg, DialogTypes, HandlerStates, DropStates, Shown, Asked, InMap,
                    Inserted, DropAfterReturn, WriterLocks, HoldsMap
<1> QED BY <1>2, <1>3, <1>4, <1>5 DEF HandlerStep

(* The task spawned by Drop. *)
LEMMA DropInv == ASSUME Inv, NEW d \in Dialogs, DropStep(d) PROVE Inv'
<1> USE DEF Inv
<1>1. CASE DropWrite(d)
  BY <1>1 DEF DropWrite, DialogTypes, DropStates, Shown, Asked, InMap, Inserted,
              DropAfterReturn, WriterLocks, HoldsMap
<1>2. CASE DropRemove(d)
  <2>1. PICK m : m = [kind |-> "DialogClose", d |-> d]
    OBVIOUS
  <2>2. ui \in Seq([kind : {"DialogOpen", "DialogClose"}, d : Dialogs]) /\ ui' = Append(ui, m)
        /\ m \in [kind : {"DialogOpen", "DialogClose"}, d : Dialogs]
    BY <1>2, <2>1 DEF DropRemove, DialogTypes
  <2>3. DialogTypes' /\ DropAfterReturn' /\ WriterLocks' /\ InMap' /\ HoldsMap'
    BY <1>2, <2>2 DEF DropRemove, DialogTypes, DropStates, InMap, Inserted,
                      DropAfterReturn, WriterLocks, HoldsMap
  <2>4. \A i \in DOMAIN ui' : ui'[i].d = d \/ (i \in DOMAIN ui /\ ui'[i] = ui[i])
    BY <2>1, <2>2
  <2>5. Inserted(d)
    BY <1>2 DEF DropRemove, Inserted, DropAfterReturn
  <2>6. Shown'
    BY <1>2, <2>4, <2>5 DEF DropRemove, Shown, Asked, Inserted
  <2> QED BY <2>3, <2>6
<1> QED BY <1>1, <1>2 DEF DropStep

(* Serving starts a command that waits for the map. *)
LEMMA ServeTypes ==
  ASSUME Inv, NEW k \in Commands, NEW d \in Dialogs,
         NEW kind \in {"get_payload", "close"} \cup Answers, Serve(k, d, kind),
         UNCHANGED mapHolder
  PROVE  command' \in [Commands -> {NoCommand} \cup Served] /\ HoldsMap'
<1>1. PICK c : c = [at |-> "lock", d |-> d, kind |-> kind]
  OBVIOUS
<1>2. c \in Served /\ c.at # "read" /\ command' = [command EXCEPT ![k] = c]
  BY <1>1 DEF Served, Serve
<1> QED BY <1>2 DEF Inv, DialogTypes, HoldsMap

(* The windows: one is opened because it was asked for. *)
LEMMA WindowInv ==
  ASSUME Inv, DialogTypes', HoldsMap', UNCHANGED <<handler, dropTask, writing, open>>,
         \A d \in Dialogs : Asked(d)' => Asked(d)
  PROVE  Inv'
BY DEF Inv, Shown, Inserted, InMap, DropAfterReturn, WriterLocks, HoldsMap

LEMMA AppInv == ASSUME Inv, AppStep PROVE Inv'
<1>1. UNCHANGED <<handler, dropTask, writing, open>> /\ ui # <<>> /\ ui' = Tail(ui)
  BY DEF AppStep, AppOpens, AppCloses
<1>2. ui \in Seq([kind : {"DialogOpen", "DialogClose"}, d : Dialogs])
  BY DEF Inv, DialogTypes
<1>3. /\ ui' \in Seq([kind : {"DialogOpen", "DialogClose"}, d : Dialogs])
      /\ ui[1].d \in Dialogs /\ Head(ui) = ui[1] /\ 1 \in DOMAIN ui
      /\ \A i \in DOMAIN ui' : i + 1 \in DOMAIN ui /\ ui'[i] = ui[i + 1]
  <2>1. PICK U : U = [kind : {"DialogOpen", "DialogClose"}, d : Dialogs]
    OBVIOUS
  <2>2. ui \in Seq(U) /\ Len(ui) \in Nat /\ 1 \in DOMAIN ui /\ Head(ui) = ui[1]
    BY <1>1, <1>2, <2>1
  <2>3. ui[1] \in U /\ ui' \in Seq(U)
    BY <1>1, <2>2
  <2>4. \A i \in DOMAIN ui' : i + 1 \in DOMAIN ui /\ ui'[i] = ui[i + 1]
    BY <1>1, <2>2
  <2> QED BY <2>1, <2>2, <2>3, <2>4
<1>4. /\ window' \in [Dialogs -> WindowStates]
      /\ command' \in [Commands -> {NoCommand} \cup Served] /\ HoldsMap'
      /\ \A d \in Dialogs : window'[d] # "none" => window[d] # "none" \/ d = ui[1].d
  <2>1. CASE AppOpens
    BY <1>3, <2>1 DEF AppOpens, Inv, DialogTypes, WindowStates, HoldsMap
  <2>2. CASE \E k \in Commands : AppCloses(k)
    <3>1. PICK k \in Commands : AppCloses(k)
      BY <2>2
    <3>2. CASE window[ui[1].d] = "open"
      <4>1. window' = [window EXCEPT ![ui[1].d] = "closing"] /\ Serve(k, ui[1].d, "close")
            /\ UNCHANGED mapHolder
        BY <1>3, <3>1, <3>2 DEF AppCloses
      <4> QED BY <1>3, <3>2, <4>1, ServeTypes DEF Inv, DialogTypes, WindowStates
    <3>3. CASE window[ui[1].d] # "open"
      <4>1. UNCHANGED <<window, command, mapHolder>>
        BY <1>3, <3>1, <3>3 DEF AppCloses
      <4> QED BY <4>1 DEF Inv, DialogTypes, HoldsMap
    <3> QED BY <3>2, <3>3
  <2> QED BY <2>1, <2>2 DEF AppStep
<1>5. DialogTypes' /\ HoldsMap'
  BY <1>1, <1>3, <1>4 DEF Inv, DialogTypes
<1>6. \A d \in Dialogs : Asked(d)' => Asked(d)
  BY <1>3, <1>4 DEF Asked
<1> QED BY <1>1, <1>5, <1>6, WindowInv

(* The user, and the window events. *)
LEMMA UserInv ==
  ASSUME Inv, NEW k \in Commands, NEW d \in Dialogs,
         UserActs(k, d) \/ UserCloses(k, d) \/ Destroyed(k, d)
  PROVE  Inv'
<1>1. UNCHANGED <<handler, dropTask, writing, open, ui>>
  BY DEF UserActs, UserCloses, Destroyed
<1>2. /\ window' \in [Dialogs -> WindowStates]
      /\ \A e \in Dialogs : window'[e] # "none" => window[e] # "none"
  BY DEF UserActs, UserCloses, Destroyed, Inv, DialogTypes, WindowStates
<1>3. command' \in [Commands -> {NoCommand} \cup Served] /\ HoldsMap'
  <2>1. PICK kind \in {"get_payload", "close"} \cup Answers : Serve(k, d, kind)
    BY DEF UserActs, UserCloses, Destroyed
  <2>2. UNCHANGED mapHolder
    BY DEF UserActs, UserCloses, Destroyed
  <2> QED BY <2>1, <2>2, ServeTypes
<1>5. DialogTypes'
  BY <1>1, <1>2, <1>3 DEF Inv, DialogTypes
<1>4. \A e \in Dialogs : Asked(e)' => Asked(e)
  BY <1>1, <1>2 DEF Asked
<1> QED BY <1>1, <1>3, <1>4, <1>5, WindowInv

(* Commands look at the map and change neither it nor the windows. *)
LEMMA CommandInv == ASSUME Inv, NEW k \in Commands, CommandStep(k) PROVE Inv'
<1>1. UNCHANGED <<handler, dropTask, writing, open, ui, window>>
  BY DEF CommandStep, CommandLock, CommandRead
<1>2. command' \in [Commands -> {NoCommand} \cup Served] /\ HoldsMap'
  <2>1. CASE CommandLock(k)
    <3>1. command[k] \in Served
      BY <2>1 DEF CommandLock, Inv, DialogTypes, NoCommand
    <3>2. \A j \in Commands : command[j].at # "read"
      BY <2>1, DialogsAssumption DEF CommandLock, MapFree, Inv, HoldsMap
    <3>3. PICK c : c = IF command[k].d \in open THEN [command[k] EXCEPT !.at = "read"]
                       ELSE NoCommand
      OBVIOUS
    <3>4. c \in {NoCommand} \cup Served
      BY <3>1, <3>3 DEF Served
    <3>5. command' = [command EXCEPT ![k] = c] /\ (c.at = "read" => mapHolder' = k)
      BY <2>1, <3>1, <3>3 DEF CommandLock, Inv, DialogTypes, NoCommand
    <3> QED BY <3>2, <3>4, <3>5 DEF Inv, DialogTypes, HoldsMap
  <2>2. CASE CommandRead(k)
    <3>1. \A j \in Commands : j # k => command[j].at # "read"
      BY <2>2 DEF CommandRead, Inv, HoldsMap
    <3> QED BY <2>2, <3>1 DEF CommandRead, NoCommand, Inv, DialogTypes, HoldsMap
  <2> QED BY <2>1, <2>2 DEF CommandStep
<1>3. DialogTypes'
  BY <1>1, <1>2 DEF Inv, DialogTypes
<1> QED BY <1>1, <1>2, <1>3 DEF Inv, Shown, Asked, Inserted, InMap, DropAfterReturn,
                                WriterLocks

LEMMA NextInv == ASSUME Inv, [Next]_vars PROVE Inv'
<1>1. CASE UNCHANGED vars
  BY <1>1 DEF vars, Inv, DialogTypes, Shown, Asked, Inserted, InMap, DropAfterReturn,
              WriterLocks, HoldsMap
<1> QED BY <1>1, HandlerInv, DropInv, AppInv, UserInv, CommandInv DEF Next, WindowGone

(* The inductive invariant holds in every reachable state. *)
THEOREM Invariance == Spec => []Inv
BY InitInv, NextInv, PTL DEF Spec

(* open() inserts the dialog before it asks for the window, and Drop removes
   it only under the write lock: get_payload and dialog_send from a window
   never miss a dialog whose handler still waits. *)
THEOREM WindowAlwaysFindsDialog == Spec => []WindowFindsDialog
<1>1. Inv => WindowFindsDialog
  BY DEF Inv, Shown, Asked, InMap, WindowFindsDialog, DialogTypes
<1> QED BY <1>1, Invariance, PTL
------------------------------------------------------------------------------
(* Nothing undoes the deadlock that the Drop task and a command of the same
   dialog run into: no timeout, no answer and no other window. *)
DeadlockStays == [][Deadlocked => Deadlocked']_vars

(* A deadlocked command keeps the map and its place, and the Drop task that it
   waits for, or that waits for it, gets no further than its wait for the map. *)
LEMMA DeadlockKept == ASSUME Inv, Deadlocked, [Next]_vars PROVE Deadlocked'
<1>1. PICK k \in Commands : /\ command[k].at = "read" /\ mapHolder = k
                            /\ dropTask[command[k].d] \in {"write", "lock"}
  BY DEF Deadlocked
<1>2. command[k] \in Served /\ command[k].d \in Dialogs
  BY <1>1 DEF Inv, DialogTypes, NoCommand, Served
<1>3. ~MapFree /\ ~MayRead(command[k].d)
  BY <1>1, <1>2, DialogsAssumption DEF MapFree, MayRead, Inv, WriterLocks
<1>4. \A j \in Commands : CommandStep(j) => FALSE
  BY <1>1, <1>3 DEF CommandStep, CommandLock, CommandRead, Inv, HoldsMap
<1>5. \A j \in Commands, d \in Dialogs : \A kind : Serve(j, d, kind) => command'[k] = command[k]
  BY <1>1 DEF Serve, NoCommand, Inv, DialogTypes
<1>6. mapHolder' = mapHolder /\ command'[k] = command[k]
  <2>1. ASSUME NEW d \in Dialogs, HandlerStep(d) \/ DropStep(d)
        PROVE  UNCHANGED <<mapHolder, command>>
    BY <2>1 DEF HandlerStep, OpenRead, OpenInsert, OpenSend, RecvRead, RecvMsg,
                DropStep, DropWrite, DropRemove
  <2>2. ASSUME NEW j \in Commands, NEW d \in Dialogs,
               Destroyed(j, d) \/ UserActs(j, d) \/ UserCloses(j, d)
        PROVE  mapHolder' = mapHolder /\ command'[k] = command[k]
    BY <2>2, <1>5 DEF Destroyed, UserActs, UserCloses
  <2>3. ASSUME AppStep PROVE mapHolder' = mapHolder /\ command'[k] = command[k]
    <3>1. CASE AppOpens
      BY <3>1 DEF AppOpens
    <3>2. ASSUME NEW j \in Commands, AppCloses(j)
          PROVE  mapHolder' = mapHolder /\ command'[k] = command[k]
      BY <3>2, <1>1 DEF AppCloses, Serve, NoCommand, Inv, DialogTypes
    <3> QED BY <2>3, <3>1, <3>2 DEF AppStep
  <2> QED BY <1>4, <2>1, <2>2, <2>3 DEF Next, WindowGone, vars
<1>7. dropTask'[command[k].d] \in {"write", "lock"}
  <2>1. ASSUME NEW d \in Dialogs, HandlerStep(d) \/ DropStep(d)
        PROVE  dropTask'[command[k].d] \in {"write", "lock"}
    <3>1. CASE HandlerStep(d)
      BY <1>1, <1>2, <3>1 DEF HandlerStep, OpenRead, OpenInsert, OpenSend, RecvRead,
                              RecvMsg, Inv, DialogTypes
    <3>2. CASE DropStep(d)
      BY <1>1, <1>2, <1>3, <3>2 DEF DropStep, DropWrite, DropRemove, Inv, DialogTypes
    <3> QED BY <2>1, <3>1, <3>2
  <2>2. ASSUME NEW j \in Commands, NEW d \in Dialogs,
               Destroyed(j, d) \/ UserActs(j, d) \/ UserCloses(j, d)
        PROVE  dropTask' = dropTask
    BY <2>2 DEF Destroyed, UserActs, UserCloses
  <2>3. ASSUME AppStep PROVE dropTask' = dropTask
    BY <2>3 DEF AppStep, AppOpens, AppCloses
  <2> QED BY <1>1, <1>4, <2>1, <2>2, <2>3 DEF Next, WindowGone, vars
<1> QED BY <1>1, <1>6, <1>7 DEF Deadlocked

(* The deadlock is for good: once a command that holds OPEN_DIALOGS waits for
   the lock of a dialog whose Drop task waits for OPEN_DIALOGS, every later
   state is deadlocked. *)
THEOREM DeadlockIsForGood == Spec => DeadlockStays
<1>1. Inv /\ [Next]_vars => [Deadlocked => Deadlocked']_vars
  BY DeadlockKept
<1> QED BY <1>1, Invariance, PTL DEF Spec, DeadlockStays
==============================================================================
