------------------------------- MODULE Wallets -------------------------------
(***************************************************************************)
(* The list of wallets (crates/wallets): the wallets, the index of the     *)
(* current one, the file both are saved to, and the messages that tell the *)
(* rest of the program which addresses exist.                              *)
(*                                                                         *)
(* Every command holds the write lock of WALLETS from beginning to end, so *)
(* a command is one action; the task that `update` spawns to announce      *)
(* addresses is not under the lock and has steps of its own.  A command    *)
(* that panics keeps what it has changed so far: tokio's lock is not       *)
(* poisoned by a panic.                                                    *)
(*                                                                         *)
(* A wallet has a list of addresses it can derive, the count of them that  *)
(* are enabled, and the current one.  Paths are positions in the list,     *)
(* counted from 0 as in the code.                                          *)
(***************************************************************************)
EXTENDS Broadcast, FiniteSets, SequencesExt

CONSTANTS WalletNames,    \* names the user gives to wallets
          Lists,          \* address lists the user may enter or derive
          Kinds,          \* the wallet types of the instance
          DefaultWallet,  \* PlaintextWallet::default()
          NoFile,         \* wallets.json does not exist
          MaxWallets,     \* bound on the number of wallets
          MaxOps,         \* bound on commands
          MaxRestarts     \* bound on application restarts

VARIABLES wallets,  \* the list
          current,  \* index of the current wallet, from 0
          file,     \* contents of wallets.json
          diffs,    \* tasks spawned by `update`: addresses yet to announce
          lastSave, \* how the last save() ended: "ok" or "failed"
          ops, restarts

wvars == <<wallets, current, file, diffs, lastSave, inbox, ops, restarts>>

AllKinds == {"Plaintext", "HDWallet", "Impersonator", "Ledger", "Key"}
Paths    == 0 .. Max({Len(l) : l \in Lists})
Wallet   == [name : WalletNames, kind : Kinds, list : Lists, count : Nat, cur : Nat]

ASSUME WalletsAssumption ==
  /\ Kinds \subseteq AllKinds     \* Key stands for JsonKeystore and PrivateKey
  /\ DefaultWallet \in Wallet
  /\ DefaultWallet.cur < Len(DefaultWallet.list)
  /\ {MaxWallets, MaxOps, MaxRestarts} \subseteq Nat

AddressMsg(kind, a) == [kind |-> kind, address |-> a]
------------------------------------------------------------------------------
(* get_all_addresses: the path and the address of every enabled entry. *)
AllAddresses(w) == {<<i - 1, w.list[i]>> : i \in 1 .. w.count}

(* get_current_address.  An Impersonator or a Ledger indexes its list with a
   position that may be past the end, which panics. *)
HasAddress(w) == w.cur < Len(w.list)
CurrentAddress(w) == w.list[w.cur + 1]

(* get_current_wallet indexes the list the same way. *)
HasCurrent(s) == s.current < Len(s.wallets) /\ HasAddress(s.wallets[s.current + 1])

(* Wallet::create, by type.  The forms let Impersonator and Ledger lists be
   empty; the other types have at least one address. *)
Created(name, kind) ==
  {w \in [name : {name}, kind : {kind}, list : Lists, count : Paths, cur : {0}] :
     CASE kind \in {"Impersonator", "Ledger"}   -> w.count = Len(w.list)
       [] kind \in {"Plaintext", "HDWallet"} -> w.count \in 1 .. Len(w.list)
       [] kind = "Key"                       -> w.count = 1 /\ Len(w.list) = 1}

(* WalletControl::update, by type, for the parameters the edit forms send.
   Impersonator takes `current` from the form as it is; Ledger keeps its own
   unless it is past the end; HDWallet goes back to the first address when it
   derives again; Plaintext takes any path that can be derived. *)
UpdatedLedger(w, name) ==
  {[w EXCEPT !.name = name, !.list = l, !.count = Len(l),
             !.cur = IF @ >= Len(l) THEN 0 ELSE @] : l \in Lists}

UpdatedHD(w, name) ==
  {v \in [name : {name}, kind : {w.kind}, list : Lists, count : Paths, cur : {0}] :
     v.count \in 1 .. Len(v.list)}

Updated(w, name) ==
  CASE w.kind = "Key"          -> {[w EXCEPT !.name = name]}
    [] w.kind = "Ledger"       -> UpdatedLedger(w, name)
    [] w.kind = "HDWallet"     -> UpdatedHD(w, name)
    [] w.kind = "Plaintext"    ->
         {v \in [name : {name}, kind : {w.kind}, list : Lists, count : Paths, cur : Paths] :
            v.count \in 1 .. Len(v.list) /\ v.cur < Len(v.list)}
    [] w.kind = "Impersonator" ->
         {v \in [name : {name}, kind : {w.kind}, list : Lists, count : Paths, cur : Paths] :
            v.count = Len(v.list)}

(* WalletControl::set_current_path: the wallets after it, none if it fails. *)
Moved(w, path) ==
  CASE w.kind = "Key"                     -> {w}
    [] w.kind = "Impersonator"            -> {[w EXCEPT !.cur = path]}
    [] w.kind \in {"Ledger", "HDWallet"}  ->
         IF path < w.count THEN {[w EXCEPT !.cur = path]} ELSE {}
    [] w.kind = "Plaintext"               ->
         IF path < Len(w.list) THEN {[w EXCEPT !.cur = path]} ELSE {}
------------------------------------------------------------------------------
(* ensure_current *)
EnsureOnlyNonEmpty(ws, cur) ==
  [wallets |-> IF ws = <<>> THEN <<DefaultWallet>> ELSE ws, current |-> cur]

EnsureCurrent(ws, cur) ==
  LET all == IF ws = <<>> THEN <<DefaultWallet>> ELSE ws
  IN [wallets |-> all, current |-> IF cur >= Len(all) THEN 0 ELSE cur]

(* AddressAdded or AddressRemoved for each of a wallet's addresses. *)
SendEach(box, kind, w) ==
  FoldLeft(LAMBDA b, i : Send(b, AddressMsg(kind, w.list[i])), box,
           [i \in 1 .. w.count |-> i])

SendCurrent(box, s) ==
  Send(box, AddressMsg("CurrentAddressChanged", CurrentAddress(s.wallets[s.current + 1])))

(* save(): a write that fails (no space, no permission) leaves the file as it
   was, and the command returns its error with the list changed. *)
Saved(s) == file' = s /\ lastSave' = "ok"

SaveFails == UNCHANGED file /\ lastSave' = "failed"

(* The end of every command: on_wallet_changed, which panics when there is no
   current address, and then save(); `box` and `added` are the queues before
   it and what is added once it is done. *)
SaveFirst(s, box, added) ==
  /\ wallets' = s.wallets /\ current' = s.current
  /\ Saved(s)
  /\ inbox' = IF HasCurrent(s)
              THEN SendEach(SendCurrent(box, s), "AddressAdded", added) ELSE box

FinishUnsaved(s, box, added) ==
  /\ wallets' = s.wallets /\ current' = s.current
  /\ inbox' = IF HasCurrent(s)
              THEN SendEach(SendCurrent(box, s), "AddressAdded", added) ELSE box
  /\ UNCHANGED <<file, lastSave>>

Finish(s, box, added) ==
  /\ wallets' = s.wallets /\ current' = s.current
  /\ \/ /\ HasCurrent(s)
        /\ \/ /\ Saved(s)
              /\ inbox' = SendEach(SendCurrent(box, s), "AddressAdded", added)
           \/ SaveFails /\ inbox' = SendCurrent(box, s)
     \/ ~HasCurrent(s) /\ inbox' = box /\ UNCHANGED <<file, lastSave>>

Nothing == [count |-> 0]      \* no addresses to announce

Command == ops < MaxOps /\ ops' = ops + 1 /\ UNCHANGED restarts

Names == {wallets[i].name : i \in DOMAIN wallets}

(* The first wallet with a name, as an index from 0. *)
Position(name) ==
  CHOOSE i \in 0 .. Len(wallets) - 1 :
    /\ wallets[i + 1].name = name
    /\ \A j \in 0 .. i - 1 : wallets[j + 1].name # name
------------------------------------------------------------------------------
(* wallets_create: a name in use is refused. *)
WalletsCreate ==
  /\ Command
  /\ Len(wallets) < MaxWallets
  /\ \E name \in WalletNames \ Names, kind \in Kinds : \E w \in Created(name, kind) :
       Finish([wallets |-> Append(wallets, w), current |-> current], inbox, w)
  /\ UNCHANGED diffs

(* wallets_update; one that fails (unlock refused, no ledger) changes nothing.
   The addresses to announce are compared as pairs of a path
   and an address, after the wallet itself has been replaced. *)
DiffOf(before, after) ==
  [added   |-> {p[2] : p \in AllAddresses(after) \ AllAddresses(before)},
   removed |-> {p[2] : p \in AllAddresses(before) \ AllAddresses(after)}]

(* Tasks with nothing left to announce have ended. *)
Drained(ds) == SelectSeq(ds, LAMBDA d : d.added \cup d.removed # {})

WalletsUpdate ==
  /\ Command
  /\ \E old \in Names, name \in WalletNames :
       LET i == Position(old) + 1 IN
       \E w \in Updated(wallets[i], name) :
         /\ diffs' = Drained(Append(diffs, DiffOf(wallets[i], w)))
         /\ Finish(EnsureCurrent([wallets EXCEPT ![i] = w], current), inbox, Nothing)

(* wallets_remove *)
WalletsRemove ==
  /\ Command
  /\ \E name \in Names :
       LET i == Position(name) + 1 IN
       Finish(EnsureCurrent(RemoveAt(wallets, i), current),
              SendEach(inbox, "AddressRemoved", wallets[i]), Nothing)
  /\ UNCHANGED diffs

(* wallets_set_current_wallet: an index past the end is refused. *)
WalletsSetCurrentWallet ==
  /\ Command
  /\ \E id \in 0 .. Len(wallets) - 1 :
       Finish([wallets |-> wallets, current |-> id], inbox, Nothing)
  /\ UNCHANGED diffs

(* wallets_set_current_path *)
WalletsSetCurrentPath ==
  /\ Command
  /\ \E path \in Paths : \E w \in Moved(wallets[current + 1], path) :
       Finish([wallets |-> [wallets EXCEPT ![current + 1] = w], current |-> current],
              inbox, Nothing)
  /\ UNCHANGED diffs

(* The task spawned by `update`: first the additions, then the removals, each
   in the arbitrary order of a hash set. *)
AnnounceDiff ==
  /\ \E i \in DOMAIN diffs :
       \/ \E a \in diffs[i].added :
            /\ inbox' = Send(inbox, AddressMsg("AddressAdded", a))
            /\ diffs' = Drained([diffs EXCEPT ![i].added = @ \ {a}])
       \/ /\ diffs[i].added = {}
          /\ \E a \in diffs[i].removed :
               /\ inbox' = Send(inbox, AddressMsg("AddressRemoved", a))
               /\ diffs' = Drained([diffs EXCEPT ![i].removed = @ \ {a}])
  /\ UNCHANGED <<wallets, current, file, lastSave, ops, restarts>>
------------------------------------------------------------------------------
(* init: reads the file, ensures a current wallet, announces everything. *)
Loaded == IF file = NoFile THEN EnsureCurrent(<<>>, 0)
          ELSE EnsureCurrent(file.wallets, file.current)

Empty == [r \in Receivers |-> <<>>]

InitBroadcast(s) ==
  SendCurrent(FoldLeft(LAMBDA b, w : SendEach(b, "AddressAdded", w), Empty, s.wallets), s)

Restart ==
  /\ restarts < MaxRestarts /\ restarts' = restarts + 1
  /\ wallets' = Loaded.wallets /\ current' = Loaded.current
  /\ inbox' = InitBroadcast(Loaded)
  /\ diffs' = <<>> /\ lastSave' = "ok"
  /\ UNCHANGED <<file, ops>>

Init ==
  /\ file = NoFile
  /\ wallets = <<DefaultWallet>> /\ current = 0
  /\ inbox = InitBroadcast([wallets |-> <<DefaultWallet>>, current |-> 0])
  /\ diffs = <<>> /\ lastSave = "ok"
  /\ ops = 0 /\ restarts = 0

Commands == WalletsCreate \/ WalletsUpdate \/ WalletsRemove
            \/ WalletsSetCurrentWallet \/ WalletsSetCurrentPath

Next == Commands \/ AnnounceDiff \/ Restart

(* The runtime runs the spawned tasks; the user owes nothing. *)
Spec     == Init /\ [][Next]_wvars
FairSpec == Spec /\ WF_wvars(AnnounceDiff)
------------------------------------------------------------------------------
(* What ensure_current promises: the index never points past the list, also
   after the current or an earlier wallet was removed or an update failed. *)
CurrentExists == current < Len(wallets)

(* A command may panic because the current wallet has no current address, and
   leave the list in that state.  What is on disk is never such a state: the
   start of the program, which asks for the current address before anything
   else, does not panic. *)
RestartSucceeds == HasCurrent(Loaded)

(* No command is lost: unless the last save failed, or a panic left the current
   wallet without an address, the file holds the list and the index.  The
   change of a save that failed is in the next one that succeeds. *)
SavedOrBroken ==
  \/ file = [wallets |-> wallets, current |-> current]
  \/ file = NoFile /\ wallets = <<DefaultWallet>> /\ current = 0
  \/ ~HasCurrent([wallets |-> wallets, current |-> current])
  \/ lastSave = "failed"
==============================================================================
