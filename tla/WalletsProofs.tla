---------------------------- MODULE WalletsProofs ----------------------------
(***************************************************************************)
(* Of the list of wallets, for any names, address lists and wallet types:  *)
(* the index of the current wallet is in the list, the file is never such  *)
(* that the next start panics, and no command is lost unless one panicked  *)
(* or could not write the file.                                            *)
(*                                                                         *)
(* RestartSucceeds is about the file, so it needs to know that only a list *)
(* with a current address was ever saved (GoodFile).  What is announced,   *)
(* and the tasks that announce it, does not matter here.                   *)
(*                                                                         *)
(* Of the secret cache of a wallet: a cached secret always has a task that *)
(* will clear it and is never cleared under a signer's guard, for any      *)
(* number of signers and stores.                                           *)
(***************************************************************************)
EXTENDS Wallets, SecretCache, WellFoundedInduction, TLAPS

(* An entry of the list.  Nothing is assumed of the address lists, so a count
   may also be the length of any of them and a position any path. *)
Entry == [name : WalletNames, kind : Kinds, list : Lists,
          count : Nat \cup Paths \cup {Len(l) : l \in Lists}, cur : Nat \cup Paths]

Stored == [wallets : Seq(Entry), current : Nat]

GoodFile == file = NoFile \/ (file \in Stored /\ HasCurrent(file))

ListTypes == wallets \in Seq(Entry) /\ current \in Nat

Inv == ListTypes /\ CurrentExists /\ GoodFile /\ SavedOrBroken
------------------------------------------------------------------------------
(* Every set of indices has a least one. *)
LEMMA Least ==
  ASSUME NEW S, S \subseteq Nat, S # {} PROVE \E x \in S : \A y \in S : x <= y
<1>1. IsWellFoundedOn(OpToRel(<, Nat), Nat)
  BY NatLessThanWellFounded
<1>2. PICK R : R = OpToRel(<, Nat)
  OBVIOUS
<1>3. PICK x \in S : \A y \in S : ~ (<<y, x>> \in R)
  BY <1>1, <1>2, WFMin
<1>4. \A y \in Nat : y < x => <<y, x>> \in R
  BY <1>2 DEF OpToRel
<1>5. \A y \in S : ~ (y < x)
  BY <1>3, <1>4
<1>6. \A y \in S : x <= y
  BY <1>5, SMT
<1> QED BY <1>6

(* A name that is in use has a position. *)
LEMMA PositionInList ==
  ASSUME ListTypes, NEW name \in Names
  PROVE  Position(name) \in 0 .. Len(wallets) - 1 /\ Position(name) + 1 \in 1 .. Len(wallets)
<1> DEFINE S == {i \in 0 .. Len(wallets) - 1 : wallets[i + 1].name = name}
<1>1. PICK k \in 1 .. Len(wallets) : wallets[k].name = name
  BY DEF Names, ListTypes
<1>2. Len(wallets) \in Nat
  BY DEF ListTypes
<1>3. k - 1 \in 0 .. Len(wallets) - 1 /\ k - 1 + 1 = k
  BY <1>1, <1>2
<1>4. S \subseteq Nat /\ k - 1 \in S
  BY <1>1, <1>3
<1> HIDE DEF S
<1>5. PICK x \in S : \A y \in S : x <= y
  BY <1>4, Least
<1>6. x \in 0 .. Len(wallets) - 1 /\ wallets[x + 1].name = name
  BY <1>5 DEF S
<1>7. \A j \in 0 .. x - 1 : wallets[j + 1].name # name
  <2> SUFFICES ASSUME NEW j \in 0 .. x - 1, wallets[j + 1].name = name PROVE FALSE
    OBVIOUS
  <2>1. j \in 0 .. Len(wallets) - 1 /\ ~(x <= j)
    BY <1>2, <1>6
  <2>2. j \in S
    BY <2>1 DEF S
  <2> QED BY <1>5, <2>1, <2>2
<1>8. Position(name) \in 0 .. Len(wallets) - 1
  BY <1>6, <1>7 DEF Position
<1> QED BY <1>2, <1>8

(* ensure_current yields a list that is not empty and an index within it. *)
LEMMA EnsureCurrentType ==
  ASSUME NEW ws \in Seq(Entry), NEW cur \in Nat
  PROVE  /\ EnsureCurrent(ws, cur) = [wallets |-> EnsureCurrent(ws, cur).wallets,
                                      current |-> EnsureCurrent(ws, cur).current]
         /\ EnsureCurrent(ws, cur).wallets \in Seq(Entry)
         /\ EnsureCurrent(ws, cur).current \in Nat
         /\ EnsureCurrent(ws, cur).current < Len(EnsureCurrent(ws, cur).wallets)
         /\ cur < Len(ws) => EnsureCurrent(ws, cur) = [wallets |-> ws, current |-> cur]
<1>1. DefaultWallet \in Entry
  BY WalletsAssumption DEF Wallet, Entry
<1>2. PICK all : all = IF ws = <<>> THEN <<DefaultWallet>> ELSE ws
  OBVIOUS
<1>3. all \in Seq(Entry) /\ Len(all) \in Nat /\ Len(all) > 0
  BY <1>1, <1>2
<1>4. EnsureCurrent(ws, cur) = [wallets |-> all, current |-> IF cur >= Len(all) THEN 0 ELSE cur]
  BY <1>2 DEF EnsureCurrent
<1>5. cur < Len(ws) => all = ws
  BY <1>2
<1> QED BY <1>3, <1>4, <1>5

(* The end of every command: the state it leaves is saved, unless the command
   panics because there is no current address. *)
LEMMA FinishInv ==
  ASSUME Inv, NEW ws \in Seq(Entry), NEW cur \in Nat, cur < Len(ws), NEW box, NEW added,
         Finish([wallets |-> ws, current |-> cur], box, added)
  PROVE  Inv'
<1>1. PICK s : s = [wallets |-> ws, current |-> cur]
  OBVIOUS
<1>2. /\ wallets' = ws /\ current' = cur /\ s \in Stored
      /\ s = [wallets |-> wallets', current |-> current']
      /\ \/ HasCurrent(s) /\ file' = s
         \/ file' = file /\ lastSave' = "failed"
         \/ ~HasCurrent(s) /\ file' = file
  BY <1>1 DEF Finish, Saved, SaveFails, Stored
<1>3. GoodFile'
  <2>1. CASE HasCurrent(s) /\ file' = s
    BY <1>2, <2>1 DEF GoodFile
  <2>2. CASE file' = file
    BY <1>2, <2>2 DEF GoodFile, Inv, HasCurrent, HasAddress
  <2> QED BY <1>2, <2>1, <2>2
<1>4. SavedOrBroken'
  <2>1. CASE HasCurrent(s) /\ file' = s
    BY <1>2, <2>1 DEF SavedOrBroken
  <2>2. CASE lastSave' = "failed"
    BY <2>2 DEF SavedOrBroken
  <2>3. CASE ~HasCurrent(s)
    BY <1>2, <2>3 DEF SavedOrBroken, HasCurrent, HasAddress
  <2> QED BY <1>2, <2>1, <2>2, <2>3
<1> QED BY <1>2, <1>3, <1>4 DEF Inv, ListTypes, CurrentExists

LEMMA EnsuredInv ==
  ASSUME Inv, NEW ws \in Seq(Entry), NEW cur \in Nat, NEW box, NEW added,
         Finish(EnsureCurrent(ws, cur), box, added)
  PROVE  Inv'
BY EnsureCurrentType, FinishInv
------------------------------------------------------------------------------
(* wallets_create appends. *)
LEMMA CreatedType ==
  ASSUME NEW name \in WalletNames, NEW kind \in Kinds, NEW w \in Created(name, kind)
  PROVE  w \in Entry
<1>1. w \in [name : {name}, kind : {kind}, list : Lists, count : Paths, cur : {0}]
  BY DEF Created
<1> QED BY <1>1 DEF Entry

LEMMA CreateInv == ASSUME Inv, WalletsCreate PROVE Inv'
<1>1. PICK name \in WalletNames \ Names, kind \in Kinds : \E w \in Created(name, kind) :
        Finish([wallets |-> Append(wallets, w), current |-> current], inbox, w)
  BY DEF WalletsCreate
<1>2. PICK w \in Created(name, kind) :
        Finish([wallets |-> Append(wallets, w), current |-> current], inbox, w)
  BY <1>1
<1>3. w \in Entry
  BY CreatedType
<1>4. PICK ws : ws = Append(wallets, w)
  OBVIOUS
<1>5. ws \in Seq(Entry) /\ Len(ws) = Len(wallets) + 1
  BY <1>3, <1>4 DEF Inv, ListTypes
<1>6. current \in Nat /\ current < Len(ws)
  BY <1>5 DEF Inv, ListTypes, CurrentExists
<1> QED BY <1>2, <1>4, <1>5, <1>6, FinishInv

(* wallets_update replaces, *)
LEMMA UpdatedType ==
  ASSUME NEW w \in Entry, NEW name \in WalletNames, NEW v \in Updated(w, name)
  PROVE  v \in Entry
<1>1. w.kind \in {"Plaintext", "HDWallet", "Impersonator", "Ledger", "Key"}
  BY WalletsAssumption DEF Entry, AllKinds
<1>2. CASE w.kind = "Key"
  <2>1. v = [w EXCEPT !.name = name]
    BY <1>2 DEF Updated
  <2> QED BY <2>1 DEF Entry
<1>3. CASE w.kind = "Ledger"
  <2>1. v \in UpdatedLedger(w, name)
    BY <1>3 DEF Updated
  <2>2. PICK l \in Lists : v = [w EXCEPT !.name = name, !.list = l, !.count = Len(l),
                                         !.cur = IF @ >= Len(l) THEN 0 ELSE @]
    BY <2>1 DEF UpdatedLedger
  <2>3. PICK c : c = IF w.cur >= Len(l) THEN 0 ELSE w.cur
    OBVIOUS
  <2>4. c \in Nat \cup Paths
    BY <2>3 DEF Entry
  <2>5. PICK n : n = Len(l)
    OBVIOUS
  <2>6. n \in {Len(k) : k \in Lists}
    BY <2>5
  <2>7. v = [w EXCEPT !.name = name, !.list = l, !.count = n, !.cur = c]
    BY <2>2, <2>3, <2>5 DEF Entry
  <2> QED BY <2>4, <2>6, <2>7 DEF Entry
<1>4. CASE w.kind = "HDWallet"
  <2>1. v \in UpdatedHD(w, name)
    BY <1>4 DEF Updated
  <2>2. v \in [name : {name}, kind : {w.kind}, list : Lists, count : Paths, cur : {0}]
    BY <2>1 DEF UpdatedHD
  <2>3. w.kind \in Kinds
    BY DEF Entry
  <2> QED BY <2>2, <2>3 DEF Entry
<1>5. CASE w.kind \in {"Plaintext", "Impersonator"}
  <2>1. v \in [name : {name}, kind : {w.kind}, list : Lists, count : Paths, cur : Paths]
    BY <1>5 DEF Updated
  <2>2. w.kind \in Kinds
    BY DEF Entry
  <2> QED BY <2>1, <2>2 DEF Entry
<1> QED BY <1>1, <1>2, <1>3, <1>4, <1>5

LEMMA UpdateInv == ASSUME Inv, WalletsUpdate PROVE Inv'
<1>1. PICK old \in Names, name \in WalletNames :
        \E w \in Updated(wallets[Position(old) + 1], name) :
          Finish(EnsureCurrent([wallets EXCEPT ![Position(old) + 1] = w], current),
                 inbox, Nothing)
  BY DEF WalletsUpdate
<1>2. PICK i : i = Position(old) + 1
  OBVIOUS
<1>3. i \in 1 .. Len(wallets)
  BY <1>2, PositionInList DEF Inv
<1>4. PICK w \in Updated(wallets[i], name) :
        Finish(EnsureCurrent([wallets EXCEPT ![i] = w], current), inbox, Nothing)
  BY <1>1, <1>2
<1>5. wallets \in Seq(Entry) /\ wallets[i] \in Entry /\ current \in Nat
  BY <1>3 DEF Inv, ListTypes
<1>6. w \in Entry
  BY <1>5, UpdatedType
<1>7. PICK ws : ws = [wallets EXCEPT ![i] = w]
  OBVIOUS
<1>8. ws \in Seq(Entry)
  BY <1>3, <1>5, <1>6, <1>7
<1> QED BY <1>4, <1>5, <1>7, <1>8, EnsuredInv

(* wallets_remove takes out, *)
LEMMA RemoveInv == ASSUME Inv, WalletsRemove PROVE Inv'
<1>1. PICK name \in Names :
        Finish(EnsureCurrent(RemoveAt(wallets, Position(name) + 1), current),
               SendEach(inbox, "AddressRemoved", wallets[Position(name) + 1]), Nothing)
  BY DEF WalletsRemove
<1>2. PICK i : i = Position(name) + 1
  OBVIOUS
<1>3. i \in 1 .. Len(wallets) /\ wallets \in Seq(Entry) /\ current \in Nat
  BY <1>2, PositionInList DEF Inv, ListTypes
<1>4. PICK ws : ws = RemoveAt(wallets, i)
  OBVIOUS
<1>5. ws \in Seq(Entry)
  <2>1. SubSeq(wallets, 1, i - 1) \in Seq(Entry)
        /\ SubSeq(wallets, i + 1, Len(wallets)) \in Seq(Entry)
    BY <1>3
  <2> QED BY <1>4, <2>1 DEF RemoveAt
<1> QED BY <1>1, <1>2, <1>3, <1>4, <1>5, EnsuredInv

(* wallets_set_current_wallet and wallets_set_current_path move the index and
   the path. *)
LEMMA SetCurrentWalletInv == ASSUME Inv, WalletsSetCurrentWallet PROVE Inv'
<1>1. PICK id \in 0 .. Len(wallets) - 1 :
        Finish([wallets |-> wallets, current |-> id], inbox, Nothing)
  BY DEF WalletsSetCurrentWallet
<1>2. wallets \in Seq(Entry) /\ id \in Nat /\ id < Len(wallets)
  BY DEF Inv, ListTypes
<1> QED BY <1>1, <1>2, FinishInv

LEMMA MovedType ==
  ASSUME NEW w \in Entry, NEW path \in Paths, NEW v \in Moved(w, path)
  PROVE  v \in Entry
<1>1. w.kind \in {"Plaintext", "HDWallet", "Impersonator", "Ledger", "Key"}
  BY WalletsAssumption DEF Entry, AllKinds
<1>2. v = w \/ v = [w EXCEPT !.cur = path]
  BY <1>1 DEF Moved
<1> QED BY <1>2 DEF Entry

LEMMA SetCurrentPathInv == ASSUME Inv, WalletsSetCurrentPath PROVE Inv'
<1>1. PICK path \in Paths : \E w \in Moved(wallets[current + 1], path) :
        Finish([wallets |-> [wallets EXCEPT ![current + 1] = w], current |-> current],
               inbox, Nothing)
  BY DEF WalletsSetCurrentPath
<1>2. PICK w \in Moved(wallets[current + 1], path) :
        Finish([wallets |-> [wallets EXCEPT ![current + 1] = w], current |-> current],
               inbox, Nothing)
  BY <1>1
<1>3. /\ wallets \in Seq(Entry) /\ current \in Nat /\ current < Len(wallets)
      /\ current + 1 \in 1 .. Len(wallets) /\ wallets[current + 1] \in Entry
  BY DEF Inv, ListTypes, CurrentExists
<1>4. w \in Entry
  BY <1>3, MovedType
<1>5. PICK ws : ws = [wallets EXCEPT ![current + 1] = w]
  OBVIOUS
<1>6. ws \in Seq(Entry) /\ Len(ws) = Len(wallets)
  BY <1>3, <1>4, <1>5
<1> QED BY <1>2, <1>3, <1>5, <1>6, FinishInv
------------------------------------------------------------------------------
(* What init reads has a current wallet with a current address. *)
LEMMA LoadedType ==
  ASSUME GoodFile
  PROVE  /\ HasCurrent(Loaded)
         /\ \/ file = NoFile /\ Loaded = [wallets |-> <<DefaultWallet>>, current |-> 0]
            \/ file \in Stored /\ Loaded = file /\ HasCurrent(file)
<1>1. CASE file = NoFile
  <2>1. Loaded = [wallets |-> <<DefaultWallet>>, current |-> 0]
    BY <1>1 DEF Loaded, EnsureCurrent
  <2>2. HasCurrent([wallets |-> <<DefaultWallet>>, current |-> 0])
    BY WalletsAssumption DEF HasCurrent, HasAddress
  <2> QED BY <1>1, <2>1, <2>2
<1>2. CASE file # NoFile
  <2>1. file \in Stored /\ HasCurrent(file) /\ file.current < Len(file.wallets)
    BY <1>2 DEF GoodFile, HasCurrent
  <2>2. /\ file.wallets \in Seq(Entry) /\ file.current \in Nat
        /\ file = [wallets |-> file.wallets, current |-> file.current]
    BY <2>1 DEF Stored
  <2>3. Loaded = file
    BY <1>2, <2>1, <2>2, EnsureCurrentType DEF Loaded
  <2> QED BY <2>1, <2>3
<1> QED BY <1>1, <1>2

LEMMA RestartInv == ASSUME Inv, Restart PROVE Inv'
<1>1. wallets' = Loaded.wallets /\ current' = Loaded.current /\ file' = file
  BY DEF Restart
<1>2. CASE file = NoFile /\ Loaded = [wallets |-> <<DefaultWallet>>, current |-> 0]
  <2>1. wallets' = <<DefaultWallet>> /\ current' = 0 /\ file' = NoFile
    BY <1>1, <1>2
  <2>2. DefaultWallet \in Entry
    BY WalletsAssumption DEF Wallet, Entry
  <2> QED BY <2>1, <2>2 DEF Inv, ListTypes, CurrentExists, GoodFile, SavedOrBroken
<1>3. CASE file \in Stored /\ Loaded = file /\ HasCurrent(file)
  <2>1. /\ file = [wallets |-> wallets', current |-> current']
        /\ wallets' \in Seq(Entry) /\ current' \in Nat /\ current' < Len(wallets')
    BY <1>1, <1>3 DEF Stored, HasCurrent
  <2>2. GoodFile'
    BY <1>1, <1>3 DEF GoodFile, HasCurrent, HasAddress
  <2> QED BY <1>1, <2>1, <2>2 DEF Inv, ListTypes, CurrentExists, SavedOrBroken
<1> QED BY <1>2, <1>3, LoadedType DEF Inv

LEMMA InitInv == Init => Inv
<1> SUFFICES ASSUME Init PROVE Inv
  OBVIOUS
<1>1. wallets = <<DefaultWallet>> /\ current = 0 /\ file = NoFile
  BY DEF Init
<1>2. DefaultWallet \in Entry
  BY WalletsAssumption DEF Wallet, Entry
<1> QED BY <1>1, <1>2 DEF Inv, ListTypes, CurrentExists, GoodFile, SavedOrBroken

LEMMA NextInv == ASSUME Inv, [Next]_wvars PROVE Inv'
<1>1. CASE UNCHANGED <<wallets, current, file, lastSave>>
  BY <1>1 DEF Inv, ListTypes, CurrentExists, GoodFile, SavedOrBroken, HasCurrent, HasAddress
<1>2. CASE AnnounceDiff \/ UNCHANGED wvars
  BY <1>1, <1>2 DEF AnnounceDiff, wvars
<1> QED BY <1>2, CreateInv, UpdateInv, RemoveInv, SetCurrentWalletInv, SetCurrentPathInv,
           RestartInv DEF Next, Commands

(* The inductive invariant holds in every reachable state. *)
THEOREM Invariance == Spec => []Inv
BY InitInv, NextInv, PTL DEF Spec

(* ensure_current keeps its promise for any number of wallets of any type: the
   index of the current wallet is never past the list. *)
THEOREM CurrentAlwaysExists == Spec => []CurrentExists
<1>1. Inv => CurrentExists
  BY DEF Inv
<1> QED BY <1>1, Invariance, PTL

(* on_wallet_changed comes before save(): whatever commands panic for want of
   a current address, the state they leave is never on disk, and the next start
   of the program finds the address it asks for. *)
THEOREM RestartAlwaysSucceeds == Spec => []RestartSucceeds
<1>1. Inv => RestartSucceeds
  BY LoadedType DEF Inv, RestartSucceeds
<1> QED BY <1>1, Invariance, PTL

(* Every command is saved, unless its save fails or the current wallet is
   without an address. *)
THEOREM AlwaysSavedOrBroken == Spec => []SavedOrBroken
<1>1. Inv => SavedOrBroken
  BY DEF Inv
<1> QED BY <1>1, Invariance, PTL
------------------------------------------------------------------------------
(***************************************************************************)
(* The secret cache.  SecretHasExpirer is not inductive: store() aborts    *)
(* the task of the last store, and nothing in it says that the secret is   *)
(* the last one.  SecretIsLast does.                                       *)
(***************************************************************************)
SecretIsLast == secret = 0 \/ secret = stores

AskingHasTries == \A s \in Signers : signer[s] = "dialog" => tries[s] < MaxTries

CacheInv == TypeOK /\ SecretIsLast /\ AskingHasTries /\ SecretHasExpirer /\ GuardHasSecret
------------------------------------------------------------------------------
(* The invariant holds with an empty cache. *)
LEMMA CacheInit == SInit => CacheInv
BY SecretAssumption
DEF SInit, CacheInv, TypeOK, SecretIsLast, AskingHasTries, SecretHasExpirer, GuardHasSecret,
    States, Versions

(* The steps of a dialog change neither the cache nor its expirers. *)
LEMMA SignerInv ==
  ASSUME CacheInv, NEW s \in Signers, IsUnlocked(s) \/ Dialog(s)
  PROVE  CacheInv'
<1>1. UNCHANGED <<secret, stores, expirer, readers>>
  BY DEF IsUnlocked, Dialog, RightPassword, WrongPassword, Reject
<1>2. TypeOK' /\ AskingHasTries'
  <2>1. CASE IsUnlocked(s)
    BY <1>1, <2>1, SecretAssumption DEF IsUnlocked, At, CacheInv, TypeOK, AskingHasTries
  <2>2. CASE RightPassword(s)
    BY <1>1, <2>2, SecretAssumption DEF RightPassword, At, CacheInv, TypeOK, AskingHasTries
  <2>3. CASE WrongPassword(s)
    BY <1>1, <2>3, SecretAssumption DEF WrongPassword, At, CacheInv, TypeOK, AskingHasTries
  <2>4. CASE Reject(s)
    BY <1>1, <2>4, SecretAssumption DEF Reject, At, CacheInv, TypeOK, AskingHasTries
  <2> QED BY <2>1, <2>2, <2>3, <2>4 DEF Dialog
<1>3. SecretIsLast' /\ SecretHasExpirer' /\ GuardHasSecret'
  BY <1>1 DEF CacheInv, SecretIsLast, SecretHasExpirer, GuardHasSecret
<1> QED BY <1>2, <1>3 DEF CacheInv

(* store(): the new secret's task sleeps, and the task that is aborted is that
   of an older one. *)
LEMMA StoreInv == ASSUME CacheInv, NEW s \in Signers, Store(s) PROVE CacheInv'
<1>1. /\ stores \in Nat /\ stores' = stores + 1 /\ stores' \in Versions
      /\ secret' = stores' /\ UNCHANGED <<readers, tries>>
  BY SecretAssumption DEF Store, CacheInv, TypeOK, Versions
<1>2. expirer' \in [Versions -> States]
  BY DEF Store, Expirers, Aborted, CacheInv, TypeOK, States
<1>3. expirer'[secret'] = "sleeping"
  BY <1>1 DEF Store, Expirers
<1>4. TypeOK' /\ AskingHasTries'
  BY <1>1, <1>2, SecretAssumption DEF Store, At, CacheInv, TypeOK, Versions, AskingHasTries
<1> QED BY <1>1, <1>3, <1>4 DEF CacheInv, SecretIsLast, SecretHasExpirer, GuardHasSecret

(* A guard is only given when there is a secret. *)
LEMMA GuardInv == ASSUME CacheInv, NEW s \in Signers, Read(s) \/ Signed(s) PROVE CacheInv'
<1>1. UNCHANGED <<secret, stores, expirer, tries>>
  BY DEF Read, Signed
<1>2. TypeOK' /\ AskingHasTries'
  BY <1>1 DEF Read, Signed, At, CacheInv, TypeOK, AskingHasTries
<1>3. GuardHasSecret'
  BY <1>1 DEF Read, Signed, CacheInv, GuardHasSecret
<1> QED BY <1>1, <1>2, <1>3 DEF CacheInv, SecretIsLast, SecretHasExpirer

(* An expirer keeps the secret, and goes on towards clearing it, or clears
   it when nobody holds a guard. *)
LEMMA ExpirerInv == ASSUME CacheInv, NEW v \in Versions, Expirer(v) PROVE CacheInv'
<1>1. UNCHANGED <<stores, readers, signer, tries>>
  BY DEF Expirer, Timer, Lock, Take
<1>2. CASE Timer(v)
  BY <1>1, <1>2 DEF Timer, Becomes, CacheInv, TypeOK, States, AskingHasTries, SecretIsLast,
                    SecretHasExpirer, GuardHasSecret
<1>3. CASE Lock(v)
  BY <1>1, <1>3 DEF Lock, Becomes, CacheInv, TypeOK, States, AskingHasTries, SecretIsLast,
                    SecretHasExpirer, GuardHasSecret
<1>4. CASE Take(v)
  <2>1. TypeOK'
    BY <1>1, <1>4, SecretAssumption DEF Take, Becomes, CacheInv, TypeOK, States
  <2> QED BY <1>1, <1>4, <2>1 DEF Take, CacheInv, AskingHasTries, SecretIsLast,
                                  SecretHasExpirer, GuardHasSecret
<1> QED BY <1>2, <1>3, <1>4 DEF Expirer

(* The invariant holds in every reachable state. *)
THEOREM CacheInvariance == SSpec => []CacheInv
<1>1. CacheInv /\ [SNext]_vars => CacheInv'
  <2> SUFFICES ASSUME CacheInv, [SNext]_vars PROVE CacheInv'
    OBVIOUS
  <2>1. CASE UNCHANGED vars
    BY <2>1 DEF vars, CacheInv, TypeOK, AskingHasTries, SecretIsLast, SecretHasExpirer,
                GuardHasSecret
  <2>2. CASE SNext
    BY <2>2, SignerInv, StoreInv, GuardInv, ExpirerInv DEF SNext
  <2> QED BY <2>1, <2>2
<1> QED BY <1>1, CacheInit, PTL DEF SSpec

(* Type correctness of the cache, for any number of signers and stores. *)
THEOREM CacheTypeCorrect == SSpec => []TypeOK
<1>1. CacheInv => TypeOK
  BY DEF CacheInv
<1> QED BY <1>1, CacheInvariance, PTL

(* However the stores of any number of signers and their expirers overlap, a
   secret in the cache has a task that is on its way to clear it. *)
THEOREM SecretAlwaysHasExpirer == SSpec => []SecretHasExpirer
<1>1. CacheInv => SecretHasExpirer
  BY DEF CacheInv
<1> QED BY <1>1, CacheInvariance, PTL

(* The unwrap of SecretGuard::lock cannot fail: no expirer clears the secret
   while a guard is held. *)
THEOREM GuardAlwaysHasSecret == SSpec => []GuardHasSecret
<1>1. CacheInv => GuardHasSecret
  BY DEF CacheInv
<1> QED BY <1>1, CacheInvariance, PTL
==============================================================================
