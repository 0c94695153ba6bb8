----------------------------- MODULE SecretCache -----------------------------
(***************************************************************************)
(* The cache of an unlocked wallet's secret (crates/wallets/secret_cache)  *)
(* and the signers that use it: each checks the cache, asks for the        *)
(* password if it is empty, stores the secret, and then reads it.  Every   *)
(* store spawns a task that clears the cache after a minute, and aborts    *)
(* the task of the previous one.                                           *)
(*                                                                         *)
(* JoinHandle::abort cancels a task that sleeps or waits.  One that is     *)
(* being polled on another thread goes on to its next await first: between *)
(* the end of its sleep and its attempt to lock there is none.             *)
(*                                                                         *)
(* The secret is known by the number of the store that put it there.       *)
(***************************************************************************)
EXTENDS Naturals, FiniteSets

CONSTANTS Signers,    \* requests that sign with the wallet
          MaxStores,  \* bound on the stores
          MaxTries    \* attempts at the password (3 in the code)

VARIABLES secret,   \* the cached secret, 0 when there is none
          stores,   \* stores so far; expirer[stores] is the handle kept
          expirer,  \* store -> the task it spawned
          readers,  \* signers that hold a read guard
          signer,   \* signer -> where it is
          tries     \* signer -> passwords tried in its dialog

vars == <<secret, stores, expirer, readers, signer, tries>>

ASSUME SecretAssumption == MaxStores \in Nat /\ MaxTries \in Nat \ {0}

Versions == 1 .. MaxStores
States   == {"none", "sleeping", "running", "cancelled", "waiting", "over"}
------------------------------------------------------------------------------
At(s, here, there) == signer[s] = here /\ signer' = [signer EXCEPT ![s] = there]

(* tokio's lock is fair: a reader is queued behind an expirer that waits. *)
MayRead == \A v \in Versions : expirer[v] # "waiting"

(* unlock_with_dialog: nothing to do if the cache is not empty. *)
IsUnlocked(s) ==
  /\ MayRead
  /\ At(s, "idle", IF secret # 0 THEN "read" ELSE "dialog")
  /\ tries' = [tries EXCEPT ![s] = 0]
  /\ UNCHANGED <<secret, stores, expirer, readers>>

(* The user gives a password that decrypts, one that does not, or gives up. *)
RightPassword(s) ==
  /\ At(s, "dialog", "store")
  /\ UNCHANGED <<secret, stores, expirer, readers, tries>>

WrongPassword(s) ==
  /\ tries' = [tries EXCEPT ![s] = @ + 1]
  /\ At(s, "dialog", IF tries[s] + 1 < MaxTries THEN "dialog" ELSE "idle")
  /\ UNCHANGED <<secret, stores, expirer, readers>>

Reject(s) ==
  /\ At(s, "dialog", "idle")
  /\ UNCHANGED <<secret, stores, expirer, readers, tries>>

(* store(): waits for the write lock; abort, replace and spawn under it. *)
Aborted(st) ==
  CASE st \in {"sleeping", "waiting"} -> "over"
    [] st = "running"                 -> "cancelled"
    [] OTHER                          -> st

NoTimer(v) ==
  [w \in Versions |-> IF w = stores THEN Aborted(expirer[w]) ELSE expirer[w]]

Expirers(v) ==
  [w \in Versions |-> IF w = v THEN "sleeping"
                      ELSE IF w = stores THEN Aborted(expirer[w]) ELSE expirer[w]]

Store(s) ==
  /\ readers = {} /\ stores < MaxStores
  /\ At(s, "store", "read")
  /\ stores' = stores + 1
  /\ secret' = stores'
  /\ expirer' = Expirers(stores')
  /\ UNCHANGED <<readers, tries>>

(* read(): an error if the cache expired in between. *)
Read(s) ==
  /\ MayRead
  /\ At(s, "read", IF secret # 0 THEN "signing" ELSE "idle")
  /\ readers' = IF secret # 0 THEN readers \cup {s} ELSE readers
  /\ UNCHANGED <<secret, stores, expirer, tries>>

(* The guard is dropped when build_signer returns. *)
Signed(s) ==
  /\ At(s, "signing", "idle")
  /\ readers' = readers \ {s}
  /\ UNCHANGED <<secret, stores, expirer, tries>>
------------------------------------------------------------------------------
Becomes(v, st) == expirer' = [expirer EXCEPT ![v] = st]

(* The expirer: its sleep ends, *)
Timer(v) ==
  /\ expirer[v] = "sleeping"
  /\ Becomes(v, "running")
  /\ UNCHANGED <<secret, stores, readers, signer, tries>>

(* it tries the lock, *)
Lock(v) ==
  /\ expirer[v] \in {"running", "cancelled"} /\ readers # {}
  /\ Becomes(v, IF expirer[v] = "running" THEN "waiting" ELSE "over")
  /\ UNCHANGED <<secret, stores, readers, signer, tries>>

(* and takes the secret. *)
TakeUnlocked(v) ==
  /\ expirer[v] \in {"running", "cancelled", "waiting"}
  /\ secret' = 0
  /\ Becomes(v, "over")
  /\ UNCHANGED <<stores, readers, signer, tries>>

Take(v) ==
  /\ expirer[v] \in {"running", "cancelled", "waiting"} /\ readers = {}
  /\ secret' = 0
  /\ Becomes(v, "over")
  /\ UNCHANGED <<stores, readers, signer, tries>>
------------------------------------------------------------------------------
SInit ==
  /\ secret = 0 /\ stores = 0
  /\ expirer = [v \in Versions |-> "none"]
  /\ readers = {}
  /\ signer = [s \in Signers |-> "idle"] /\ tries = [s \in Signers |-> 0]

Dialog(s)  == RightPassword(s) \/ WrongPassword(s) \/ Reject(s)
Expirer(v) == Timer(v) \/ Lock(v) \/ Take(v)

SNext ==
  \/ \E s \in Signers : IsUnlocked(s) \/ Dialog(s) \/ Store(s) \/ Read(s) \/ Signed(s)
  \/ \E v \in Versions : Expirer(v)

(* Timers fire, the runtime polls the expirers, and signers that hold the
   guard finish. *)
Fairness == /\ \A v \in Versions : WF_vars(Expirer(v))
            /\ \A s \in Signers : WF_vars(Signed(s))

SSpec     == SInit /\ [][SNext]_vars
SFairSpec == SSpec /\ Fairness
------------------------------------------------------------------------------
(* Type correctness. *)
TypeOK ==
  /\ secret \in 0 .. stores /\ stores \in 0 .. MaxStores
  /\ expirer \in [Versions -> States]
  /\ readers \subseteq Signers
  /\ signer \in [Signers -> {"idle", "dialog", "store", "read", "signing"}]
  /\ tries \in [Signers -> 0 .. MaxTries]

(* A secret is never in the cache without a task that will clear it, however
   the stores of several signers and the expirers overlap. *)
SecretHasExpirer ==
  secret # 0 => expirer[secret] \in {"sleeping", "running", "waiting"}

(* The cache is not cleared under a signer that holds its guard: the unwrap
   of SecretGuard::lock cannot fail. *)
GuardHasSecret == readers # {} => secret # 0

(* What secret_cache.rs promises: a secret expires after a timeout. *)
Expires == \A v \in Versions : (secret = v) ~> (secret # v)
==============================================================================
