----------------------------- MODULE AlchemySync -----------------------------
(***************************************************************************)
(* The history of one address on one chain (crates/sync/alchemy): the      *)
(* tasks that fetch its transfers from Alchemy into the database, and the  *)
(* tip, the highest block of a transfer fetched so far, from which the     *)
(* next fetch goes on.                                                     *)
(*                                                                         *)
(* Several tasks may fetch for the same address, since one that is no      *)
(* longer tracked goes on; each request and each write is a step, and any  *)
(* of them may fail or be cut short by the end of the program.  The chain  *)
(* does not reorganize.                                                    *)
(***************************************************************************)
EXTENDS Integers, FiniteSets

CONSTANTS Workers,      \* tasks that fetch for the address
          MaxHeight,    \* bound on the blocks of the chain
          PerBlock,     \* transfers in one direction in one block, at most
          PageSize,     \* transfers in one answer, at most (0x32 in the code)
          MaxAborts     \* bound on fetches that fail

VARIABLES height,     \* the last block
          transfers,  \* the transfers on the chain
          db,         \* the transfers in the database
          tip,        \* the tip in the database, 0 when there is none
          worker,     \* worker -> where it is and what it holds
          cut,        \* history: an answer was cut at PageSize
          aborts

vars == <<height, transfers, db, tip, worker, cut, aborts>>

Directions == {"from", "to"}
Transfer   == [dir : Directions, block : Nat, n : Nat]

ASSUME AlchemyAssumption ==
  {MaxHeight, PerBlock, PageSize, MaxAborts} \subseteq Nat

Idle  == [pc |-> "idle", from |-> 0, latest |-> 0, inc |-> {}, out |-> {}]
Ended == [Idle EXCEPT !.pc = "ended"]
------------------------------------------------------------------------------
(* Alchemy answers in the order of the chain, and stops at PageSize. *)
Between(dir, first, last) ==
  {t \in transfers : t.dir = dir /\ first <= t.block /\ t.block <= last}

Before(t, u) == t.block < u.block \/ (t.block = u.block /\ t.n < u.n)

Page(S) == {t \in S : Cardinality({u \in S : Before(u, t)}) < PageSize}

NewBlock ==
  /\ height < MaxHeight
  /\ height' = height + 1
  /\ \E S \in SUBSET [dir : Directions, block : {height'}, n : 1 .. PerBlock] :
       transfers' = transfers \cup S
  /\ UNCHANGED <<db, tip, worker, cut, aborts>>
------------------------------------------------------------------------------
Goto(k, state) == worker' = [worker EXCEPT ![k] = state]

(* fetch_transfers: the tip, or the chain's default block, *)
ReadTip(k) ==
  /\ worker[k].pc = "idle"
  /\ Goto(k, [Idle EXCEPT !.pc = "latest", !.from = IF tip = 0 THEN 1 ELSE tip])
  /\ UNCHANGED <<height, transfers, db, tip, cut, aborts>>

(* get_block_number, and the early return, *)
UpToDateLate(from, latest) == from = latest

UpToDate(from, latest) == from - 1 = latest

GetBlockNumber(k) ==
  /\ worker[k].pc = "latest"
  /\ IF UpToDate(worker[k].from, height) THEN Goto(k, Idle)
     ELSE Goto(k, [worker[k] EXCEPT !.pc = "from", !.latest = height])
  /\ UNCHANGED <<height, transfers, db, tip, cut, aborts>>

(* the transfers in both directions up to that block, *)
GetFrom(k) ==
  /\ worker[k].pc = "from"
  /\ LET S == Between("from", worker[k].from, worker[k].latest) IN
     /\ Goto(k, [worker[k] EXCEPT !.pc = "to", !.inc = Page(S)])
     /\ cut' = (cut \/ Page(S) # S)
  /\ UNCHANGED <<height, transfers, db, tip, aborts>>

GetTo(k) ==
  /\ worker[k].pc = "to"
  /\ LET S == Between("to", worker[k].from, worker[k].latest) IN
     /\ Goto(k, [worker[k] EXCEPT !.pc = "insert", !.out = Page(S)])
     /\ cut' = (cut \/ Page(S) # S)
  /\ UNCHANGED <<height, transfers, db, tip, aborts>>

(* into the database, *)
InsertInc(k) ==
  /\ worker[k].pc = "insert"
  /\ db' = db \cup worker[k].inc
  /\ Goto(k, [worker[k] EXCEPT !.pc = "insert_out"])
  /\ UNCHANGED <<height, transfers, tip, cut, aborts>>

InsertOut(k) ==
  /\ worker[k].pc = "insert_out"
  /\ db' = db \cup worker[k].out
  /\ Goto(k, [worker[k] EXCEPT !.pc = "tip"])
  /\ UNCHANGED <<height, transfers, tip, cut, aborts>>

(* and the new tip, if there were any. *)
IsTipNext(b, fetched) ==
  \E t \in fetched : b = t.block + 1 /\ \A u \in fetched : u.block <= t.block

IsTip(b, fetched) ==
  \E t \in fetched : b = t.block /\ \A u \in fetched : u.block <= t.block

SetTip(k) ==
  /\ worker[k].pc = "tip"
  /\ LET fetched == worker[k].inc \cup worker[k].out IN
     \/ fetched = {} /\ UNCHANGED tip
     \/ \E b \in 1 .. MaxHeight + 1 : IsTip(b, fetched) /\ tip' = b
  /\ Goto(k, Idle)
  /\ UNCHANGED <<height, transfers, db, cut, aborts>>

(* An error in any of these requests and writes, or the end of the program,
   ends the task where it is ... *)
Abort(k) ==
  /\ worker[k].pc \notin {"idle", "ended"}
  /\ aborts < MaxAborts /\ aborts' = aborts + 1
  /\ Goto(k, Ended)
  /\ UNCHANGED <<height, transfers, db, tip, cut>>

(* ... and another is started only when the pair is tracked again. *)
Respawn(k) ==
  /\ worker[k].pc = "ended"
  /\ Goto(k, Idle)
  /\ UNCHANGED <<height, transfers, db, tip, cut, aborts>>
------------------------------------------------------------------------------
Init ==
  /\ height = 0 /\ transfers = {} /\ db = {} /\ tip = 0
  /\ worker = [k \in Workers |-> Idle]
  /\ cut = FALSE /\ aborts = 0

FetchTransfers(k) ==
  ReadTip(k) \/ GetBlockNumber(k) \/ GetFrom(k) \/ GetTo(k)
    \/ InsertInc(k) \/ InsertOut(k) \/ SetTip(k)

Next == NewBlock \/ \E k \in Workers : FetchTransfers(k) \/ Abort(k) \/ Respawn(k)

(* A task that has not ended fetches again after its wait.  Nobody owes the
   replacement of one that has. *)
Fairness == \A k \in Workers : WF_vars(FetchTransfers(k))

Spec     == Init /\ [][Next]_vars
FairSpec == Spec /\ Fairness
------------------------------------------------------------------------------
(* Type correctness. *)
TypeOK ==
  /\ height \in Nat /\ tip \in Nat /\ aborts \in Nat /\ cut \in BOOLEAN
  /\ transfers \subseteq Transfer /\ db \subseteq transfers
  /\ worker \in [Workers -> [pc : {"idle", "latest", "from", "to", "insert",
                                   "insert_out", "tip", "ended"},
                             from : Nat, latest : Nat,
                             inc : SUBSET Transfer, out : SUBSET Transfer]]

(* Up to the tip nothing is missing: unless an answer was cut at its page
   size, every transfer up to the block the next fetch starts from is in the
   database, however the tasks overlap and wherever they fail. *)
NothingMissing == ~cut => \A t \in transfers : t.block <= tip => t \in db

(* Every transfer is stored in the end, whichever tasks fail and whatever
   they leave half done, unless an answer was cut or no task is left. *)
EventuallyStored ==
  <>[](cut \/ transfers = db \/ \A k \in Workers : worker[k].pc = "ended")
==============================================================================
