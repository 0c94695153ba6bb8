-------------------------- MODULE AlchemySyncProofs --------------------------
(***************************************************************************)
(* That the tip never runs ahead of the database, for any number of tasks, *)
(* blocks and failures.                                                    *)
(*                                                                         *)
(* NothingMissing is not inductive: when a task sets the tip it relies on  *)
(* what it read several steps before.  Held(w) says what each step has     *)
(* established and why it stays true: blocks up to `latest` are final, and *)
(* the database only grows, so what was in it stays in it even if another  *)
(* task moves the tip back.                                                *)
(***************************************************************************)
EXTENDS AlchemySync, TLAPS

PastTip(w) == \A t \in transfers : t.block < w.from => t \in db

Complete(S, dir, w) ==
  \A t \in transfers :
    t.dir = dir /\ w.from <= t.block /\ t.block <= w.latest => t \in S

Held(w) ==
  /\ w.pc \notin {"idle", "ended"} => PastTip(w)
  /\ w.pc \in {"to", "insert", "insert_out", "tip"} => Complete(w.inc, "from", w)
  /\ w.pc \in {"insert", "insert_out", "tip"} => Complete(w.out, "to", w)

Bounded(w) ==
  /\ w.from <= height + 1
  /\ w.pc \in {"from", "to", "insert", "insert_out", "tip"} => w.latest <= height
  /\ \A t \in w.inc \cup w.out : t \in transfers /\ t.block <= w.latest
  /\ w.pc \in {"insert_out", "tip"} => w.inc \subseteq db
  /\ w.pc = "tip" => w.out \subseteq db

Inv ==
  /\ TypeOK
  /\ tip <= height /\ \A t \in transfers : t.block <= height
  /\ \A k \in Workers : Bounded(worker[k])
  /\ ~cut => \A k \in Workers : Held(worker[k])
  /\ NothingMissing
------------------------------------------------------------------------------
(* A page is a part of the answer it was cut from. *)
LEMMA PageSubset == ASSUME NEW S PROVE Page(S) \subseteq S
BY DEF Page

(* A step of one task, seen by all: the database and the chain only grow, no
   block up to the present height gains a transfer, and what the task itself
   holds afterwards is right.  Then the facts about every task are kept. *)
LEMMA OthersKept ==
  ASSUME Inv, NEW k \in Workers, NEW state,
         worker' = [worker EXCEPT ![k] = state],
         transfers' = transfers, height' = height, db \subseteq db',
         cut' \in BOOLEAN, cut => cut',
         Bounded(state)', ~cut' => Held(state)'
  PROVE  /\ \A j \in Workers : Bounded(worker[j])'
         /\ ~cut' => \A j \in Workers : Held(worker[j])'
<1>1. \A j \in Workers : worker'[j] = IF j = k THEN state ELSE worker[j]
  BY DEF Inv, TypeOK
<1>2. ASSUME NEW j \in Workers PROVE Bounded(worker[j])'
  <2>1. CASE j = k BY <1>1, <2>1 DEF Bounded
  <2>2. CASE j # k
    <3>1. Bounded(worker[j]) BY DEF Inv
    <3>2. worker'[j] = worker[j] BY <1>1, <2>2
    <3> QED BY <3>1, <3>2 DEF Bounded
  <2> QED BY <2>1, <2>2
<1>3. ASSUME ~cut', NEW j \in Workers PROVE Held(worker[j])'
  <2>1. CASE j = k BY <1>1, <1>3, <2>1 DEF Held, PastTip, Complete
  <2>2. CASE j # k
    <3>1. Held(worker[j]) BY <1>3 DEF Inv
    <3>2. worker'[j] = worker[j] BY <1>1, <2>2
    <3> QED BY <3>1, <3>2 DEF Held, PastTip, Complete
  <2> QED BY <2>1, <2>2
<1> QED BY <1>2, <1>3

(* The invariant holds before anything is fetched. *)
LEMMA InitInv == Init => Inv
<1> SUFFICES ASSUME Init PROVE Inv
  OBVIOUS
<1>1. \A k \in Workers : worker[k] = Idle
  BY DEF Init
<1>2. TypeOK
  BY DEF Init, TypeOK, Idle
<1>3. tip <= height /\ \A t \in transfers : t.block <= height
  BY DEF Init
<1>4. \A k \in Workers : Bounded(worker[k])
  BY <1>1 DEF Init, Bounded, Idle
<1>5. \A k \in Workers : Held(worker[k])
  BY <1>1 DEF Init, Held, Idle
<1>6. NothingMissing
  BY DEF Init, NothingMissing
<1> QED BY <1>2, <1>3, <1>4, <1>5, <1>6 DEF Inv

(* A new block only brings transfers above every `latest` and above the tip. *)
LEMMA NewBlockInv == Inv /\ NewBlock => Inv'
<1> SUFFICES ASSUME Inv, NewBlock PROVE Inv'
  OBVIOUS
<1>1. PICK S \in SUBSET [dir : Directions, block : {height'}, n : 1 .. PerBlock] :
        transfers' = transfers \cup S
  BY DEF NewBlock
<1>2. height \in Nat /\ height' = height + 1 /\ PerBlock \in Nat
  BY AlchemyAssumption DEF Inv, TypeOK, NewBlock
<1>3. \A t \in S : t \in Transfer /\ t.block = height + 1
  BY <1>1, <1>2 DEF Transfer
<1>4. TypeOK'
  BY <1>1, <1>2, <1>3 DEF Inv, TypeOK, NewBlock
<1>5. tip' <= height' /\ \A t \in transfers' : t.block <= height'
  BY <1>1, <1>2, <1>3 DEF Inv, TypeOK, Transfer, NewBlock
<1>6. UNCHANGED <<db, tip, worker, cut>>
  BY DEF NewBlock
<1>7. ASSUME NEW k \in Workers
      PROVE  Bounded(worker[k])' /\ (Held(worker[k]) => Held(worker[k])')
  <2>1. /\ worker[k].from \in Nat /\ worker[k].latest \in Nat
        /\ Bounded(worker[k]) /\ worker'[k] = worker[k]
    BY <1>6 DEF Inv, TypeOK
  <2>2. Bounded(worker[k])'
    BY <2>1, <1>1, <1>2, <1>6 DEF Bounded
  <2>3. ASSUME PastTip(worker[k]) PROVE PastTip(worker[k])'
    BY <2>1, <2>3, <1>1, <1>2, <1>3, <1>6 DEF PastTip, Bounded
  <2>4. ASSUME NEW T, NEW dir, Complete(T, dir, worker[k]), worker[k].latest <= height
        PROVE  \A t \in transfers' :
                 t.dir = dir /\ worker'[k].from <= t.block
                   /\ t.block <= worker'[k].latest => t \in T
    BY <2>1, <2>4, <1>1, <1>2, <1>3 DEF Complete
  <2>5. ASSUME Held(worker[k]) PROVE Held(worker[k])'
    <3>1. worker[k].pc \notin {"idle", "ended"} => PastTip(worker[k])'
      BY <2>5, <2>3 DEF Held
    <3>2. worker[k].pc \in {"to", "insert", "insert_out", "tip"}
            => Complete(worker[k].inc, "from", worker[k])'
      BY <2>1, <2>4, <2>5 DEF Held, Bounded, Complete
    <3>3. worker[k].pc \in {"insert", "insert_out", "tip"}
            => Complete(worker[k].out, "to", worker[k])'
      BY <2>1, <2>4, <2>5 DEF Held, Bounded, Complete
    <3> QED BY <3>1, <3>2, <3>3, <2>1 DEF Held
  <2> QED BY <2>2, <2>5
<1>8. NothingMissing'
  BY <1>1, <1>2, <1>3, <1>6 DEF NothingMissing, Inv, TypeOK
<1> QED BY <1>4, <1>5, <1>6, <1>7, <1>8 DEF Inv

(* Reading the tip: what lies below it is in the database. *)
LEMMA ReadTipInv == ASSUME Inv, NEW k \in Workers, ReadTip(k) PROVE Inv'
<1>1. PICK state : state = [Idle EXCEPT !.pc = "latest", !.from = IF tip = 0 THEN 1 ELSE tip]
  OBVIOUS
<1>2. /\ worker' = [worker EXCEPT ![k] = state]
      /\ UNCHANGED <<height, transfers, db, tip, cut, aborts>>
  BY <1>1 DEF ReadTip, Goto
<1>3. /\ state.pc = "latest" /\ state.from = (IF tip = 0 THEN 1 ELSE tip)
      /\ state.latest = 0 /\ state.inc = {} /\ state.out = {}
  BY <1>1 DEF Idle
<1>4. TypeOK'
  BY <1>1, <1>2 DEF Inv, TypeOK, Idle
<1>5. Bounded(state)'
  BY <1>2, <1>3 DEF Bounded, Inv, TypeOK
<1>6. ASSUME ~cut' PROVE Held(state)'
  <2>1. ASSUME NEW t \in transfers, t.block < state.from PROVE t \in db
    <3>1. t.block \in Nat BY DEF Inv, TypeOK, Transfer
    <3>2. t.block <= tip BY <2>1, <1>3, <3>1 DEF Inv, TypeOK
    <3> QED BY <3>2, <1>6, <1>2 DEF Inv, NothingMissing
  <2> QED BY <2>1, <1>2, <1>3 DEF Held, PastTip
<1>7. /\ \A j \in Workers : Bounded(worker[j])'
      /\ ~cut' => \A j \in Workers : Held(worker[j])'
  BY <1>2, <1>4, <1>5, <1>6, OthersKept DEF TypeOK
<1> QED BY <1>2, <1>4, <1>7 DEF Inv, NothingMissing

(* get_block_number: `latest` is final, since it is the height read. *)
LEMMA GetBlockNumberInv == ASSUME Inv, NEW k \in Workers, GetBlockNumber(k) PROVE Inv'
<1>1. PICK state : state = IF UpToDate(worker[k].from, height) THEN Idle
                           ELSE [worker[k] EXCEPT !.pc = "from", !.latest = height]
  OBVIOUS
<1>2. /\ worker' = [worker EXCEPT ![k] = state]
      /\ UNCHANGED <<height, transfers, db, tip, cut, aborts>>
  BY <1>1 DEF GetBlockNumber, Goto
<1>3. TypeOK'
  BY <1>1, <1>2 DEF Inv, TypeOK, Idle
<1>4. Bounded(worker[k]) /\ worker[k].pc = "latest" /\ (~cut => Held(worker[k]))
  BY DEF Inv, GetBlockNumber
<1>5. Bounded(state)' /\ (~cut' => Held(state)')
  <2>1. CASE state = Idle
    BY <1>2, <2>1 DEF Bounded, Held, Inv, TypeOK, Idle
  <2>2. CASE state = [worker[k] EXCEPT !.pc = "from", !.latest = height]
    <3>1. /\ state.pc = "from" /\ state.latest = height /\ state.from = worker[k].from
          /\ state.inc = worker[k].inc /\ state.out = worker[k].out
      BY <2>2 DEF Inv, TypeOK
    <3>2. Bounded(state)'
      BY <1>2, <1>4, <3>1 DEF Bounded, Inv, TypeOK
    <3>3. ~cut' => Held(state)'
      BY <1>2, <1>4, <3>1 DEF Held, PastTip
    <3> QED BY <3>2, <3>3
  <2> QED BY <1>1, <2>1, <2>2
<1>6. /\ \A j \in Workers : Bounded(worker[j])'
      /\ ~cut' => \A j \in Workers : Held(worker[j])'
  BY <1>2, <1>3, <1>5, OthersKept DEF TypeOK
<1> QED BY <1>2, <1>3, <1>6 DEF Inv, NothingMissing

(* An answer that is not cut is complete between `from` and `latest`. *)
LEMMA GetFromInv == ASSUME Inv, NEW k \in Workers, GetFrom(k) PROVE Inv'
<1>1. PICK S : S = Between("from", worker[k].from, worker[k].latest)
  OBVIOUS
<1>2. PICK state : state = [worker[k] EXCEPT !.pc = "to", !.inc = Page(S)]
  OBVIOUS
<1>3. /\ worker' = [worker EXCEPT ![k] = state] /\ cut' = (cut \/ Page(S) # S)
      /\ UNCHANGED <<height, transfers, db, tip, aborts>>
  BY <1>1, <1>2 DEF GetFrom, Goto
<1>4. \A t \in Page(S) : t \in transfers /\ t \in Transfer /\ t.block <= worker[k].latest
  BY <1>1, PageSubset DEF Between, Inv, TypeOK
<1>5. TypeOK'
  <2>1. cut' \in BOOLEAN BY <1>3
  <2>2. worker' \in [Workers -> [pc : {"idle", "latest", "from", "to", "insert",
                                       "insert_out", "tip", "ended"},
                                 from : Nat, latest : Nat,
                                 inc : SUBSET Transfer, out : SUBSET Transfer]]
    BY <1>2, <1>3, <1>4 DEF Inv, TypeOK
  <2> QED BY <1>3, <2>1, <2>2 DEF Inv, TypeOK
<1>6. /\ state.pc = "to" /\ state.latest = worker[k].latest
      /\ state.from = worker[k].from
      /\ state.inc = Page(S) /\ state.out = worker[k].out
  BY <1>2 DEF Inv, TypeOK
<1>7. Bounded(worker[k]) /\ worker[k].pc = "from" /\ (~cut => Held(worker[k]))
  BY DEF Inv, GetFrom
<1>8. Bounded(state)'
  BY <1>3, <1>4, <1>6, <1>7 DEF Bounded
<1>9. ASSUME ~cut' PROVE Held(state)'
  <2>1. Page(S) = S /\ ~cut
    BY <1>3, <1>9 DEF Inv, TypeOK
  <2>2. Complete(state.inc, "from", state)
    BY <1>1, <1>6, <2>1 DEF Complete, Between
  <2> QED BY <1>3, <1>6, <1>7, <2>1, <2>2 DEF Held, PastTip, Complete
<1>10. /\ \A j \in Workers : Bounded(worker[j])'
       /\ ~cut' => \A j \in Workers : Held(worker[j])'
  BY <1>3, <1>5, <1>8, <1>9, OthersKept DEF TypeOK
<1>11. NothingMissing'
  BY <1>3 DEF Inv, TypeOK, NothingMissing
<1> QED BY <1>3, <1>5, <1>10, <1>11 DEF Inv

(* The same in the other direction. *)
LEMMA GetToInv == ASSUME Inv, NEW k \in Workers, GetTo(k) PROVE Inv'
<1>1. PICK S : S = Between("to", worker[k].from, worker[k].latest)
  OBVIOUS
<1>2. PICK state : state = [worker[k] EXCEPT !.pc = "insert", !.out = Page(S)]
  OBVIOUS
<1>3. /\ worker' = [worker EXCEPT ![k] = state] /\ cut' = (cut \/ Page(S) # S)
      /\ UNCHANGED <<height, transfers, db, tip, aborts>>
  BY <1>1, <1>2 DEF GetTo, Goto
<1>4. \A t \in Page(S) : t \in transfers /\ t \in Transfer /\ t.block <= worker[k].latest
  BY <1>1, PageSubset DEF Between, Inv, TypeOK
<1>5. TypeOK'
  <2>1. cut' \in BOOLEAN BY <1>3
  <2>2. worker' \in [Workers -> [pc : {"idle", "latest", "from", "to", "insert",
                                       "insert_out", "tip", "ended"},
                                 from : Nat, latest : Nat,
                                 inc : SUBSET Transfer, out : SUBSET Transfer]]
    BY <1>2, <1>3, <1>4 DEF Inv, TypeOK
  <2> QED BY <1>3, <2>1, <2>2 DEF Inv, TypeOK
<1>6. /\ state.pc = "insert" /\ state.latest = worker[k].latest
      /\ state.from = worker[k].from
      /\ state.out = Page(S) /\ state.inc = worker[k].inc
  BY <1>2 DEF Inv, TypeOK
<1>7. Bounded(worker[k]) /\ worker[k].pc = "to" /\ (~cut => Held(worker[k]))
  BY DEF Inv, GetTo
<1>8. Bounded(state)'
  BY <1>3, <1>4, <1>6, <1>7 DEF Bounded
<1>9. ASSUME ~cut' PROVE Held(state)'
  <2>1. Page(S) = S /\ ~cut
    BY <1>3, <1>9 DEF Inv, TypeOK
  <2>2. Complete(state.out, "to", state)
    BY <1>1, <1>6, <2>1 DEF Complete, Between
  <2> QED BY <1>3, <1>6, <1>7, <2>1, <2>2 DEF Held, PastTip, Complete
<1>10. /\ \A j \in Workers : Bounded(worker[j])'
       /\ ~cut' => \A j \in Workers : Held(worker[j])'
  BY <1>3, <1>5, <1>8, <1>9, OthersKept DEF TypeOK
<1>11. NothingMissing'
  BY <1>3 DEF Inv, TypeOK, NothingMissing
<1> QED BY <1>3, <1>5, <1>10, <1>11 DEF Inv

(* The database gains the transfers of one direction. *)
LEMMA InsertIncInv == ASSUME Inv, NEW k \in Workers, InsertInc(k) PROVE Inv'
<1>1. PICK state : state = [worker[k] EXCEPT !.pc = "insert_out"]
  OBVIOUS
<1>2. /\ worker' = [worker EXCEPT ![k] = state] /\ db' = db \cup worker[k].inc
      /\ UNCHANGED <<height, transfers, tip, cut, aborts>>
  BY <1>1 DEF InsertInc, Goto
<1>3. Bounded(worker[k]) /\ worker[k].pc = "insert" /\ (~cut => Held(worker[k]))
  BY DEF Inv, InsertInc
<1>4. TypeOK'
  <2>1. worker[k].inc \subseteq transfers
    BY <1>3 DEF Bounded
  <2> QED BY <1>1, <1>2, <2>1 DEF Inv, TypeOK
<1>5. /\ state.pc = "insert_out" /\ state.latest = worker[k].latest
      /\ state.from = worker[k].from
      /\ state.inc = worker[k].inc /\ state.out = worker[k].out
  BY <1>1 DEF Inv, TypeOK
<1>6. Bounded(state)'
  BY <1>2, <1>3, <1>5 DEF Bounded
<1>7. ~cut' => Held(state)'
  BY <1>2, <1>3, <1>5 DEF Held, PastTip, Complete
<1>8. /\ \A j \in Workers : Bounded(worker[j])'
      /\ ~cut' => \A j \in Workers : Held(worker[j])'
  BY <1>2, <1>4, <1>6, <1>7, OthersKept DEF TypeOK
<1>9. NothingMissing'
  BY <1>2 DEF Inv, NothingMissing
<1> QED BY <1>2, <1>4, <1>8, <1>9 DEF Inv

(* The database gains the transfers of the other direction. *)
LEMMA InsertOutInv == ASSUME Inv, NEW k \in Workers, InsertOut(k) PROVE Inv'
<1>1. PICK state : state = [worker[k] EXCEPT !.pc = "tip"]
  OBVIOUS
<1>2. /\ worker' = [worker EXCEPT ![k] = state] /\ db' = db \cup worker[k].out
      /\ UNCHANGED <<height, transfers, tip, cut, aborts>>
  BY <1>1 DEF InsertOut, Goto
<1>3. Bounded(worker[k]) /\ worker[k].pc = "insert_out" /\ (~cut => Held(worker[k]))
  BY DEF Inv, InsertOut
<1>4. TypeOK'
  <2>1. worker[k].out \subseteq transfers
    BY <1>3 DEF Bounded
  <2> QED BY <1>1, <1>2, <2>1 DEF Inv, TypeOK
<1>5. /\ state.pc = "tip" /\ state.latest = worker[k].latest
      /\ state.from = worker[k].from
      /\ state.inc = worker[k].inc /\ state.out = worker[k].out
  BY <1>1 DEF Inv, TypeOK
<1>6. Bounded(state)'
  BY <1>2, <1>3, <1>5 DEF Bounded
<1>7. ~cut' => Held(state)'
  BY <1>2, <1>3, <1>5 DEF Held, PastTip, Complete
<1>8. /\ \A j \in Workers : Bounded(worker[j])'
      /\ ~cut' => \A j \in Workers : Held(worker[j])'
  BY <1>2, <1>4, <1>6, <1>7, OthersKept DEF TypeOK
<1>9. NothingMissing'
  BY <1>2 DEF Inv, NothingMissing
<1> QED BY <1>2, <1>4, <1>8, <1>9 DEF Inv

(* Back to idle, whatever the tip: a task that holds nothing has nothing to
   keep. *)
LEMMA IdleKept ==
  ASSUME Inv, NEW k \in Workers, NEW state \in {Idle, Ended},
         worker' = [worker EXCEPT ![k] = state],
         UNCHANGED <<height, transfers, db, cut>>, tip' \in Nat, aborts' \in Nat,
         tip' <= height, NothingMissing'
  PROVE  Inv'
<1>1. /\ state.pc \in {"idle", "ended"} /\ state.from = 0 /\ state.latest = 0
      /\ state.inc = {} /\ state.out = {}
  BY DEF Idle, Ended
<1>2. Bounded(state)' /\ Held(state)'
  BY <1>1 DEF Bounded, Held, Inv, TypeOK
<1>3. TypeOK'
  BY DEF Inv, TypeOK, Idle, Ended
<1>4. /\ \A j \in Workers : Bounded(worker[j])'
      /\ ~cut' => \A j \in Workers : Held(worker[j])'
  BY <1>1, <1>2, <1>3, OthersKept DEF TypeOK
<1> QED BY <1>3, <1>4 DEF Inv

(* The tip: the task has stored what lies between its `from` and `latest`,
   what lies below was stored when it began, and the tip is not above
   `latest`. *)
LEMMA SetTipInv == ASSUME Inv, NEW k \in Workers, SetTip(k) PROVE Inv'
<1> DEFINE fetched == worker[k].inc \cup worker[k].out
<1>1. /\ worker' = [worker EXCEPT ![k] = Idle]
      /\ UNCHANGED <<height, transfers, db, cut, aborts>>
  BY DEF SetTip, Goto
<1>2. Bounded(worker[k]) /\ worker[k].pc = "tip" /\ (~cut => Held(worker[k]))
  BY DEF Inv, SetTip
<1>3. CASE tip' = tip
  BY <1>1, <1>3, IdleKept DEF Inv, TypeOK, NothingMissing
<1>4. CASE \E b \in 1 .. MaxHeight + 1 : IsTip(b, fetched) /\ tip' = b
  <2>1. PICK t \in fetched : tip' = t.block
    BY <1>4 DEF IsTip
  <2>2. /\ t \in transfers /\ tip' <= worker[k].latest /\ tip' \in Nat
        /\ tip' <= height
    BY <1>2, <2>1 DEF Bounded, Inv, TypeOK, Transfer
  <2>3. ASSUME ~cut, NEW u \in transfers, u.block <= tip' PROVE u \in db
    <3>1. u.block \in Nat /\ u.dir \in {"from", "to"}
          /\ worker[k].from \in Nat /\ worker[k].latest \in Nat
      BY DEF Inv, TypeOK, Transfer, Directions
    <3>2. u.block <= worker[k].latest
      BY <2>2, <2>3, <3>1
    <3>3. CASE u.block < worker[k].from
      BY <1>2, <2>3, <3>3 DEF Held, PastTip
    <3>4. CASE worker[k].from <= u.block
      <4>1. u \in worker[k].inc \/ u \in worker[k].out
        BY <1>2, <2>3, <3>1, <3>2, <3>4 DEF Held, Complete
      <4> QED BY <1>2, <4>1 DEF Bounded
    <3> QED BY <3>1, <3>3, <3>4
  <2>4. NothingMissing'
    BY <1>1, <2>3 DEF NothingMissing
  <2> QED BY <1>1, <2>2, <2>4, IdleKept DEF Inv, TypeOK
<1> QED BY <1>3, <1>4 DEF SetTip

(* A failure: what was stored stays, and the tip was not moved. *)
LEMMA AbortInv == ASSUME Inv, NEW k \in Workers, Abort(k) PROVE Inv'
<1>1. /\ worker' = [worker EXCEPT ![k] = Ended] /\ aborts' = aborts + 1
      /\ UNCHANGED <<height, transfers, db, tip, cut>>
  BY DEF Abort, Goto
<1>2. tip' \in Nat /\ tip' <= height /\ aborts' \in Nat
  BY <1>1 DEF Inv, TypeOK
<1>3. NothingMissing'
  BY <1>1 DEF Inv, NothingMissing
<1> QED BY <1>1, <1>2, <1>3, IdleKept

(* A new task starts with nothing. *)
LEMMA RespawnInv == ASSUME Inv, NEW k \in Workers, Respawn(k) PROVE Inv'
<1>1. /\ worker' = [worker EXCEPT ![k] = Idle]
      /\ UNCHANGED <<height, transfers, db, tip, cut, aborts>>
  BY DEF Respawn, Goto
<1>2. tip' \in Nat /\ tip' <= height /\ aborts' \in Nat
  BY <1>1 DEF Inv, TypeOK
<1>3. NothingMissing'
  BY <1>1 DEF Inv, NothingMissing
<1> QED BY <1>1, <1>2, <1>3, IdleKept

(* The invariant holds in every reachable state. *)
THEOREM Invariance == Spec => []Inv
<1>1. Init => Inv
  BY InitInv
<1>2. Inv /\ [Next]_vars => Inv'
  <2> SUFFICES ASSUME Inv, [Next]_vars PROVE Inv'
    OBVIOUS
  <2>1. CASE NewBlock
    BY <2>1, NewBlockInv
  <2>2. ASSUME NEW k \in Workers, FetchTransfers(k) PROVE Inv'
    BY <2>2, ReadTipInv, GetBlockNumberInv, GetFromInv, GetToInv, InsertIncInv,
       InsertOutInv, SetTipInv DEF FetchTransfers
  <2>3. ASSUME NEW k \in Workers, Abort(k) PROVE Inv'
    BY <2>3, AbortInv
  <2>4. ASSUME NEW k \in Workers, Respawn(k) PROVE Inv'
    BY <2>4, RespawnInv
  <2>5. CASE UNCHANGED vars
    BY <2>5 DEF vars, Inv, TypeOK, Bounded, Held, PastTip, Complete, NothingMissing
  <2> QED BY <2>1, <2>2, <2>3, <2>4, <2>5 DEF Next
<1> QED BY <1>1, <1>2, PTL DEF Spec

(* Type correctness of the fetching tasks, for any number of them. *)
THEOREM TypeCorrect == Spec => []TypeOK
<1>1. Inv => TypeOK
  BY DEF Inv
<1> QED BY <1>1, Invariance, PTL

(* The tip is never ahead of the database: for any number of tasks that fetch
   at once, any chain and any failures, unless an answer was cut at its page
   size every transfer up to the tip has been stored. *)
THEOREM NothingIsMissing == Spec => []NothingMissing
<1>1. Inv => NothingMissing
  BY DEF Inv
<1> QED BY <1>1, Invariance, PTL
==============================================================================
