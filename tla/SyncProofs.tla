----------------------------- MODULE SyncProofs ------------------------------
(***************************************************************************)
(* Of the synchronisation crates.  The sync worker: its map matches what   *)
(* is tracked, for any set of addresses, chains and supported chains and   *)
(* any order of messages.  The tracker of a development node: blocks reach *)
(* the consumer of a run once and in order, for any number of blocks, runs *)
(* and consume tasks.                                                      *)
(***************************************************************************)
EXTENDS SyncWorker, Devnet, TLAPS

Inv == TypeOK /\ WorkersMatch
------------------------------------------------------------------------------
(* Spawning tasks for a set of pairs leaves every other pair as it was. *)
LEMMA SpawnKept ==
  ASSUME TypeOK, NEW S \in SUBSET Pairs, Spawn(S)
  PROVE  /\ entry' \in [Pairs -> BOOLEAN] /\ tasks' \in [Pairs -> Seq(Task)]
         /\ \A p \in Pairs : entry'[p] <=> entry[p] \/ p \in S
         /\ \A p \in Pairs : (p \in S \/ tasks[p] # <<>>) => tasks'[p] # <<>>
<1> DEFINE new == [st |-> "fetch", polls |-> 0]
<1>1. new \in Task
  BY DEF Task
<1> HIDE DEF new
<1>2. tasks' = [p \in Pairs |-> IF p \in S THEN Append(tasks[p], new) ELSE tasks[p]]
  BY DEF Spawn, new
<1>3. ASSUME NEW p \in Pairs
      PROVE  tasks'[p] \in Seq(Task) /\ ((p \in S \/ tasks[p] # <<>>) => tasks'[p] # <<>>)
  <2>1. tasks[p] \in Seq(Task)
    BY DEF TypeOK
  <2>2. Append(tasks[p], new) \in Seq(Task) /\ Append(tasks[p], new) # <<>>
    BY <2>1, <1>1
  <2> QED BY <1>2, <2>1, <2>2
<1>4. tasks' \in [Pairs -> Seq(Task)]
  BY <1>2, <1>3
<1>5. /\ entry' \in [Pairs -> BOOLEAN]
      /\ \A p \in Pairs : entry'[p] <=> entry[p] \/ p \in S
  BY DEF Spawn, TypeOK
<1> QED BY <1>3, <1>4, <1>5

(* Changing one task of a pair keeps the pair's tasks and their number. *)
LEMMA TaskKept ==
  ASSUME TypeOK, NEW p \in Pairs, NEW i \in DOMAIN tasks[p], NEW t \in Task,
         tasks' = [tasks EXCEPT ![p] = [tasks[p] EXCEPT ![i] = t]]
  PROVE  /\ tasks' \in [Pairs -> Seq(Task)]
         /\ \A q \in Pairs : tasks[q] # <<>> => tasks'[q] # <<>>
<1>1. tasks[p] \in Seq(Task)
  BY DEF TypeOK
<1>2. PICK u : u = [tasks[p] EXCEPT ![i] = t]
  OBVIOUS
<1>3. u \in Seq(Task) /\ Len(u) = Len(tasks[p])
  BY <1>1, <1>2
<1>4. tasks[p] # <<>> => u # <<>>
  BY <1>1, <1>3
<1> QED BY <1>2, <1>3, <1>4 DEF TypeOK

(* The invariant holds before the first message. *)
LEMMA InitInv == Init => Inv
<1> SUFFICES ASSUME Init PROVE Inv
  OBVIOUS
<1>1. <<>> \in Seq(Task) /\ <<>> \in Seq(AddrMsgs \cup NetMsgs)
  OBVIOUS
<1>2. TypeOK
  BY <1>1 DEF Init, TypeOK
<1>3. WorkersMatch
  BY DEF Init, WorkersMatch
<1> QED BY <1>2, <1>3 DEF Inv

(* track_addr *)
LEMMA TrackAddrInv ==
  ASSUME Inv, NEW a \in Addrs, TrackAddr(a), queue' \in Seq(AddrMsgs \cup NetMsgs),
         UNCHANGED <<msgs, fails>>
  PROVE  Inv'
<1>1. PICK S : S = {a} \X chain_ids
  OBVIOUS
<1>2. S \in SUBSET Pairs /\ Spawn(S)
  BY <1>1 DEF TrackAddr, Inv, TypeOK, Pairs
<1>3. TypeOK'
  BY <1>2, SpawnKept DEF TrackAddr, Inv, TypeOK
<1>4. \A p \in Pairs : entry'[p] <=> p[1] \in addresses' /\ p[2] \in chain_ids'
  BY <1>1, <1>2, SpawnKept DEF TrackAddr, Inv, WorkersMatch, Pairs
<1>5. \A p \in Pairs : entry'[p] => tasks'[p] # <<>>
  BY <1>2, SpawnKept DEF Inv, WorkersMatch
<1> QED BY <1>3, <1>4, <1>5 DEF Inv, WorkersMatch, TrackAddr

(* track_network *)
LEMMA TrackNetworkInv ==
  ASSUME Inv, NEW c \in Chains, TrackNetwork(c), queue' \in Seq(AddrMsgs \cup NetMsgs),
         UNCHANGED <<msgs, fails>>
  PROVE  Inv'
<1>1. CASE c \in Supported
  <2>1. PICK S : S = addresses \X {c}
    OBVIOUS
  <2>2. S \in SUBSET Pairs /\ Spawn(S) /\ chain_ids' = chain_ids \cup {c}
    BY <1>1, <2>1 DEF TrackNetwork, Inv, TypeOK, Pairs
  <2>3. TypeOK'
    BY <2>2, SpawnKept DEF TrackNetwork, Inv, TypeOK
  <2>4. \A p \in Pairs : entry'[p] <=> p[1] \in addresses' /\ p[2] \in chain_ids'
    BY <2>1, <2>2, SpawnKept DEF TrackNetwork, Inv, WorkersMatch, Pairs
  <2>5. \A p \in Pairs : entry'[p] => tasks'[p] # <<>>
    BY <2>2, SpawnKept DEF Inv, WorkersMatch
  <2> QED BY <1>1, <2>2, <2>3, <2>4, <2>5 DEF Inv, WorkersMatch
<1>2. CASE c \notin Supported
  BY <1>2 DEF TrackNetwork, Inv, TypeOK, WorkersMatch
<1> QED BY <1>1, <1>2

(* untrack_addr and untrack_network *)
LEMMA UntrackInv ==
  ASSUME Inv, queue' \in Seq(AddrMsgs \cup NetMsgs), UNCHANGED <<msgs, fails>>,
         \/ \E a \in Addrs : UntrackAddr(a)
         \/ \E c \in Chains : UntrackNetwork(c)
  PROVE  Inv'
<1>1. CASE \E a \in Addrs : UntrackAddr(a)
  <2>1. PICK a \in Addrs : UntrackAddr(a)
    BY <1>1
  <2>2. TypeOK'
    BY <2>1 DEF UntrackAddr, Retain, Inv, TypeOK
  <2>3. \A p \in Pairs : entry'[p] <=> entry[p] /\ p[1] # a
    BY <2>1 DEF UntrackAddr, Retain, Inv, TypeOK, Pairs
  <2> QED BY <2>1, <2>2, <2>3 DEF Inv, WorkersMatch, UntrackAddr, Retain
<1>2. CASE \E c \in Chains : UntrackNetwork(c)
  <2>1. PICK c \in Chains : UntrackNetwork(c)
    BY <1>2
  <2>2. TypeOK'
    BY <2>1 DEF UntrackNetwork, Retain, Inv, TypeOK
  <2>3. \A p \in Pairs : entry'[p] <=> entry[p] /\ p[2] # c
    BY <2>1 DEF UntrackNetwork, Retain, Inv, TypeOK, Pairs
  <2> QED BY <2>1, <2>2, <2>3 DEF Inv, WorkersMatch, UntrackNetwork, Retain
<1> QED BY <1>1, <1>2

(* prioritize_addr and prioritize_network: the entry has a task to send to. *)
LEMMA PrioritizeInv ==
  ASSUME Inv, NEW pair \in (Addrs \cup {Nobody}) \X (Chains \cup {Nobody}),
         Prioritize(pair), queue' \in Seq(AddrMsgs \cup NetMsgs), UNCHANGED <<msgs, fails>>
  PROVE  Inv'
<1>1. ASSUME NEW p \in Pairs
      PROVE  tasks'[p] \in Seq(Task) /\ (entry[p] => tasks'[p] # <<>>)
  <2>1. tasks[p] \in Seq(Task) /\ (entry[p] => tasks[p] # <<>>)
    BY DEF Inv, TypeOK, WorkersMatch
  <2>2. CASE p = pair /\ entry[p] /\ tasks[p][Len(tasks[p])].st # "ended"
    <3>1. PICK n : n = Len(tasks[p])
      OBVIOUS
    <3>2. n \in 1 .. Len(tasks[p]) /\ tasks[p][n] \in Task
      BY <2>1, <2>2, <3>1
    <3>3. PICK t : t = [tasks[p][n] EXCEPT !.polls = @ + 1]
      OBVIOUS
    <3>4. t \in Task
      BY <3>2, <3>3 DEF Task
    <3>5. tasks'[p] = [tasks[p] EXCEPT ![n] = t]
      BY <2>2, <3>1, <3>3 DEF Prioritize
    <3> QED BY <2>1, <3>2, <3>4, <3>5
  <2>3. CASE ~(p = pair /\ entry[p] /\ tasks[p][Len(tasks[p])].st # "ended")
    BY <2>1, <2>3 DEF Prioritize
  <2> QED BY <2>2, <2>3
<1>2. tasks' \in [Pairs -> Seq(Task)]
  BY <1>1 DEF Prioritize
<1> QED BY <1>1, <1>2 DEF Prioritize, Inv, TypeOK, WorkersMatch

(* The worker handles one message. *)
LEMMA HandleInv == ASSUME Inv, Handle PROVE Inv'
<1>1. PICK m : m = Head(queue)
  OBVIOUS
<1>2. /\ m \in AddrMsgs \cup NetMsgs /\ queue' \in Seq(AddrMsgs \cup NetMsgs)
      /\ UNCHANGED <<msgs, fails>>
  BY <1>1 DEF Handle, Inv, TypeOK
<1>3. /\ m.kind \in {"TrackAddress", "UntrackAddress", "PollAddress"} => m.addr \in Addrs
      /\ m.kind \in {"TrackNetwork", "UntrackNetwork", "PollNetwork"} => m.chain \in Chains
  BY <1>2 DEF AddrMsgs, NetMsgs
<1>4. CASE m.kind = "TrackAddress" /\ TrackAddr(m.addr)
  BY <1>2, <1>3, <1>4, TrackAddrInv
<1>5. CASE m.kind = "TrackNetwork" /\ TrackNetwork(m.chain)
  BY <1>2, <1>3, <1>5, TrackNetworkInv
<1>6. CASE m.kind = "UntrackAddress" /\ UntrackAddr(m.addr)
  BY <1>2, <1>3, <1>6, UntrackInv
<1>7. CASE m.kind = "UntrackNetwork" /\ UntrackNetwork(m.chain)
  BY <1>2, <1>3, <1>7, UntrackInv
<1>8. CASE m.kind = "PollAddress" /\ Prioritize(<<m.addr, current[2]>>)
  BY <1>2, <1>3, <1>8, PrioritizeInv DEF Inv, TypeOK
<1>9. CASE /\ m.kind = "PollNetwork"
           /\ IF m.chain \in Supported THEN Prioritize(<<current[1], m.chain>>)
              ELSE UNCHANGED <<addresses, chain_ids, current, entry, tasks>>
  <2>1. CASE m.chain \in Supported
    BY <1>2, <1>3, <1>9, <2>1, PrioritizeInv DEF Inv, TypeOK
  <2>2. CASE m.chain \notin Supported
    BY <1>2, <1>9, <2>2 DEF Inv, TypeOK, WorkersMatch
  <2> QED BY <2>1, <2>2
<1> QED BY <1>1, <1>4, <1>5, <1>6, <1>7, <1>8, <1>9 DEF Handle

(* The steps of a task. *)
LEMMA UnitWorkerInv ==
  ASSUME Inv, NEW p \in Pairs, NEW i \in DOMAIN tasks[p], Fetch(p, i) \/ Wake(p, i)
  PROVE  Inv'
<1>1. tasks[p] \in Seq(Task) /\ tasks[p][i] \in Task
  BY DEF Inv, TypeOK
<1>2. PICK t \in Task : tasks' = [tasks EXCEPT ![p] = [tasks[p] EXCEPT ![i] = t]]
  <2>1. ASSUME NEW st \in {"fetch", "wait", "ended"}, SetState(p, i, st)
        PROVE  \E t \in Task : tasks' = [tasks EXCEPT ![p] = [tasks[p] EXCEPT ![i] = t]]
    <3>1. [tasks[p][i] EXCEPT !.st = st] \in Task
      BY <1>1 DEF Task
    <3> QED BY <2>1, <3>1 DEF SetState
  <2>2. ASSUME tasks[p][i].polls > 0,
               tasks' = [tasks EXCEPT ![p][i] = [st |-> "fetch", polls |-> @.polls - 1]]
        PROVE  \E t \in Task : tasks' = [tasks EXCEPT ![p] = [tasks[p] EXCEPT ![i] = t]]
    <3>1. [st |-> "fetch", polls |-> tasks[p][i].polls - 1] \in Task
      BY <1>1, <2>2 DEF Task
    <3> QED BY <2>2, <3>1
  <2> QED BY <2>1, <2>2 DEF Fetch, Wake
<1>3. /\ tasks' \in [Pairs -> Seq(Task)]
      /\ \A q \in Pairs : tasks[q] # <<>> => tasks'[q] # <<>>
  BY <1>2, TaskKept DEF Inv
<1>4. UNCHANGED <<queue, addresses, chain_ids, current, entry, msgs>> /\ fails' \in Nat
  BY DEF Fetch, Wake, Inv, TypeOK
<1> QED BY <1>3, <1>4 DEF Inv, TypeOK, WorkersMatch

(* The invariant holds in every reachable state. *)
THEOREM Invariance == Spec => []Inv
<1>1. Inv /\ [Next]_vars => Inv'
  <2> SUFFICES ASSUME Inv, [Next]_vars PROVE Inv'
    OBVIOUS
  <2>1. CASE Receive
    BY <2>1 DEF Receive, Inv, TypeOK, WorkersMatch
  <2>2. CASE Handle
    BY <2>2, HandleInv
  <2>3. CASE \E p \in Pairs : \E i \in DOMAIN tasks[p] : Fetch(p, i) \/ Wake(p, i)
    BY <2>3, UnitWorkerInv
  <2>4. CASE UNCHANGED vars
    BY <2>4 DEF vars, Inv, TypeOK, WorkersMatch
  <2> QED BY <2>1, <2>2, <2>3, <2>4 DEF Next
<1> QED BY <1>1, InitInv, PTL DEF Spec

(* Type correctness of the sync worker, for any addresses and chains. *)
THEOREM TypeCorrect == Spec => []TypeOK
<1>1. Inv => TypeOK
  BY DEF Inv
<1> QED BY <1>1, Invariance, PTL

(* Whatever addresses and networks come and go in whatever order, the worker's
   map has an entry for exactly the tracked pairs, each entry has a task, and
   only supported chains are tracked. *)
THEOREM WorkersAlwaysMatch == Spec => []WorkersMatch
<1>1. Inv => WorkersMatch
  BY DEF Inv
<1> QED BY <1>1, Invariance, PTL
------------------------------------------------------------------------------
(***************************************************************************)
(* The tracker of a development node.  InOrder is about what is queued, so *)
(* it needs to know that whatever may be streamed next is later than it    *)
(* (Ahead), for which the three sources of a run have to be told apart:    *)
(* nothing yet, the backfill up to the number of sync_info, and the        *)
(* subscription, whose headers are of later blocks.                        *)
(***************************************************************************)
BlockMsg  == [kind : {"Block"}, hash : Nat, number : Nat \ {0}]
StreamMsg == {Reset, CaughtUp} \cup BlockMsg
Headers   == Nat \X (Nat \ {0})
Event     == {"trace", "log"} \X Nat
Consumer  == [msgs : Seq(StreamMsg), held : {None} \cup SUBSET Event]

StreamTypes ==
  /\ chain \in Seq(Nat) /\ mined \in Nat /\ reverts \in Nat /\ downs \in Nat
  /\ pc \in {"off", "wait", "connect", "subscribe", "backfill", "live", "sleep"}
  /\ info \in Nat /\ back \in Nat /\ live \in Seq(Headers)
  /\ consumers \in Seq(Consumer) /\ Current > 0
  /\ pc = "backfill" \/ pc = "subscribe" => back > 0
  /\ alive \in BOOLEAN /\ (alive => pc \in {"backfill", "live"})

(* Every block among the messages has a hash less than h. *)
Before(ms, h) == \A k \in DOMAIN ms : ms[k].kind = "Block" => ms[k].hash < h

Latest == consumers[Current].msgs

(* Without a revert or a restart of the node, a block's hash is its number. *)
Numbered == Len(chain) = mined /\ \A i \in 1 .. mined : chain[i] = i

(* The headers of the subscription are in order, and of blocks mined. *)
LiveSorted == /\ \A i \in DOMAIN live : live[i][1] <= mined
              /\ \A i, j \in DOMAIN live : i < j => live[i][1] < live[j][1]

(* What was streamed comes before what will be: nothing before the backfill,
   the number to backfill during it, and then the headers, which are those of
   blocks mined after sync_info. *)
Ahead ==
  /\ pc \in {"wait", "connect", "subscribe"} => Before(Latest, 0)
  /\ pc \in {"connect", "subscribe", "backfill"} => info <= mined
  /\ pc = "subscribe" => back = 1
  /\ pc = "backfill" => /\ Before(Latest, back) /\ back <= info + 1
                        /\ \A i \in DOMAIN live : info < live[i][1]
  /\ pc = "live" => /\ Before(Latest, mined + 1)
                    /\ \A i \in DOMAIN live : Before(Latest, live[i][1])

Calm == reverts = 0 /\ downs = 0

Ordered == /\ Numbered /\ LiveSorted /\ Ahead
           /\ \A i \in DOMAIN consumers : Sorted(consumers[i].msgs)

StreamInv == StreamTypes /\ (Calm => Ordered)
------------------------------------------------------------------------------
(* A message sent after the blocks that come before it keeps the order. *)
LEMMA SendKept ==
  ASSUME NEW ms \in Seq(StreamMsg), NEW m \in StreamMsg
  PROVE  /\ Append(ms, m) \in Seq(StreamMsg)
         /\ \A h : Before(ms, h) /\ (m.kind = "Block" => m.hash < h) => Before(Append(ms, m), h)
         /\ Sorted(ms) /\ (m.kind = "Block" => Before(ms, m.hash)) => Sorted(Append(ms, m))
<1>1. PICK u : u = Append(ms, m)
  OBVIOUS
<1>2. /\ u \in Seq(StreamMsg) /\ Len(ms) \in Nat
      /\ DOMAIN u = 1 .. Len(ms) + 1 /\ DOMAIN ms = 1 .. Len(ms) /\ u[Len(ms) + 1] = m
      /\ \A k \in DOMAIN ms : u[k] = ms[k]
  BY <1>1
<1>3. \A k \in DOMAIN u : k \in DOMAIN ms \/ k = Len(ms) + 1
  BY <1>2
<1>4. \A h : Before(ms, h) /\ (m.kind = "Block" => m.hash < h) => Before(u, h)
  BY <1>2, <1>3 DEF Before
<1>5. ASSUME Sorted(ms), m.kind = "Block" => Before(ms, m.hash) PROVE Sorted(u)
  <2> SUFFICES ASSUME NEW j \in DOMAIN u, NEW k \in DOMAIN u, j < k,
                      u[j].kind = "Block", u[k].kind = "Block"
               PROVE  u[j].hash < u[k].hash
    BY DEF Sorted
  <2>1. j \in DOMAIN ms
    BY <1>2
  <2>2. CASE k \in DOMAIN ms
    BY <1>2, <1>5, <2>1, <2>2 DEF Sorted
  <2>3. CASE k = Len(ms) + 1
    BY <1>2, <1>5, <2>1, <2>3 DEF Before
  <2> QED BY <1>3, <2>2, <2>3
<1> QED BY <1>1, <1>2, <1>4, <1>5

(* So does taking the first one. *)
LEMMA TailKept ==
  ASSUME NEW ms \in Seq(StreamMsg), ms # <<>>
  PROVE  /\ Tail(ms) \in Seq(StreamMsg)
         /\ \A h : Before(ms, h) => Before(Tail(ms), h)
         /\ Sorted(ms) => Sorted(Tail(ms))
<1>1. PICK u : u = Tail(ms)
  OBVIOUS
<1>2. u \in Seq(StreamMsg) /\ Len(ms) \in Nat /\ Len(u) = Len(ms) - 1
  BY <1>1
<1>3. \A k \in DOMAIN u : k \in Nat /\ k + 1 \in DOMAIN ms /\ u[k] = ms[k + 1]
  BY <1>1, <1>2
<1>4. \A h : Before(ms, h) => Before(u, h)
  BY <1>3 DEF Before
<1>5. ASSUME Sorted(ms) PROVE Sorted(u)
  <2> SUFFICES ASSUME NEW j \in DOMAIN u, NEW k \in DOMAIN u, j < k,
                      u[j].kind = "Block", u[k].kind = "Block"
               PROVE  u[j].hash < u[k].hash
    BY DEF Sorted
  <2>1. j + 1 \in DOMAIN ms /\ k + 1 \in DOMAIN ms /\ j + 1 < k + 1
        /\ u[j] = ms[j + 1] /\ u[k] = ms[k + 1]
    BY <1>3
  <2> QED BY <1>5, <2>1 DEF Sorted
<1> QED BY <1>1, <1>2, <1>4, <1>5

(* The current run's consumer is one of them. *)
LEMMA CurrentConsumer ==
  ASSUME StreamTypes
  PROVE  Current \in DOMAIN consumers /\ Latest \in Seq(StreamMsg)
<1>1. Current \in DOMAIN consumers /\ consumers[Current] \in Consumer
  BY DEF StreamTypes, Current
<1> QED BY <1>1 DEF Consumer, Latest

(* Only the current run's consumer is sent to. *)
LEMMA SentTo ==
  ASSUME StreamTypes, NEW m \in StreamMsg, Send(m)
  PROVE  /\ consumers' \in Seq(Consumer) /\ Current' = Current /\ Latest' = Append(Latest, m)
         /\ DOMAIN consumers' = DOMAIN consumers
         /\ \A i \in DOMAIN consumers : i # Current => consumers'[i] = consumers[i]
         /\ consumers'[Current].msgs = Append(Latest, m)
<1>1. consumers \in Seq(Consumer) /\ Current \in DOMAIN consumers
      /\ consumers[Current] \in Consumer /\ Latest \in Seq(StreamMsg)
  BY CurrentConsumer DEF StreamTypes, Current
<1>2. PICK c : c = [consumers[Current] EXCEPT !.msgs = Append(Latest, m)]
  OBVIOUS
<1>3. Append(Latest, m) \in Seq(StreamMsg)
  BY <1>1
<1>4. c \in Consumer /\ c.msgs = Append(Latest, m)
  BY <1>1, <1>2, <1>3 DEF Consumer
<1>5. consumers' = [consumers EXCEPT ![Current] = c]
  BY <1>1, <1>2 DEF Send, Latest
<1>6. consumers' \in Seq(Consumer) /\ Len(consumers') = Len(consumers)
  BY <1>1, <1>4, <1>5
<1>7. Current' = Current
  BY <1>6 DEF Current
<1> QED BY <1>1, <1>4, <1>5, <1>6, <1>7 DEF Latest

(* What a step that leaves the consumers alone has to keep. *)
LEMMA QuietInv ==
  ASSUME StreamInv, UNCHANGED consumers, StreamTypes',
         Calm' => Calm, Calm /\ Ordered => (Numbered /\ LiveSorted /\ Ahead)'
  PROVE  StreamInv'
BY DEF StreamInv, Ordered
------------------------------------------------------------------------------
LEMMA NoneYet == <<>> \in Seq(Nat) /\ <<>> \in Seq(Headers)
OBVIOUS

LEMMA StreamInit == DInit => StreamInv
<1> SUFFICES ASSUME DInit PROVE StreamInv
  OBVIOUS
<1>1. PICK c : c = [msgs |-> <<Reset>>, held |-> None]
  OBVIOUS
<1>2. c \in Consumer /\ consumers = <<c>> /\ c.msgs = <<Reset>>
  BY <1>1 DEF DInit, Consumer, StreamMsg
<1>3. consumers \in Seq(Consumer) /\ Current = 1 /\ Latest = <<Reset>>
  BY <1>2 DEF Current, Latest
<1>4. StreamTypes
  <2>1. Current > 0
    BY <1>3
  <2>2. alive \in BOOLEAN /\ ~alive
    BY DEF DInit
  <2>3. /\ chain = <<>> /\ live = <<>> /\ pc = "wait" /\ info = 0 /\ back = 0
        /\ mined = 0 /\ reverts = 0 /\ downs = 0
    BY DEF DInit
  <2> QED BY <1>3, <2>1, <2>2, <2>3, NoneYet DEF StreamTypes
<1>5. Before(<<Reset>>, 0) /\ Sorted(<<Reset>>)
  BY DEF Before, Sorted, Reset
<1>6. Numbered /\ LiveSorted /\ Ahead
  BY <1>3, <1>5 DEF DInit, Numbered, LiveSorted, Ahead
<1>7. \A i \in DOMAIN consumers : Sorted(consumers[i].msgs)
  BY <1>2, <1>5
<1> QED BY <1>4, <1>6, <1>7 DEF StreamInv, Ordered

(* The node: a new block is later than all there are. *)
LEMMA MineInv == ASSUME StreamInv, Mine PROVE StreamInv'
<1> USE DEF StreamInv
<1>1. /\ mined \in Nat /\ mined' = mined + 1 /\ chain \in Seq(Nat)
      /\ chain' = Append(chain, mined') /\ live \in Seq(Headers)
      /\ UNCHANGED <<reverts, downs, pc, info, back, alive, consumers>>
  BY DEF Mine, StreamTypes
<1>2. chain' \in Seq(Nat) /\ Len(chain') = Len(chain) + 1 /\ Len(chain') \in Nat \ {0}
  BY <1>1
<1>3. PICK x : x = <<mined', Len(chain')>>
  OBVIOUS
<1>4. x \in Headers /\ x[1] = mined + 1
  BY <1>1, <1>2, <1>3 DEF Headers
<1>5. live' = IF alive THEN Append(live, x) ELSE live
  BY <1>3 DEF Mine, Header
<1>6. live' \in Seq(Headers) /\ Len(live) \in Nat
  BY <1>1, <1>4, <1>5
<1>7. \A i \in DOMAIN live' : \/ i \in DOMAIN live /\ live'[i] = live[i]
                              \/ alive /\ i = Len(live) + 1 /\ live'[i][1] = mined + 1
  BY <1>1, <1>4, <1>5
<1>8. StreamTypes'
  BY <1>1, <1>2, <1>6 DEF StreamTypes, Current
<1>9. ASSUME Calm, Ordered PROVE (Numbered /\ LiveSorted /\ Ahead)'
  <2>1. Numbered'
    <3>1. Len(chain') = mined' /\ chain'[mined'] = mined' /\ \A i \in 1 .. mined : chain'[i] = i
      BY <1>1, <1>2, <1>9 DEF Ordered, Numbered
    <3>2. \A i \in 1 .. mined' : i \in 1 .. mined \/ i = mined'
      BY <1>1
    <3> QED BY <3>1, <3>2 DEF Numbered
  <2>2. \A i \in DOMAIN live : live[i][1] \in Nat /\ live[i][1] <= mined
    BY <1>1, <1>9 DEF Ordered, LiveSorted, Headers
  <2>3. LiveSorted'
    <3>1. \A i \in DOMAIN live' : live'[i][1] <= mined'
      BY <1>1, <1>7, <2>2
    <3>2. ASSUME NEW i \in DOMAIN live', NEW j \in DOMAIN live', i < j
          PROVE  live'[i][1] < live'[j][1]
      <4>1. DOMAIN live = 1 .. Len(live) /\ i \in Nat /\ j \in Nat
        BY <1>1, <1>6
      <4>2. j <= Len(live) + 1
        BY <1>6, <1>7, <4>1
      <4>5. i # Len(live) + 1
        BY <1>6, <3>2, <4>1, <4>2
      <4>6. i \in DOMAIN live /\ live'[i] = live[i]
        BY <1>7, <4>5
      <4>3. CASE j \in DOMAIN live /\ live'[j] = live[j]
        BY <1>9, <3>2, <4>6, <4>3 DEF Ordered, LiveSorted
      <4>4. CASE live'[j][1] = mined + 1
        BY <1>1, <2>2, <4>6, <4>4
      <4> QED BY <1>7, <4>3, <4>4
    <3> QED BY <3>1, <3>2 DEF LiveSorted
  <2>4. Latest' = Latest /\ Latest \in Seq(StreamMsg)
    BY <1>1, CurrentConsumer DEF Latest, Current
  <2>5. Before(Latest, mined + 1) => Before(Latest, mined' + 1)
    <3>1. \A k \in DOMAIN Latest : Latest[k].kind = "Block" => Latest[k].hash \in Nat
      BY <2>4 DEF StreamMsg, BlockMsg, Reset, CaughtUp
    <3> QED BY <1>1, <3>1 DEF Before
  <2>6. Ahead'
    BY <1>1, <1>7, <1>9, <2>4, <2>5 DEF Ordered, Ahead, StreamTypes
  <2> QED BY <2>1, <2>3, <2>6
<1> QED BY <1>1, <1>8, <1>9, QuietInv DEF Calm

(* A revert, a stop and a start of the node. *)
LEMMA NodeInv == ASSUME StreamInv, Revert \/ NodeDown \/ NodeUp PROVE StreamInv'
<1> USE DEF StreamInv
<1>1. CASE Revert
  <2>1. ~Calm' /\ UNCHANGED <<mined, downs, pc, info, back, live, alive, consumers>>
        /\ reverts' \in Nat
    BY <1>1 DEF Revert, Calm, StreamTypes, stream
  <2>2. chain' \in Seq(Nat)
    BY <1>1 DEF Revert, StreamTypes
  <2> QED BY <2>1, <2>2 DEF StreamTypes, Current
<1>2. CASE NodeDown
  <2>1. ~Calm' /\ UNCHANGED <<mined, reverts, pc, info, back, live, consumers>>
        /\ downs' \in Nat /\ alive' = FALSE /\ chain' = <<>>
    BY <1>2 DEF NodeDown, Calm, StreamTypes
  <2> QED BY <2>1, NoneYet DEF StreamTypes, Current
<1>3. CASE NodeUp
  BY <1>3 DEF NodeUp, stream, Calm, Ordered, Numbered, LiveSorted, Ahead, Latest, Current,
              StreamTypes
<1> QED BY <1>1, <1>2, <1>3
------------------------------------------------------------------------------
(* A run that ends: the consumers keep what they were sent. *)
Stopped ==
  /\ pc' \in {"sleep", "off"} /\ live' = <<>> /\ alive' = FALSE
  /\ UNCHANGED <<chain, mined, reverts, downs, info, back, consumers>>

LEMMA StoppedInv == ASSUME StreamInv, Stopped PROVE StreamInv'
<1>1. StreamTypes'
  BY NoneYet DEF StreamInv, Stopped, StreamTypes, Current
<1>2. Ordered => (Numbered /\ LiveSorted /\ Ahead)'
  BY DEF Stopped, Ordered, Numbered, LiveSorted, Ahead
<1> QED BY <1>1, <1>2, QuietInv DEF Stopped, Calm

LEMMA FailStops == ASSUME Fail, UNCHANGED <<node, db, watches>> PROVE Stopped
BY DEF Fail, Stopped, node

(* A run that begins: its consumer has nothing but Reset. *)
LEMMA BeginInv == ASSUME StreamInv, Begin, UNCHANGED <<node, db, watches>> PROVE StreamInv'
<1> USE DEF StreamInv
<1>1. PICK c : c = [msgs |-> <<Reset>>, held |-> None]
  OBVIOUS
<1>2. c \in Consumer /\ c.msgs = <<Reset>> /\ consumers' = Append(consumers, c)
      /\ consumers \in Seq(Consumer) /\ Len(consumers) \in Nat
  BY <1>1 DEF Begin, NewRun, Consumer, StreamMsg, StreamTypes
<1>3. /\ consumers' \in Seq(Consumer) /\ Current' = Len(consumers) + 1
      /\ Latest' = <<Reset>>
      /\ \A i \in DOMAIN consumers' :
           consumers'[i].msgs = <<Reset>> \/ (i \in DOMAIN consumers /\ consumers'[i] = consumers[i])
  BY <1>2 DEF Current, Latest
<1>4. /\ pc' = "wait" /\ info' = 0 /\ back' = 0 /\ live' = <<>> /\ alive' = FALSE
      /\ UNCHANGED <<chain, mined, reverts, downs>>
  BY DEF Begin, node
<1>5. StreamTypes'
  <2>1. Current' > 0
    BY <1>2, <1>3
  <2>2. alive' \in BOOLEAN /\ ~alive'
    BY <1>4
  <2> QED BY <1>3, <1>4, <2>1, <2>2, NoneYet DEF StreamTypes
<1>6. Before(<<Reset>>, 0) /\ Sorted(<<Reset>>)
  BY DEF Before, Sorted, Reset
<1>7. ASSUME Ordered PROVE Ordered'
  <2>1. (Numbered /\ LiveSorted /\ Ahead)'
    BY <1>3, <1>4, <1>6, <1>7 DEF Ordered, Numbered, LiveSorted, Ahead
  <2>2. \A i \in DOMAIN consumers' : Sorted(consumers'[i].msgs)
    BY <1>3, <1>6, <1>7 DEF Ordered
  <2> QED BY <2>1, <2>2 DEF Ordered
<1> QED BY <1>4, <1>5, <1>7 DEF Calm

(* wait, provider and subscribe_blocks: the headers of the subscription are
   those of blocks mined after sync_info. *)
LEMMA StartInv == ASSUME StreamInv, Wait \/ Connect \/ Subscribe PROVE StreamInv'
<1> USE DEF StreamInv
<1>1. CASE Wait
  <2>1. UNCHANGED <<chain, mined, reverts, downs, back, live, alive, consumers>>
        /\ pc = "wait" /\ pc' = "connect" /\ info' = Len(chain)
    BY <1>1 DEF Wait, node
  <2>2. Latest' = Latest /\ StreamTypes' /\ ~alive
    BY <2>1 DEF StreamTypes, Current, Latest
  <2>3. Ordered => (Numbered /\ LiveSorted /\ Ahead)'
    BY <2>1, <2>2 DEF Ordered, Numbered, LiveSorted, Ahead, StreamTypes
  <2> QED BY <2>1, <2>2, <2>3, QuietInv DEF Calm
<1>2. CASE Connect
  <2>1. CASE up
    <3>1. UNCHANGED <<chain, mined, reverts, downs, info, live, alive, consumers>>
          /\ pc = "connect" /\ pc' = "subscribe" /\ back' = 1
      BY <1>2, <2>1 DEF Connect, node
    <3>2. Latest' = Latest /\ StreamTypes'
      BY <3>1 DEF StreamTypes, Current, Latest
    <3>3. Ordered => (Numbered /\ LiveSorted /\ Ahead)'
      BY <3>1, <3>2 DEF Ordered, Numbered, LiveSorted, Ahead
    <3> QED BY <3>1, <3>2, <3>3, QuietInv DEF Calm
  <2> QED BY <1>2, <2>1, FailStops, StoppedInv DEF Connect
<1>3. CASE Subscribe
  <2>1. CASE up
    <3>1. UNCHANGED <<chain, mined, reverts, downs, info, back, consumers>>
          /\ pc = "subscribe" /\ pc' = "backfill" /\ live' = <<>> /\ alive' = TRUE
      BY <1>3, <2>1 DEF Subscribe, node
    <3>2. Latest' = Latest /\ StreamTypes' /\ Latest \in Seq(StreamMsg)
      BY <3>1, CurrentConsumer DEF StreamTypes, Current, Latest
    <3>3. Before(Latest, 0) => Before(Latest, 1)
      <4>1. \A k \in DOMAIN Latest : Latest[k].kind = "Block" => Latest[k].hash \in Nat
        BY <3>2 DEF StreamMsg, BlockMsg, Reset, CaughtUp
      <4> QED BY <4>1 DEF Before
    <3>4. Ordered => (Numbered /\ LiveSorted /\ Ahead)'
      BY <3>1, <3>2, <3>3 DEF Ordered, Numbered, LiveSorted, Ahead, StreamTypes
    <3> QED BY <3>1, <3>2, <3>4, QuietInv DEF Calm
  <2> QED BY <1>3, <2>1, FailStops, StoppedInv DEF Subscribe
<1> QED BY <1>1, <1>2, <1>3
------------------------------------------------------------------------------
(* Sending to the current consumer, with what is streamed next ahead of it. *)
LEMMA SendInv ==
  ASSUME StreamInv, NEW m \in StreamMsg, Send(m), UNCHANGED <<chain, mined, reverts, downs, info>>,
         StreamTypes', Calm /\ Ordered /\ m.kind = "Block" => Before(Latest, m.hash),
         Calm /\ Ordered => LiveSorted', Calm /\ Ordered => Ahead'
  PROVE  StreamInv'
<1>1. StreamTypes /\ Latest \in Seq(StreamMsg) /\ Current \in DOMAIN consumers
  BY CurrentConsumer DEF StreamInv
<1>2. ASSUME Calm, Ordered PROVE Ordered'
  <2>1. Sorted(Latest) /\ (m.kind = "Block" => Before(Latest, m.hash))
    BY <1>1, <1>2 DEF Ordered, Latest
  <2>2. Sorted(Append(Latest, m))
    BY <1>1, <2>1, SendKept
  <2>3. \A i \in DOMAIN consumers' : Sorted(consumers'[i].msgs)
    BY <1>1, <1>2, <2>2, SentTo DEF Ordered
  <2>4. Numbered'
    BY <1>2 DEF Ordered, Numbered
  <2> QED BY <1>2, <2>3, <2>4 DEF Ordered
<1> QED BY <1>2 DEF StreamInv, Calm

(* backfill_blocks streams the number it has come to. *)
LEMMA BackfillInv == ASSUME StreamInv, Backfill PROVE StreamInv'
<1> USE DEF StreamInv
<1>1. /\ pc = "backfill" /\ back <= info /\ back \in Nat \ {0} /\ info \in Nat
      /\ chain \in Seq(Nat) /\ UNCHANGED <<chain, mined, reverts, downs>> /\ mined \in Nat
  BY DEF Backfill, node, StreamTypes
<1>2. Latest \in Seq(StreamMsg)
  BY CurrentConsumer
<1>3. \A k \in DOMAIN Latest : Latest[k].kind = "Block" => Latest[k].hash \in Nat
  BY <1>2 DEF StreamMsg, BlockMsg, Reset, CaughtUp
<1>4. Before(Latest, back) => Before(Latest, back + 1)
  BY <1>1, <1>3 DEF Before
<1>5. CASE back <= Len(chain) /\ Streamed(chain[back], back) /\ back' = back + 1 /\ UNCHANGED live
  <2>1. PICK m : m = Block(chain[back], back)
    OBVIOUS
  <2>2. chain[back] \in Nat
    BY <1>1, <1>5
  <2>3. m \in StreamMsg /\ m.hash = chain[back]
    BY <1>1, <2>1, <2>2 DEF Block, StreamMsg, BlockMsg
  <2>4. Send(m) /\ UNCHANGED <<pc, info, alive>>
    BY <1>5, <2>1 DEF Streamed
  <2>5. StreamTypes'
    BY <1>1, <1>5, <2>3, <2>4, SentTo DEF StreamTypes
  <2>6. ASSUME Calm, Ordered
        PROVE  Before(Latest, m.hash) /\ LiveSorted' /\ Ahead'
    <3>1. chain[back] = back /\ Before(Latest, back)
      BY <1>1, <1>5, <2>6 DEF Ordered, Numbered, Ahead
    <3>2. Latest' = Append(Latest, m)
      BY <2>3, <2>4, SentTo
    <3>3. Before(Latest', back')
      BY <1>1, <1>2, <1>4, <1>5, <2>3, <3>1, <3>2, SendKept
    <3>4. LiveSorted'
      BY <1>1, <1>5, <2>6 DEF Ordered, LiveSorted
    <3>5. Ahead'
      BY <1>1, <1>5, <2>4, <2>6, <3>3 DEF Ordered, Ahead
    <3> QED BY <2>3, <3>1, <3>4, <3>5
  <2> QED BY <1>1, <2>3, <2>4, <2>5, <2>6, SendInv
<1>6. CASE Fail
  BY <1>6, FailStops, StoppedInv DEF Backfill
<1>7. CASE back' = back + 1 /\ UNCHANGED <<pc, info, live, alive, consumers>>
  <2>1. StreamTypes' /\ Latest' = Latest
    BY <1>1, <1>7 DEF StreamTypes, Current, Latest
  <2>2. Ordered => (Numbered /\ LiveSorted /\ Ahead)'
    BY <1>1, <1>4, <1>7, <2>1 DEF Ordered, Numbered, LiveSorted, Ahead
  <2> QED BY <1>1, <1>7, <2>1, <2>2, QuietInv DEF Calm
<1> QED BY <1>5, <1>6, <1>7 DEF Backfill

(* CaughtUp: the backfill ended at info, and the headers are beyond it. *)
LEMMA SwitchInv == ASSUME StreamInv, Switch PROVE StreamInv'
<1> USE DEF StreamInv
<1>1. /\ pc = "backfill" /\ back > info /\ pc' = "live" /\ Send(CaughtUp)
      /\ back \in Nat /\ info \in Nat /\ mined \in Nat /\ live \in Seq(Headers)
      /\ UNCHANGED <<chain, mined, reverts, downs, info, back, live, alive>>
  BY DEF Switch, node, stream, StreamTypes
<1>2. CaughtUp \in StreamMsg /\ CaughtUp.kind # "Block"
  BY DEF CaughtUp, StreamMsg
<1>3. StreamTypes'
  BY <1>1, <1>2, SentTo DEF StreamTypes
<1>4. Latest \in Seq(StreamMsg) /\ Latest' = Append(Latest, CaughtUp)
  BY <1>1, <1>2, SentTo, CurrentConsumer
<1>5. \A k \in DOMAIN Latest : Latest[k].kind = "Block" => Latest[k].hash \in Nat
  BY <1>4 DEF StreamMsg, BlockMsg, Reset, CaughtUp
<1>6. \A i \in DOMAIN live : live[i][1] \in Nat
  BY <1>1 DEF Headers
<1>7. ASSUME Calm, Ordered PROVE LiveSorted' /\ Ahead'
  <2>1. Before(Latest, back) /\ back <= info + 1 /\ info <= mined
        /\ \A i \in DOMAIN live : info < live[i][1]
    BY <1>1, <1>7 DEF Ordered, Ahead
  <2>2. \A h \in Nat : info < h => Before(Latest, h)
    BY <1>1, <1>5, <2>1 DEF Before
  <2>3. \A h \in Nat : info < h => Before(Latest', h)
    BY <1>2, <1>4, <2>2, SendKept
  <2>4. Ahead'
    BY <1>1, <1>6, <2>1, <2>3 DEF Ahead
  <2> QED BY <1>1, <1>7, <2>4 DEF Ordered, LiveSorted
<1> QED BY <1>1, <1>2, <1>3, <1>7, SendInv

(* The subscription streams its first header. *)
LEMMA LiveInv == ASSUME StreamInv, Live PROVE StreamInv'
<1> USE DEF StreamInv
<1>1. CASE Fail
  BY <1>1, FailStops, StoppedInv DEF Live
<1>2. CASE live # <<>> /\ Streamed(Head(live)[1], Head(live)[2]) /\ live' = Tail(live)
           /\ UNCHANGED back
  <2>1. /\ pc = "live" /\ live \in Seq(Headers) /\ mined \in Nat
        /\ UNCHANGED <<chain, mined, reverts, downs, pc, info, back, alive>>
    BY <1>2 DEF Live, node, Streamed, StreamTypes
  <2>2. PICK x : x = live[1]
    OBVIOUS
  <2>3. /\ x \in Headers /\ Head(live) = x /\ 1 \in DOMAIN live /\ Len(live) \in Nat
        /\ live' \in Seq(Headers)
    BY <1>2, <2>1, <2>2
  <2>4. \A i \in DOMAIN live' : i \in Nat /\ i > 0 /\ i + 1 \in DOMAIN live /\ live'[i] = live[i + 1]
    BY <1>2, <2>1, <2>3
  <2>5. x[1] \in Nat /\ x[2] \in Nat \ {0}
    BY <2>3 DEF Headers
  <2>6. PICK m : m = Block(x[1], x[2])
    OBVIOUS
  <2>7. m \in StreamMsg /\ m.hash = x[1] /\ Send(m)
    BY <1>2, <2>3, <2>5, <2>6 DEF Block, StreamMsg, BlockMsg, Streamed
  <2>8. StreamTypes'
    BY <2>1, <2>3, <2>7, SentTo DEF StreamTypes
  <2>9. Latest \in Seq(StreamMsg) /\ Latest' = Append(Latest, m)
    BY <2>7, SentTo, CurrentConsumer
  <2>10. ASSUME Calm, Ordered PROVE Before(Latest, m.hash) /\ LiveSorted' /\ Ahead'
    <3>1. Before(Latest, x[1]) /\ x[1] <= mined /\ Before(Latest, mined + 1)
      BY <2>1, <2>2, <2>3, <2>10 DEF Ordered, Ahead, LiveSorted
    <3>2. \A i \in DOMAIN live' : Before(Latest, live'[i][1]) /\ x[1] < live'[i][1]
      BY <2>1, <2>2, <2>3, <2>4, <2>10 DEF Ordered, Ahead, LiveSorted
    <3>3. \A i \in DOMAIN live' : Before(Latest', live'[i][1])
      BY <2>7, <2>9, <3>2, SendKept
    <3>4. Before(Latest', mined + 1)
      BY <2>1, <2>5, <2>7, <2>9, <3>1, SendKept
    <3>5. LiveSorted'
      BY <2>1, <2>4, <2>10 DEF Ordered, LiveSorted
    <3>6. Ahead'
      BY <2>1, <3>3, <3>4 DEF Ahead
    <3> QED BY <2>7, <3>1, <3>5, <3>6
  <2> QED BY <2>1, <2>7, <2>8, <2>10, SendInv
<1> QED BY <1>1, <1>2 DEF Live

(* The consume tasks take messages from the front, whichever run is theirs. *)
LEMMA ConsumeInv ==
  ASSUME StreamInv, NEW i \in DOMAIN consumers, NEW c \in Consumer,
         c.msgs = consumers[i].msgs
           \/ (consumers[i].msgs # <<>> /\ c.msgs = Tail(consumers[i].msgs)),
         consumers' = [consumers EXCEPT ![i] = c],
         UNCHANGED <<chain, mined, reverts, downs, pc, info, back, live, alive>>
  PROVE  StreamInv'
<1> USE DEF StreamInv
<1>1. consumers \in Seq(Consumer) /\ consumers[i] \in Consumer
  BY DEF StreamTypes
<1>2. /\ consumers' \in Seq(Consumer) /\ Len(consumers') = Len(consumers)
      /\ DOMAIN consumers' = DOMAIN consumers /\ consumers'[i] = c
      /\ \A j \in DOMAIN consumers : j # i => consumers'[j] = consumers[j]
  BY <1>1
<1>3. consumers[i].msgs \in Seq(StreamMsg)
  BY <1>1 DEF Consumer
<1>4. /\ Sorted(consumers[i].msgs) => Sorted(c.msgs)
      /\ \A h : Before(consumers[i].msgs, h) => Before(c.msgs, h)
  BY <1>3, TailKept
<1>5. Current' = Current /\ StreamTypes'
  BY <1>2 DEF Current, StreamTypes
<1>6. \A h : Before(Latest, h) => Before(Latest', h)
  BY <1>2, <1>4, <1>5, CurrentConsumer DEF Latest
<1>7. ASSUME Ordered PROVE Ordered'
  <2>1. \A j \in DOMAIN consumers' : Sorted(consumers'[j].msgs)
    BY <1>2, <1>4, <1>7 DEF Ordered
  <2>2. Ahead'
    BY <1>6, <1>7 DEF Ordered, Ahead
  <2>3. (Numbered /\ LiveSorted)'
    BY <1>7 DEF Ordered, Numbered, LiveSorted
  <2> QED BY <2>1, <2>2, <2>3 DEF Ordered
<1> QED BY <1>5, <1>7 DEF Calm

LEMMA ProcessInv == ASSUME StreamInv, NEW i \in DOMAIN consumers, Process(i) PROVE StreamInv'
<1>1. consumers[i] \in Consumer /\ consumers[i].msgs # <<>> /\ chain \in Seq(Nat)
      /\ UNCHANGED <<chain, mined, reverts, downs, pc, info, back, live, alive>>
  BY DEF Process, node, stream, StreamInv, StreamTypes
<1>2. PICK rest : rest = Tail(consumers[i].msgs)
  OBVIOUS
<1>3. PICK m : m = Head(consumers[i].msgs)
  OBVIOUS
<1>4. consumers[i].msgs \in Seq(StreamMsg) /\ rest \in Seq(StreamMsg) /\ m \in StreamMsg
  BY <1>1, <1>2, <1>3 DEF Consumer
<1>5. CASE consumers' = [consumers EXCEPT ![i].msgs = rest]
  <2>1. PICK c : c = [consumers[i] EXCEPT !.msgs = rest]
    OBVIOUS
  <2>2. c \in Consumer /\ c.msgs = rest /\ consumers' = [consumers EXCEPT ![i] = c]
    BY <1>1, <1>4, <1>5, <2>1 DEF Consumer
  <2> QED BY <1>1, <1>2, <2>2, ConsumeInv
<1>6. ASSUME m.kind = "Block", NEW events \in Fetched(m),
             consumers' = [consumers EXCEPT ![i] = [msgs |-> rest, held |-> events]]
      PROVE  StreamInv'
  <2>1. PICK c : c = [msgs |-> rest, held |-> events]
    OBVIOUS
  <2>2. m.hash \in Nat /\ m.number \in Nat \ {0}
    BY <1>4, <1>6 DEF StreamMsg, BlockMsg, Reset, CaughtUp
  <2>3. m.number <= Len(chain) => chain[m.number] \in Nat
    BY <1>1, <2>2
  <2>4. events = None \/ (m.number <= Len(chain) /\
          (events = {<<"trace", chain[m.number]>>, <<"log", m.hash>>}
             \/ events = {<<"trace", chain[m.number]>>}))
    BY <1>1, <1>6, <2>2 DEF Fetched
  <2>5. events \in {None} \cup SUBSET Event
    BY <2>2, <2>3, <2>4 DEF Event
  <2>6. c \in Consumer /\ c.msgs = rest /\ consumers' = [consumers EXCEPT ![i] = c]
    BY <1>4, <1>6, <2>1, <2>5 DEF Consumer
  <2> QED BY <1>1, <1>2, <2>6, ConsumeInv
<1> QED BY <1>2, <1>3, <1>5, <1>6 DEF Process

LEMMA SaveInv == ASSUME StreamInv, NEW i \in DOMAIN consumers, Save(i) PROVE StreamInv'
<1>1. consumers[i] \in Consumer
      /\ UNCHANGED <<chain, mined, reverts, downs, pc, info, back, live, alive>>
  BY DEF Save, node, stream, StreamInv, StreamTypes
<1>2. PICK c : c = [consumers[i] EXCEPT !.held = None]
  OBVIOUS
<1>3. c \in Consumer /\ c.msgs = consumers[i].msgs /\ consumers' = [consumers EXCEPT ![i] = c]
  BY <1>1, <1>2 DEF Consumer, Save
<1> QED BY <1>1, <1>3, ConsumeInv

LEMMA StreamNext == ASSUME StreamInv, [DNext]_dvars PROVE StreamInv'
<1>1. CASE UNCHANGED dvars
  BY <1>1 DEF dvars, node, stream, StreamInv, StreamTypes, Calm, Ordered, Numbered,
              LiveSorted, Ahead, Latest, Current
<1>2. CASE Tick \/ Unwatch
  <2>1. Stopped
    BY <1>2, FailStops DEF Tick, Unwatch, Stopped, node
  <2> QED BY <2>1, StoppedInv
<1>3. CASE Again \/ Watch
  BY <1>3, BeginInv DEF Again, Watch
<1>4. CASE Consume
  BY <1>4, ProcessInv, SaveInv DEF Consume
<1> QED BY <1>1, <1>2, <1>3, <1>4, MineInv, NodeInv, StartInv, BackfillInv, SwitchInv,
           LiveInv DEF DNext, Node, Worker

(* The inductive invariant holds in every reachable state. *)
THEOREM StreamInvariance == DSpec => []StreamInv
BY StreamInit, StreamNext, PTL DEF DSpec

(* As long as the node is neither reverted nor restarted, however it mines
   while a run backfills and subscribes, and however slow the consume tasks are,
   no block reaches a consumer twice or out of order: the switch from the
   backfill to the subscription loses the gap, and repeats nothing. *)
THEOREM BlocksAlwaysInOrder == DSpec => []InOrder
<1>1. StreamInv => InOrder
  BY DEF StreamInv, Calm, Ordered, InOrder
<1> QED BY <1>1, StreamInvariance, PTL
==============================================================================
