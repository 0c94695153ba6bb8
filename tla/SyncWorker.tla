------------------------------ MODULE SyncWorker -----------------------------
(***************************************************************************)
(* The sync worker (crates/sync): it is told which addresses and networks  *)
(* exist, and keeps one task per pair of an address and a supported chain  *)
(* that fetches updates again and again.                                   *)
(*                                                                         *)
(* The worker keeps, per pair, the handle of the task and the sender of    *)
(* its channel.  Dropping them does not stop the task: a dropped           *)
(* JoinHandle detaches it, and a channel without sender wakes it at once.  *)
(* So every task ever spawned for a pair is in tasks[p], and the map's     *)
(* entry, where there is one, is the last of them.                         *)
(***************************************************************************)
EXTENDS Naturals, Sequences, FiniteSets

CONSTANTS Addrs,      \* addresses
          Chains,     \* chain ids
          Supported,  \* the chain ids ethui_sync_alchemy supports
          Nobody,     \* no current address or chain yet
          MaxMsgs,    \* bound on the messages of the bus
          MaxFails    \* bound on fetches that fail

VARIABLES queue,      \* messages forwarded by the receiver task
          addresses,  \* tracked addresses
          chain_ids,  \* tracked chains
          current,    \* the address and the chain to give priority
          entry,      \* pair -> the map has an entry for it
          tasks,      \* pair -> the tasks spawned for it, oldest first
          msgs, fails

vars == <<queue, addresses, chain_ids, current, entry, tasks, msgs, fails>>

Pairs == Addrs \X Chains
Task  == [st : {"fetch", "wait", "ended"}, polls : Nat]

ASSUME SyncAssumption ==
  /\ Supported \subseteq Chains
  /\ Nobody \notin Addrs \cup Chains
  /\ {MaxMsgs, MaxFails} \subseteq Nat

AddrMsgs == [kind : {"TrackAddress", "UntrackAddress", "PollAddress"}, addr : Addrs]
NetMsgs  == [kind : {"TrackNetwork", "UntrackNetwork", "PollNetwork"}, chain : Chains]
------------------------------------------------------------------------------
(* spawn() and the insertion into the map, for each pair of S. *)
Spawn(S) ==
  /\ entry' = [p \in Pairs |-> entry[p] \/ p \in S]
  /\ tasks' = [p \in Pairs |-> IF p \in S
                               THEN Append(tasks[p], [st |-> "fetch", polls |-> 0])
                               ELSE tasks[p]]

(* workers.retain: the entries of S are dropped. *)
Retain(S) ==
  /\ entry' = [p \in Pairs |-> entry[p] /\ p \notin S]
  /\ UNCHANGED tasks

TrackAddr(a) ==
  /\ addresses' = addresses \cup {a}
  /\ Spawn({a} \X chain_ids)
  /\ UNCHANGED <<chain_ids, current>>

UntrackAddr(a) ==
  /\ addresses' = addresses \ {a}
  /\ Retain({a} \X Chains)
  /\ UNCHANGED <<chain_ids, current>>

TrackUnsupported(c) ==
  /\ chain_ids' = chain_ids \cup {c}
  /\ IF c \in Supported THEN Spawn(addresses \X {c}) ELSE UNCHANGED <<entry, tasks>>
  /\ UNCHANGED <<addresses, current>>

TrackNetwork(c) ==
  /\ IF c \in Supported
     THEN /\ chain_ids' = chain_ids \cup {c}
          /\ Spawn(addresses \X {c})
     ELSE UNCHANGED <<chain_ids, entry, tasks>>
  /\ UNCHANGED <<addresses, current>>

UntrackNetwork(c) ==
  /\ chain_ids' = chain_ids \ {c}
  /\ Retain(Addrs \X {c})
  /\ UNCHANGED <<addresses, current>>

(* prioritize_addr, prioritize_network: the task of the current pair, if the
   map has one, is sent a poll request. *)
Prioritize(pair) ==
  /\ current' = pair
  /\ tasks' = [p \in Pairs |->
                 IF p = pair /\ entry[p] /\ tasks[p][Len(tasks[p])].st # "ended"
                 THEN [tasks[p] EXCEPT ![Len(tasks[p])].polls = @ + 1] ELSE tasks[p]]
  /\ UNCHANGED <<addresses, chain_ids, entry>>

Handle ==
  /\ queue # <<>>
  /\ queue' = Tail(queue)
  /\ LET m == Head(queue) IN
     \/ m.kind = "TrackAddress"   /\ TrackAddr(m.addr)
     \/ m.kind = "UntrackAddress" /\ UntrackAddr(m.addr)
     \/ m.kind = "TrackNetwork"   /\ TrackNetwork(m.chain)
     \/ m.kind = "UntrackNetwork" /\ UntrackNetwork(m.chain)
     \/ m.kind = "PollAddress"    /\ Prioritize(<<m.addr, current[2]>>)
     \/ /\ m.kind = "PollNetwork"
        /\ IF m.chain \in Supported THEN Prioritize(<<current[1], m.chain>>)
           ELSE UNCHANGED <<addresses, chain_ids, current, entry, tasks>>
  /\ UNCHANGED <<msgs, fails>>

(* Wallets and networks announce changes on the bus, and the receiver task
   forwards what it can convert. *)
Receive ==
  /\ msgs < MaxMsgs /\ msgs' = msgs + 1
  /\ \E m \in AddrMsgs \cup NetMsgs : queue' = Append(queue, m)
  /\ UNCHANGED <<addresses, chain_ids, current, entry, tasks, fails>>
------------------------------------------------------------------------------
SetState(p, i, st) == tasks' = [tasks EXCEPT ![p][i].st = st]

(* unit_worker: fetch_updates, or nothing without an API key; an error ends
   the task, and its entry stays in the map. *)
Fetch(p, i) ==
  /\ tasks[p][i].st = "fetch"
  /\ \/ SetState(p, i, "wait") /\ UNCHANGED fails
     \/ fails < MaxFails /\ fails' = fails + 1 /\ SetState(p, i, "ended")
  /\ UNCHANGED <<queue, addresses, chain_ids, current, entry, msgs>>

(* select!: a poll request or the timer.  recv() returns at once also when the
   sender has been dropped. *)
WakeOnPoll(p, i) ==
  /\ tasks[p][i].st = "wait" /\ tasks[p][i].polls > 0
  /\ tasks' = [tasks EXCEPT ![p][i] = [st |-> "fetch", polls |-> @.polls - 1]]
  /\ UNCHANGED <<queue, addresses, chain_ids, current, entry, msgs, fails>>

Wake(p, i) ==
  /\ tasks[p][i].st = "wait"
  /\ \/ /\ tasks[p][i].polls > 0
        /\ tasks' = [tasks EXCEPT ![p][i] = [st |-> "fetch", polls |-> @.polls - 1]]
     \/ SetState(p, i, "fetch")
  /\ UNCHANGED <<queue, addresses, chain_ids, current, entry, msgs, fails>>

UnitWorker(p, i) == i \in DOMAIN tasks[p] /\ (Fetch(p, i) \/ Wake(p, i))
------------------------------------------------------------------------------
Init ==
  /\ queue = <<>>
  /\ addresses = {} /\ chain_ids = {} /\ current = <<Nobody, Nobody>>
  /\ entry = [p \in Pairs |-> FALSE]
  /\ tasks = [p \in Pairs |-> <<>>]
  /\ msgs = 0 /\ fails = 0

Next ==
  \/ Receive \/ Handle
  \/ \E p \in Pairs : \E i \in DOMAIN tasks[p] : Fetch(p, i) \/ Wake(p, i)

(* The runtime runs the worker and every task; timers fire. *)
Fairness == /\ WF_vars(Handle)
            /\ \A p \in Pairs, i \in 1 .. MaxMsgs : WF_vars(UnitWorker(p, i))

Spec     == Init /\ [][Next]_vars
FairSpec == Spec /\ Fairness
------------------------------------------------------------------------------
(* Type correctness; a pair with an entry has a task. *)
TypeOK ==
  /\ queue \in Seq(AddrMsgs \cup NetMsgs)
  /\ addresses \subseteq Addrs
  /\ chain_ids \subseteq Chains
  /\ current \in (Addrs \cup {Nobody}) \X (Chains \cup {Nobody})
  /\ entry \in [Pairs -> BOOLEAN]
  /\ tasks \in [Pairs -> Seq(Task)]
  /\ msgs \in Nat /\ fails \in Nat

(* Whatever the order in which addresses and networks come and go, the map
   has an entry for exactly the tracked addresses on the tracked chains, and
   every entry has a task; only supported chains are tracked. *)
WorkersMatch ==
  /\ chain_ids \subseteq Supported
  /\ \A p \in Pairs : entry[p] <=> p[1] \in addresses /\ p[2] \in chain_ids
  /\ \A p \in Pairs : entry[p] => tasks[p] # <<>>

Last(p) == tasks[p][Len(tasks[p])]

(* As long as a pair is tracked and its fetches succeed, it is fetched again
   and again, also when it was tracked twice or tracked again. *)
SyncsUnlessFailed ==
  \A p \in Pairs : []<>(~entry[p] \/ Last(p).st \in {"fetch", "ended"})
==============================================================================
