-------------------------------- MODULE Devnet -------------------------------
(***************************************************************************)
(* The tracker of a local anvil node (crates/sync/devnet): the worker that *)
(* backfills and follows the node's blocks, the task that consumes its     *)
(* messages into the database, and the node, which mines, reverts, and     *)
(* loses its chain when it is restarted.                                   *)
(*                                                                         *)
(* Every run of the worker has a channel and a consume task of its own; a  *)
(* run that fails is replaced by another, while the task of the old one    *)
(* goes on until its channel is drained.                                   *)
(*                                                                         *)
(* A block is its hash, a number never used twice; its block number is its *)
(* position in the chain.                                                  *)
(***************************************************************************)
EXTENDS Naturals, Sequences

CONSTANTS None,        \* no checkpoint; no events held
          MaxBlocks,   \* bound on the blocks mined
          MaxReverts,  \* bound on the node's reverts
          MaxDowns,    \* bound on the times the node goes down
          MaxWatches   \* bound on the network being watched again

VARIABLES chain,      \* the node's chain
          up,         \* the node answers
          pc,         \* the worker: "off" when the network is not watched
          info,       \* SyncInfo: the latest block number the worker saw
          back,       \* the next number to backfill, 0 before there is one
          live,       \* block headers of the subscription not yet consumed
          alive,      \* the subscription is connected
          checkpoint, \* hash of the last block streamed
          consumers,  \* consume tasks, the last one that of the current run
          db,         \* the events stored for this network
          gap,        \* history: mined between sync_info and subscription
          mined, reverts, downs, watches, runs

node    == <<chain, up, mined, reverts, downs>>
stream  == <<info, back, live, alive, checkpoint>>
dvars   == <<node, pc, stream, consumers, db, gap, watches, runs>>

ASSUME DevnetAssumption ==
  /\ {MaxBlocks, MaxReverts, MaxDowns, MaxWatches} \subseteq Nat
  /\ None \notin Nat

Reset       == [kind |-> "Reset"]
CaughtUp    == [kind |-> "CaughtUp"]
Block(h, n) == [kind |-> "Block", hash |-> h, number |-> n]
Header(h, n) == <<h, n>>

OnChain(h) == \E i \in DOMAIN chain : chain[i] = h
------------------------------------------------------------------------------
(* The node. *)
Mine ==
  /\ up /\ mined < MaxBlocks
  /\ mined' = mined + 1
  /\ chain' = Append(chain, mined')
  /\ live' = IF alive THEN Append(live, Header(mined', Len(chain'))) ELSE live
  /\ gap' = IF pc \in {"connect", "subscribe"} THEN gap \cup {mined'} ELSE gap
  /\ UNCHANGED <<up, reverts, downs, pc, info, back, alive, checkpoint,
                 consumers, db, watches, runs>>

Revert ==
  /\ up /\ reverts < MaxReverts /\ reverts' = reverts + 1
  /\ \E n \in 0 .. Len(chain) - 1 : chain' = SubSeq(chain, 1, n)
  /\ UNCHANGED <<up, mined, downs, pc, stream, consumers, db, gap, watches, runs>>

NodeDown ==
  /\ up /\ downs < MaxDowns /\ downs' = downs + 1
  /\ up' = FALSE /\ chain' = <<>> /\ alive' = FALSE
  /\ UNCHANGED <<mined, reverts, pc, info, back, live, checkpoint, consumers, db,
                 gap, watches, runs>>

NodeUp == ~up /\ up' = TRUE
          /\ UNCHANGED <<chain, mined, reverts, downs, pc, stream, consumers, db,
                         gap, watches, runs>>
------------------------------------------------------------------------------
(* The consume tasks of earlier runs go on until they are drained. *)
Current == Len(consumers)

Send(m) == consumers' = [consumers EXCEPT ![Current].msgs = Append(@, m)]

NewRun(cs) == Append(cs, [msgs |-> <<Reset>>, held |-> None])

(* run_once begins: a channel, its consume task, and Reset. *)
Begin ==
  /\ pc' = "wait"
  /\ consumers' = NewRun(consumers)
  /\ checkpoint' = None /\ back' = 0 /\ info' = 0
  /\ gap' = {}
  /\ runs' = runs + 1
  /\ live' = <<>> /\ alive' = FALSE

(* run_once returns an error; run() sleeps and starts another. *)
Fail ==
  /\ pc' = "sleep"
  /\ live' = <<>> /\ alive' = FALSE
  /\ UNCHANGED <<info, back, checkpoint, consumers, gap, runs>>

Again == pc = "sleep" /\ Begin /\ UNCHANGED <<node, db, watches>>

(* wait: retried for ever until the node answers. *)
Wait ==
  /\ pc = "wait" /\ up
  /\ info' = Len(chain)
  /\ pc' = "connect"
  /\ UNCHANGED <<node, back, live, alive, checkpoint, consumers, db, gap, watches, runs>>

(* provider() and backfill_blocks: the stream fetches its blocks only later. *)
Connect ==
  /\ pc = "connect"
  /\ IF up
     THEN /\ back' = 1 /\ pc' = "subscribe"
          /\ UNCHANGED <<info, live, alive, checkpoint, consumers, gap, runs>>
     ELSE Fail
  /\ UNCHANGED <<node, db, watches>>

(* subscribe_blocks *)
Subscribe ==
  /\ pc = "subscribe"
  /\ IF up
     THEN /\ alive' = TRUE /\ live' = <<>> /\ pc' = "backfill"
          /\ UNCHANGED <<info, back, checkpoint, consumers, gap, runs>>
     ELSE Fail
  /\ UNCHANGED <<node, db, watches>>

(* validate_checkpoint *)
NeverInvalid(h) == TRUE

Valid(h) == h = None \/ (up /\ OnChain(h))

Tick ==
  /\ pc \in {"backfill", "live"} /\ ~Valid(checkpoint)
  /\ Fail
  /\ UNCHANGED <<node, db, watches>>

(* validate_and_update_checkpoint, and the message to the consumer. *)
Streamed(h, n) ==
  /\ checkpoint' = h
  /\ Send(Block(h, n))
  /\ UNCHANGED <<pc, info, alive, gap, runs>>

(* The merged stream: a number that the node no longer has is skipped, *)
BackfillRepeats ==
  /\ pc = "backfill" /\ back <= info
  /\ up /\ back <= Len(chain) /\ Valid(checkpoint)
  /\ Streamed(chain[back], back)
  /\ \E n \in {back, back + 1} : back' = n
  /\ UNCHANGED <<live, node, db, watches>>

Backfill ==
  /\ pc = "backfill" /\ back <= info
  /\ IF up /\ back <= Len(chain)
     THEN IF Valid(checkpoint)
          THEN Streamed(chain[back], back) /\ back' = back + 1 /\ UNCHANGED live
          ELSE Fail
     ELSE back' = back + 1 /\ UNCHANGED <<pc, info, live, alive, checkpoint,
                                          consumers, gap, runs>>
  /\ UNCHANGED <<node, db, watches>>

(* then CaughtUp, *)
SwitchDrops ==
  /\ pc = "backfill" /\ back > info
  /\ pc' = "live" /\ Send(CaughtUp) /\ live' = <<>>
  /\ UNCHANGED <<node, info, back, alive, checkpoint, db, gap, watches, runs>>

Switch ==
  /\ pc = "backfill" /\ back > info
  /\ pc' = "live" /\ Send(CaughtUp)
  /\ UNCHANGED <<node, stream, db, gap, watches, runs>>

(* then the subscription, until its connection is lost. *)
Live ==
  /\ pc = "live"
  /\ IF live # <<>>
     THEN IF Valid(checkpoint)
          THEN Streamed(Head(live)[1], Head(live)[2]) /\ live' = Tail(live)
               /\ UNCHANGED back
          ELSE Fail
     ELSE ~alive /\ Fail
  /\ UNCHANGED <<node, db, watches>>
------------------------------------------------------------------------------
(* unwatch: quit_tx and abort stop the worker, not its consume task; and the
   watch that follows when the network was updated or added again. *)
Unwatch ==
  /\ pc # "off" /\ watches < MaxWatches
  /\ watches' = watches + 1
  /\ pc' = "off"
  /\ live' = <<>> /\ alive' = FALSE
  /\ UNCHANGED <<node, info, back, checkpoint, consumers, db, gap, runs>>

Watch == pc = "off" /\ Begin /\ UNCHANGED <<node, db, watches>>

(* EthuiConsumer::process.  The traces are those of the block that has the
   number now, the logs those of the hash; either request may fail, which
   loses the message. *)
Fetched(m) ==
  IF ~up \/ m.number > Len(chain) THEN {None}
  ELSE IF OnChain(m.hash)
       THEN {{<<"trace", chain[m.number]>>, <<"log", m.hash>>}}
       ELSE {None, {<<"trace", chain[m.number]>>}}

Process(i) ==
  /\ consumers[i].held = None /\ consumers[i].msgs # <<>>
  /\ LET m == Head(consumers[i].msgs)
         rest == Tail(consumers[i].msgs)
     IN \/ /\ m.kind = "Reset"
           /\ db' = {}
           /\ consumers' = [consumers EXCEPT ![i].msgs = rest]
        \/ /\ m.kind = "CaughtUp"
           /\ consumers' = [consumers EXCEPT ![i].msgs = rest]
           /\ UNCHANGED db
        \/ /\ m.kind = "Block"
           /\ \E events \in Fetched(m) :
                consumers' = [consumers EXCEPT ![i] = [msgs |-> rest, held |-> events]]
           /\ UNCHANGED db
  /\ UNCHANGED <<node, pc, stream, gap, watches, runs>>

Save(i) ==
  /\ consumers[i].held # None
  /\ db' = db \cup consumers[i].held
  /\ consumers' = [consumers EXCEPT ![i].held = None]
  /\ UNCHANGED <<node, pc, stream, gap, watches, runs>>
------------------------------------------------------------------------------
DInit ==
  /\ chain = <<>> /\ up \in BOOLEAN
  /\ pc = "wait"
  /\ info = 0 /\ back = 0 /\ live = <<>> /\ alive = FALSE /\ checkpoint = None
  /\ consumers = <<[msgs |-> <<Reset>>, held |-> None]>>
  /\ db = {} /\ gap = {}
  /\ mined = 0 /\ reverts = 0 /\ downs = 0 /\ watches = 0 /\ runs = 1

Node   == Mine \/ Revert \/ NodeDown \/ NodeUp
Worker == Again \/ Wait \/ Connect \/ Subscribe \/ Backfill \/ Switch \/ Live
Consume == \E i \in DOMAIN consumers : Process(i) \/ Save(i)

DNext == Node \/ Worker \/ Tick \/ Unwatch \/ Watch \/ Consume

(* The runtime runs the worker, its timer and every consume task; the node
   and the user owe nothing: one that is down may stay down. *)
DFairness == WF_dvars(Worker) /\ WF_dvars(Tick) /\ WF_dvars(Consume)

DSpec     == DInit /\ [][DNext]_dvars
DFairSpec == DSpec /\ DFairness
------------------------------------------------------------------------------
(* The blocks among some messages come once and in chain order. *)
Sorted(ms) ==
  \A j, k \in DOMAIN ms :
    j < k /\ ms[j].kind = "Block" /\ ms[k].kind = "Block" => ms[j].hash < ms[k].hash

(* Blocks reach the consumer of a run at most once and in chain order as long
   as the node is neither reverted nor restarted: the switch from the backfill
   to the live subscription repeats none. *)
InOrder ==
  reverts = 0 /\ downs = 0 => \A i \in DOMAIN consumers : Sorted(consumers[i].msgs)

(* A revert, or a restart of the node, that removes the last block streamed
   ends the run, whether or not new blocks arrive. *)
RevertDetected ==
  (pc \in {"backfill", "live"} /\ ~(checkpoint = None \/ (up /\ OnChain(checkpoint))))
    ~> (pc \notin {"backfill", "live"})

(* In a run without trouble, every block ends up in the database with its
   traces and logs, except those mined between sync_info and the subscription. *)
Stored(h) == {<<"trace", h>>, <<"log", h>>} \subseteq db

LosesOnlyTheGap ==
  [](up /\ runs = 1 /\ pc # "off" /\ reverts = 0)
    => <>[](\A i \in DOMAIN chain : chain[i] \in gap \/ Stored(chain[i]))
==============================================================================
