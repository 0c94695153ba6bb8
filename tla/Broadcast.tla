------------------------------ MODULE Broadcast ------------------------------
(***************************************************************************)
(* The internal message bus (crates/broadcast): one tokio broadcast        *)
(* channel, of which every receiver task sees its own copy in send order.  *)
(*                                                                         *)
(* The channel is a ring of 16 messages of every kind.  A receiver that is *)
(* behind loses its oldest messages when others fill the ring: tokio       *)
(* reports Lagged, and the receivers' `if let Ok(msg)` drops that report   *)
(* silently.  A queue here holds only the messages the receiver has a      *)
(* match arm for; the ones of other kinds are represented by what they do, *)
(* which is to push out the oldest message of a receiver that is behind,   *)
(* at any time and also when it is the only one or the newest (Lagged).    *)
(***************************************************************************)
EXTENDS Integers, Sequences

CONSTANTS Receivers,  \* names of the receiver tasks of the instance
          Capacity    \* messages a receiver may lag behind: 16, or fewer

VARIABLE inbox        \* receiver -> messages sent and not yet received

ASSUME CapacityAssumption == Capacity \in Nat \ {0}

(* The message kinds each receiver loop has a match arm for. *)
Handled ==
  [ networks    |-> {"ChainChanged", "StackAdd", "StackRemove"},
    connections |-> {"NetworkRemoved"},
    sync        |-> {"AddressAdded", "AddressRemoved", "CurrentAddressChanged",
                     "NetworkAdded", "NetworkRemoved", "CurrentNetworkChanged"},
    settings    |-> {"WalletCreated", "PeerAdded"},
    stacks      |-> {"SettingsUpdated"},
    artifacts   |-> {"SettingsUpdated", "ContractFound"} ]

ASSUME ReceiversAssumption == Receivers \subseteq DOMAIN Handled

(* One message into one receiver's ring buffer: the oldest makes room. *)
Push(queue, m) ==
  Append(IF Len(queue) < Capacity THEN queue ELSE Tail(queue), m)

(* broadcast::Sender::send *)
Send(box, m) ==
  [ r \in Receivers |->
      IF m.kind \in Handled[r] THEN Push(box[r], m) ELSE box[r] ]

(* broadcast::Receiver::recv by r, which finds Head(inbox[r]) *)
Received(r) == [inbox EXCEPT ![r] = Tail(@)]

(* RecvError::Lagged at r: its oldest message has made room for others. *)
Lagged(r) == inbox[r] # <<>> /\ inbox' = Received(r)
==============================================================================
