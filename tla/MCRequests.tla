----------------------------- MODULE MCRequests ------------------------------
(* A small instance of Requests. *)
EXTENDS Requests

CONSTANTS w1, w2, stranger, x1, x2, v1, main, dev, home, anvil, new

Request(kind, chain, from, data) ==
  [kind |-> kind, chain |-> chain, wallet |-> from, data |-> data, value |-> v1]

Tx      == Request("tx", None, None, x1)
TxFrom  == Request("tx", None, w1, x2)
TxOther == Request("tx", None, stranger, x1)
Sign    == Request("sign", None, w2, x1)
Add     == Request("add", dev, None, new)
Change  == Request("update", dev, None, new)
Erc721  == Request("erc721", main, None, x1)
Erc1155 == Request("erc1155", main, None, x2)
Erc20   == Request("erc20", None, None, x1)

MCCalls == {Tx, TxFrom, TxOther, Sign, Add, Change, Erc721, Erc1155, Erc20}

MCFirstNets == { [name |-> home,  chain |-> main, dedup |-> 0],
                 [name |-> anvil, chain |-> dev,  dedup |-> 0] }

(* w2 owns one of the two tokens of a contract. *)
MCContract == [x \in {x1, x2} |-> x1]

MCOwners == { <<main, x2, w2>> }

(* Two transactions at once, a message to sign, two ways to a new network,
   tokens, and a site whose network goes away. *)
Budget(calls, moves, answers) == [calls |-> calls, moves |-> moves, answers |-> answers]

MCBudgets ==
  { Budget({Tx, TxFrom}, {}, 2),
    Budget({Tx}, {}, 4),
    Budget({Tx}, {"wallet", "fast", "network", "leave"}, 2),
    Budget({Sign, TxOther}, {"wallet", "fast", "network", "leave"}, 1),
    Budget({Add, Change}, {"network", "remove"}, 3),
    Budget({Erc721, Erc1155, Erc20}, {"wallet", "network"}, 2),
    Budget({Tx, Sign}, {"stick", "remove", "leave"}, 1) }
==============================================================================
