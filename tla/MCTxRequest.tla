---------------------------- MODULE MCTxRequest ----------------------------
(* Three peers announce one transaction; two peers announce the txid and    *)
(* the wtxid of one; two peers announce a transaction and its parent.       *)
EXTENDS TxRequest

CONSTANTS p1, p2, p3, h1, h2

MCOrder == [h \in TxHashes |-> [p \in Peers |-> CASE p = p1 -> 3 [] p = p2 -> 2 [] p = p3 -> 1]]
MCWorlds ==
  {[offers |-> Peers \X {h1}, txs |-> {<<h1, h1>>}, priority |-> MCOrder, back |-> 1, leave |-> 1],
   [offers |-> {p1, p2} \X {h1, h2}, txs |-> {<<h1, h2>>}, priority |-> MCOrder, back |-> 0, leave |-> 1],
   [offers |-> {p1, p2} \X {h1, h2}, txs |-> {<<h1, h1>>}, priority |-> MCOrder, back |-> 0, leave |-> 0]}
=============================================================================
