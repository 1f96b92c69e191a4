------------------------------ MODULE MCMinter ------------------------------
(* Nodes with and without the need for peers, and one that only has to end.  *)
EXTENDS Minter

Quiet == [delay |-> FALSE, peers |-> TRUE, throws |-> FALSE, teardown |-> FALSE]

MCNodes ==
  {[Quiet EXCEPT !.delay = TRUE],
   [delay |-> TRUE, peers |-> FALSE, throws |-> TRUE, teardown |-> TRUE]}
QuietNode == {Quiet}
=============================================================================
