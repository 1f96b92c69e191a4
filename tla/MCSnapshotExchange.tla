------------------------- MODULE MCSnapshotExchange -------------------------
(* Three nodes in a line.                                                  *)
EXTENDS SnapshotExchange

CONSTANTS a, b, c

Line == {<<a, b>>, <<b, c>>}
=============================================================================
