---------------------------- MODULE MCBlockTree ----------------------------
(***************************************************************************)
(* Small block trees for TLC.                                              *)
(***************************************************************************)
EXTENDS BlockTree, TLC

CONSTANTS a1, a2, b1, b2

\* Two branches of two blocks; with HeavyFirst, a1 outweighs b1 and not b2.
MCParent == a1 :> Genesis @@ a2 :> a1 @@ b1 :> Genesis @@ b2 :> b1
\* A branch of three and a heavy block beside it.
LongParent == a1 :> Genesis @@ a2 :> a1 @@ b1 :> Genesis @@ b2 :> a2
HeavyLast == [b \in Blocks |-> IF b = b1 THEN 2 ELSE 1]
OneTrust == [b \in Blocks |-> 1]
HeavyFirst == [b \in Blocks |-> IF b \in {a1, b2} THEN 2 ELSE 1]

Place(b) == CASE b = a1 -> 1 [] b = a2 -> 2 [] b = b1 -> 3 [] b = b2 -> 4 [] OTHER -> 0
Up == [b \in All |-> Place(b)]
Down == [b \in All |-> 5 - Place(b)]

\* Every block with a stake of its own; a1 and b2 with the same stake, a2 and b1
\* with the same coin at different times.
Own == [b \in Blocks |-> [prevout |-> Place(b), time |-> 1]]
Shared == [b \in Blocks |-> [prevout |-> IF b \in {a1, b2} THEN 1 ELSE 2,
                             time |-> IF b = b1 THEN 2 ELSE 1]]

\* Two branches, one of which ends with a block that cannot be connected.
Plain == [parent |-> MCParent, trust |-> OneTrust, kernel |-> Own, legacy |-> {}, badStake |-> {},
          badScripts |-> {b2}, orders |-> {Up}, calls |-> {}, maxCalls |-> 0, maxRestarts |-> 0,
          mayFailWrite |-> FALSE]

\* A reorganisation that fails half way; operator calls against arriving blocks;
\* headers on a failed chain; starts with both pointer orders; a refused stake and
\* a failed write; a crash while a block is invalidated; shared kernels.
MCWorlds == {
  [Plain EXCEPT !.trust = HeavyFirst],
  [Plain EXCEPT !.calls = {"invalidateblock", "preciousblock"}, !.maxCalls = 1],
  [Plain EXCEPT !.parent = LongParent, !.trust = HeavyLast, !.badScripts = {}, !.maxCalls = 2,
                !.calls = {"invalidateblock", "reconsiderblock", "preciousblock"}],
  [Plain EXCEPT !.orders = {Up, Down}, !.maxRestarts = 1],
  [Plain EXCEPT !.parent = LongParent, !.badScripts = {}, !.badStake = {b1}, !.maxRestarts = 1,
                !.mayFailWrite = TRUE],
  [Plain EXCEPT !.badStake = {a2, b1}, !.calls = {"invalidateblock"}, !.maxCalls = 1, !.maxRestarts = 1],
  [Plain EXCEPT !.badScripts = {}, !.kernel = Shared, !.legacy = Blocks]}
=============================================================================
