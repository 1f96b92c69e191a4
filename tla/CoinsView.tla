----------------------------- MODULE CoinsView -----------------------------
(***************************************************************************)
(* What the layers of coins promise (CCoinsView): the coins on disk, the   *)
(* coins of the active chain, and the coins as a block that is being       *)
(* connected or disconnected leaves them.  No cache, no flags.             *)
(***************************************************************************)
CONSTANTS Outpoints, Coins, Spent

VARIABLES
  disk, chain, block,  \* [Outpoints -> Coins \cup {Spent}]
  open                 \* a block is being applied

vars == <<disk, chain, block, open>>

Init ==
  /\ disk = [o \in Outpoints |-> Spent]
  /\ chain = disk /\ block = disk /\ open = FALSE

Begin == ~open /\ open' = TRUE /\ UNCHANGED <<disk, chain, block>>

Put(o, c) == open /\ block' = [block EXCEPT ![o] = c] /\ UNCHANGED <<disk, chain, open>>

\* The block is applied as a whole, or not at all.
Commit == open /\ chain' = block /\ open' = FALSE /\ UNCHANGED <<disk, block>>
Abandon == open /\ block' = chain /\ open' = FALSE /\ UNCHANGED <<disk, chain>>

Flush == ~open /\ disk' = chain /\ UNCHANGED <<chain, block, open>>
Crash == chain' = disk /\ block' = disk /\ open' = FALSE /\ UNCHANGED disk

Next ==
  \/ Begin \/ Commit \/ Abandon \/ Flush \/ Crash
  \/ \E o \in Outpoints, c \in Coins \cup {Spent} : Put(o, c)

Spec == Init /\ [][Next]_vars
=============================================================================
