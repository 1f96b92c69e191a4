---------------------------- MODULE CoinsReplay ----------------------------
(***************************************************************************)
(* The coins database across crashes.  CCoinsViewDB::BatchWrite writes the *)
(* changed coins in batches: the first one replaces the best block by the  *)
(* pair <<new tip, old tip>>, the last one sets the best block again.      *)
(* When the process ends in between, ReplayBlocks undoes the blocks of the *)
(* old tip and applies those of the new one at the next start, whatever    *)
(* part of the coins had been written.                                     *)
(*                                                                         *)
(* CoinsTip() is the map of coins that CoinsCache implements.  A coin is   *)
(* the height of the block that created it.                                *)
(***************************************************************************)
EXTENDS Integers, SequencesExt

CONSTANTS
  Outpoints,
  Parent,        \* the block tree: block -> its parent, NoBlock for genesis
  Vtx,           \* block -> sequence of transactions [vin, vout]
  NoBlock,
  Faults         \* the faults to consider: how many crashes, and whether a write to the
                 \* database "may" throw while the node runs, or "cannot"

Blocks == DOMAIN Parent
Spent == 0
Coin == Nat

VARIABLES
  db,        \* the coins on disk
  best,      \* DB_BEST_BLOCK
  heads,     \* DB_HEAD_BLOCKS
  index,     \* the blocks in the block index on disk
  known,     \* the blocks in the block index in memory
  tip,       \* hashBlock of CoinsTip()
  coins,     \* what CoinsTip(), or the cache of ReplayBlocks, shows
  phase,     \* "run", the two flushes of Shutdown, "replay", "off"
  flushing,  \* inside CCoinsViewDB::BatchWrite
  faults     \* the faults to come; writes is "did" once a write has thrown

vars == <<db, best, heads, index, known, tip, coins, phase, flushing, faults>>

Empty == [o \in Outpoints |-> Spent]

Height[b \in Blocks] == IF Parent[b] = NoBlock THEN 0 ELSE 1 + Height[Parent[b]]
Ancestors[b \in Blocks] == {b} \cup (IF Parent[b] = NoBlock THEN {} ELSE Ancestors[Parent[b]])
Genesis == CHOOSE b \in Blocks : Parent[b] = NoBlock
-----------------------------------------------------------------------------
(* What blocks do to a map of coins.                                       *)

\* SpendCoin for the inputs, AddCoins for the outputs.
ApplyTx(u, tx, h) ==
  [o \in Outpoints |-> IF o \in tx.vout THEN h ELSE IF o \in tx.vin THEN Spent ELSE u[o]]

\* UpdateCoins in ConnectBlock, and RollforwardBlock.
ApplyBlock(u, b) == FoldLeft(LAMBDA v, tx : ApplyTx(v, tx, Height[b]), u, Vtx[b])

\* The coins after the blocks up to b.
Utxo[b \in Blocks] == IF Parent[b] = NoBlock THEN Empty ELSE ApplyBlock(Utxo[Parent[b]], b)

\* CBlockUndo: the coins that transaction i of b spent, as written when b was
\* connected.
UndoData(b, i) ==
  FoldLeft(LAMBDA v, tx : ApplyTx(v, tx, Height[b]), Utxo[Parent[b]], SubSeq(Vtx[b], 1, i - 1))

\* DisconnectBlock: outputs are spent and ApplyTxInUndo restores the inputs,
\* the last transaction first.
UndoTx(u, b, i) ==
  LET tx == Vtx[b][i] IN
  [o \in Outpoints |-> IF o \in tx.vin THEN UndoData(b, i)[o]
                       ELSE IF o \in tx.vout THEN Spent ELSE u[o]]
FirstTxFirst(u, b) == FoldLeft(LAMBDA v, i : UndoTx(v, b, i), u, [i \in 1..Len(Vtx[b]) |-> i])
DisconnectBlock(u, b) == FoldRight(LAMBDA i, v : UndoTx(v, b, i), [i \in 1..Len(Vtx[b]) |-> i], u)

\* DISCONNECT_OK: every output was there as the block made it, no input was.
Clean(u, b) ==
  \A i \in 1..Len(Vtx[b]) :
    LET before == FoldRight(LAMBDA j, v : UndoTx(v, b, j),
                            [j \in 1..(Len(Vtx[b]) - i) |-> i + j], u) IN
    /\ \A o \in Vtx[b][i].vout : before[o] = Height[b]
    /\ \A o \in Vtx[b][i].vin : before[o] = Spent

\* The blocks of S from the lowest to the highest.
Upwards(S) == SetToSortSeq(S, LAMBDA a, b : Height[a] < Height[b])

\* ReplayBlocks on the coins u.
ForwardOnly(u, new, old) ==
  FoldLeft(ApplyBlock, u,
           Upwards(Ancestors[new] \ (IF old = NoBlock THEN {Genesis} ELSE Ancestors[old])))
Replay(u, new, old) ==
  LET below == IF old = NoBlock THEN {} ELSE Ancestors[old]
      back == FoldRight(LAMBDA b, v : DisconnectBlock(v, b),
                        Upwards(below \ Ancestors[new]), u)
  IN FoldLeft(ApplyBlock, back, Upwards(Ancestors[new] \ (below \cup {Genesis})))
-----------------------------------------------------------------------------
Init ==
  /\ db = Empty /\ best = NoBlock /\ heads = <<>>
  /\ index = {} /\ known = {Genesis}
  /\ tip = NoBlock /\ coins = Empty
  /\ phase = "run" /\ flushing = FALSE /\ faults \in Faults

Disk == <<db, best, heads, index>>

\* AcceptBlock: the block is in the index, its data in the block files.
AcceptBlock(b) ==
  /\ phase = "run" /\ ~flushing
  /\ b \notin known /\ Parent[b] \in known
  /\ known' = known \cup {b}
  /\ UNCHANGED <<Disk, tip, coins, phase, flushing, faults>>

ConnectTip(b) ==
  /\ phase = "run" /\ ~flushing
  /\ b \in known /\ Parent[b] = tip
  /\ coins' = ApplyBlock(coins, b) /\ tip' = b
  /\ UNCHANGED <<Disk, known, phase, flushing, faults>>

DisconnectTip ==
  /\ phase = "run" /\ ~flushing
  /\ tip \notin {NoBlock, Genesis} /\ Clean(coins, tip)
  /\ coins' = DisconnectBlock(coins, tip) /\ tip' = Parent[tip]
  /\ UNCHANGED <<Disk, known, phase, flushing, faults>>

\* FlushStateToDisk: the block index alone, from time to time ...
WriteBlockIndex ==
  /\ phase = "run" /\ ~flushing /\ index # known
  /\ index' = known
  /\ UNCHANGED <<db, best, heads, known, tip, coins, phase, flushing, faults>>

\* ... or the block index and then the coins, also twice in Shutdown.
FlushCoinsOnly ==
  /\ phase \in {"run", "stop1", "stop2"} /\ ~flushing /\ tip # NoBlock
  /\ flushing' = TRUE
  /\ UNCHANGED <<Disk, known, tip, coins, phase, faults>>
Flush ==
  /\ phase \in {"run", "stop1", "stop2"} /\ ~flushing /\ tip # NoBlock
  /\ index' = known /\ flushing' = TRUE
  /\ UNCHANGED <<db, best, heads, known, tip, coins, phase, faults>>

\* The phase after a flush.
After(p) == CASE p = "run" -> "run" [] p = "stop1" -> "stop2" [] p = "stop2" -> "off" [] p = "replay" -> "run"

\* CCoinsViewDB::BatchWrite: the tip that the database is leaving.
old_tip == IF best = NoBlock /\ heads # <<>> THEN heads[2] ELSE best

Changed == {o \in Outpoints : coins[o] # db[o]}

\* A batch with the coins of S, not the last one.
WriteBatch(S) ==
  /\ db' = [o \in Outpoints |-> IF o \in S THEN coins[o] ELSE db[o]]
  /\ best' = NoBlock /\ heads' = <<tip, old_tip>>

PartialBatch(S) ==
  /\ flushing /\ S # {} /\ S \subseteq Changed
  /\ WriteBatch(S)
  /\ UNCHANGED <<index, known, tip, coins, phase, flushing, faults>>

LastBatch ==
  /\ flushing
  /\ db' = coins /\ best' = tip /\ heads' = <<>>
  /\ flushing' = FALSE /\ phase' = After(phase)
  /\ UNCHANGED <<index, known, tip, coins, faults>>

\* WriteBatch throws dbwrapper_error.  The entries of the batch have left the
\* cache, so it shows what the database holds.  AbortNode starts the shutdown.
FailedBatch(S) ==
  /\ faults.writes # "cannot" /\ flushing /\ phase # "replay" /\ S \subseteq Changed
  /\ coins' = [o \in Outpoints |-> IF o \in S THEN db[o] ELSE coins[o]]
  /\ flushing' = FALSE /\ phase' = IF phase = "run" THEN "stop1" ELSE After(phase)
  /\ faults' = [faults EXCEPT !.writes = "did"]
  /\ UNCHANGED <<Disk, known, tip>>

\* Shutdown, which skips its flushes when there is no best block.
Shutdown ==
  /\ phase = "run" /\ ~flushing
  /\ phase' = IF tip = NoBlock THEN "off" ELSE "stop1"
  /\ UNCHANGED <<Disk, known, tip, coins, flushing, faults>>

\* The process is killed.  During a replay a failed write ends the start the
\* same way: nothing is flushed.
Crash ==
  /\ phase # "off" /\ faults.crashes > 0
  /\ faults' = [faults EXCEPT !.crashes = @ - 1]
  /\ phase' = "off" /\ flushing' = FALSE
  /\ UNCHANGED <<Disk, known, tip, coins>>

\* LoadBlockIndex and LoadGenesisBlock.
LoadBlockIndex == index \cup {Genesis}

\* LoadChainstate: the block index, ReplayBlocks, and the cache over the database.
Start ==
  /\ phase = "off"
  /\ known' = LoadBlockIndex
  /\ IF heads = <<>>
     THEN tip' = best /\ coins' = db /\ phase' = "run" /\ UNCHANGED flushing
     ELSE IF heads[1] \notin known' \/ heads[2] \notin known' \cup {NoBlock}
     THEN UNCHANGED <<tip, coins, phase, flushing>>   \* the start ends with an error
     ELSE /\ tip' = heads[1] /\ coins' = Replay(db, heads[1], heads[2])
          /\ phase' = "replay" /\ flushing' = TRUE
  /\ UNCHANGED <<Disk, faults>>

Next ==
  \/ \E b \in Blocks : AcceptBlock(b) \/ ConnectTip(b)
  \/ DisconnectTip \/ WriteBlockIndex \/ Flush \/ LastBatch \/ Shutdown \/ Crash \/ Start
  \/ \E S \in SUBSET Outpoints : PartialBatch(S) \/ FailedBatch(S)

\* The thread that flushes goes on, and somebody starts the node again.
Spec ==
  /\ Init /\ [][Next]_vars
  /\ WF_vars(LastBatch) /\ WF_vars(Start) /\ WF_vars(Flush /\ phase # "run")
-----------------------------------------------------------------------------
\* The types of the state.
TypeOK ==
  /\ db \in [Outpoints -> Coin] /\ coins \in [Outpoints -> Coin]
  /\ best \in Blocks \cup {NoBlock} /\ tip \in Blocks \cup {NoBlock}
  /\ heads = <<>> \/ heads \in Blocks \X (Blocks \cup {NoBlock})
  /\ index \subseteq known \cup {Genesis} /\ known \subseteq Blocks
  /\ phase \in {"run", "stop1", "stop2", "replay", "off"}
  /\ flushing \in BOOLEAN /\ faults \in [crashes : Nat, writes : {"cannot", "may", "did"}]

\* BatchWrite marks the database as consistent with its best block: whenever
\* there is one, the coins on disk are exactly those of its chain, unless a write
\* has thrown: the coins of that batch have left the cache.
CoinsMatchBest == best # NoBlock /\ faults.writes # "did" => db = Utxo[best]

\* Whatever part of a flush, or of a flush of a replay, reached the disk,
\* ReplayBlocks turns it into the coins of the new tip, and the blocks it needs
\* are in the block index.
HeadsReplay ==
  heads # <<>> =>
    /\ heads[1] \in index /\ heads[2] \in index \cup {NoBlock}
    /\ faults.writes # "did" => Replay(db, heads[1], heads[2]) = Utxo[heads[1]]

\* The running node works on the coins of its tip, and can disconnect it, again
\* unless a write has thrown.
CoinsMatchTip ==
  phase = "run" /\ faults.writes # "did" /\ tip # NoBlock => coins = Utxo[tip] /\ (tip # Genesis => Clean(coins, tip))

\* BatchWrite asserts that a flush over an interrupted one is for the same tip.
SameHeads == flushing /\ heads # <<>> => heads[1] = tip

\* The database can be recovered at every moment: it is that of its best block, or
\* the replay at the next start makes it that of the tip that was being written.
DiskRecovers == CoinsMatchBest /\ HeadsReplay

\* The node that runs, or replays, agrees with its tip.
TipMatches == TypeOK /\ CoinsMatchTip /\ SameHeads

\* A node that was stopped or killed runs again.
RunsAgain == [](phase = "off" => <>(phase = "run"))
=============================================================================
