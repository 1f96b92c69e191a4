----------------------------- MODULE CoinsCache -----------------------------
(***************************************************************************)
(* The layers of coins (coins.cpp): CoinsTip() is a cache over the coins   *)
(* database, and connecting or disconnecting a block works on a cache of   *)
(* its own over CoinsTip(), which is flushed into it or thrown away.       *)
(* Reading fills the caches.  An entry says whether it differs from the    *)
(* layer below (DIRTY) and whether the layer below has no such coin        *)
(* (FRESH).                                                                *)
(*                                                                         *)
(* All of this happens under cs_main.  A write to the database is atomic   *)
(* here; CoinsReplay breaks it up.  Outputs that can never be spent are    *)
(* not added and not modelled.                                             *)
(***************************************************************************)
CONSTANTS Outpoints, Coins, Spent, NoEntry

VARIABLES
  db,          \* CCoinsViewDB
  cacheCoins,  \* the entries of CoinsTip()
  view,        \* the entries of the block's cache
  open,        \* the block's cache exists
  thrown       \* a logic_error was thrown

vars == <<db, cacheCoins, view, open, thrown>>

Value == Coins \cup {Spent}
Entry == [coin : Value, flags : SUBSET {"DIRTY", "FRESH"}]
Empty == [o \in Outpoints |-> NoEntry]

ASSUME CoinsAssumption == Spent \notin Coins /\ NoEntry \notin Entry

\* What a layer with the given entries shows for o over a layer that shows below.
Shown(entry, below) == IF entry = NoEntry THEN below ELSE entry.coin

\* What CoinsTip() and the block's cache answer.
TipCoin(o) == Shown(cacheCoins[o], db[o])
BlockCoin(o) == Shown(view[o], TipCoin(o))

Init ==
  /\ db = [o \in Outpoints |-> Spent]
  /\ cacheCoins = Empty /\ view = Empty
  /\ open = FALSE /\ thrown = FALSE
-----------------------------------------------------------------------------
\* FetchCoin: GetCoin of the layer below finds only unspent coins.
FetchCoin(entry, below) ==
  IF entry = NoEntry /\ below # Spent THEN [coin |-> below, flags |-> {}] ELSE entry

FetchTip(o) == cacheCoins' = [cacheCoins EXCEPT ![o] = FetchCoin(@, db[o])]

\* GetCoin, HaveCoin and AccessCoin of CoinsTip(), for the mempool and others,
\* and Uncache.
AccessTip(o) == FetchTip(o) /\ UNCHANGED <<db, view, open, thrown>>

Uncache(o) ==
  /\ cacheCoins[o] # NoEntry /\ cacheCoins[o].flags = {}
  /\ cacheCoins' = [cacheCoins EXCEPT ![o] = NoEntry]
  /\ UNCHANGED <<db, view, open, thrown>>

\* ConnectTip and DisconnectTip make a cache over CoinsTip().
OpenView ==
  /\ ~open /\ open' = TRUE
  /\ UNCHANGED <<db, cacheCoins, view, thrown>>

\* FetchCoin of the block's cache asks CoinsTip(), which fetches the coin too.
AccessCoin(o) ==
  /\ open
  /\ view' = [view EXCEPT ![o] = FetchCoin(@, TipCoin(o))]
  /\ IF view[o] = NoEntry THEN FetchTip(o) ELSE UNCHANGED cacheCoins
  /\ UNCHANGED <<db, open, thrown>>

\* The flags of the entry that AddCoin leaves.
AlwaysFresh(entry, possible_overwrite) ==
  LET old == IF entry = NoEntry THEN {} ELSE entry.flags
  IN old \cup {"DIRTY"} \cup (IF possible_overwrite THEN {} ELSE {"FRESH"})
AddedFlags(entry, possible_overwrite) ==
  LET old == IF entry = NoEntry THEN {} ELSE entry.flags
  IN old \cup {"DIRTY"}
       \cup (IF ~possible_overwrite /\ "DIRTY" \notin old THEN {"FRESH"} ELSE {})

\* AddCoin.  Its callers rule out an unspent coin unless they say it may be there:
\* the outputs of a new transaction have a new txid, and ApplyTxInUndo asks
\* HaveCoin first.
AddCoin(o, c, possible_overwrite) ==
  /\ open
  /\ possible_overwrite \/ BlockCoin(o) = Spent
  /\ IF ~possible_overwrite /\ view[o] # NoEntry /\ view[o].coin # Spent
     THEN thrown' = TRUE /\ UNCHANGED view
     ELSE /\ view' = [view EXCEPT ![o] = [coin |-> c, flags |-> AddedFlags(@, possible_overwrite)]]
          /\ UNCHANGED thrown
  /\ UNCHANGED <<db, cacheCoins, open>>

\* What SpendCoin leaves of the entry it fetched.
SpentEntry(entry) ==
  IF entry = NoEntry \/ "FRESH" \in entry.flags THEN NoEntry
  ELSE [coin |-> Spent, flags |-> entry.flags \cup {"DIRTY"}]

SpendCoin(o) ==
  /\ open
  /\ view' = [view EXCEPT ![o] = SpentEntry(FetchCoin(@, TipCoin(o)))]
  /\ IF view[o] = NoEntry THEN FetchTip(o) ELSE UNCHANGED cacheCoins
  /\ UNCHANGED <<db, open, thrown>>

\* BatchWrite for one entry of the child and the entry of the parent.
Misapplied(child, parent) ==
  /\ child # NoEntry /\ parent # NoEntry
  /\ {"DIRTY", "FRESH"} \subseteq child.flags /\ parent.coin # Spent

Merged(child, parent) ==
  IF child = NoEntry \/ "DIRTY" \notin child.flags THEN parent
  ELSE IF parent = NoEntry
  THEN IF "FRESH" \in child.flags /\ child.coin = Spent THEN NoEntry
       ELSE [coin |-> child.coin, flags |-> child.flags]
  ELSE IF "FRESH" \in parent.flags /\ child.coin = Spent THEN NoEntry
  ELSE [coin |-> child.coin, flags |-> parent.flags \cup {"DIRTY"}]

\* The block's cache is flushed into CoinsTip() ...
FlushView ==
  /\ open
  /\ IF \E o \in Outpoints : Misapplied(view[o], cacheCoins[o])
     THEN thrown' = TRUE /\ UNCHANGED <<cacheCoins, view, open>>
     ELSE /\ cacheCoins' = [o \in Outpoints |-> Merged(view[o], cacheCoins[o])]
          /\ view' = Empty /\ open' = FALSE
          /\ UNCHANGED thrown
  /\ UNCHANGED db

\* ... or destroyed, when the block is not valid.
DropView ==
  /\ open /\ view' = Empty /\ open' = FALSE
  /\ UNCHANGED <<db, cacheCoins, thrown>>

\* CCoinsViewDB::BatchWrite: dirty entries are written or erased.
OnlyUnspent == [o \in Outpoints |-> IF cacheCoins[o] # NoEntry /\ cacheCoins[o].coin # Spent
                                     THEN cacheCoins[o].coin ELSE db[o]]
Written == [o \in Outpoints |->
              IF cacheCoins[o] # NoEntry /\ "DIRTY" \in cacheCoins[o].flags THEN cacheCoins[o].coin ELSE db[o]]

FlushTip ==
  /\ ~open
  /\ db' = Written /\ cacheCoins' = Empty
  /\ UNCHANGED <<view, open, thrown>>

Sync ==
  /\ ~open
  /\ db' = Written
  /\ cacheCoins' = [o \in Outpoints |->
       IF cacheCoins[o] = NoEntry THEN NoEntry
       ELSE IF cacheCoins[o].coin = Spent THEN NoEntry
       ELSE [coin |-> cacheCoins[o].coin, flags |-> {}]]
  /\ UNCHANGED <<view, open, thrown>>

Crash ==
  /\ cacheCoins' = Empty /\ view' = Empty /\ open' = FALSE
  /\ UNCHANGED <<db, thrown>>

Next ==
  \/ OpenView \/ FlushView \/ DropView \/ FlushTip \/ Sync \/ Crash
  \/ \E o \in Outpoints :
       \/ AccessTip(o) \/ Uncache(o) \/ AccessCoin(o) \/ SpendCoin(o)
       \/ \E c \in Coins, possible_overwrite \in BOOLEAN : AddCoin(o, c, possible_overwrite)

Spec == Init /\ [][Next]_vars
-----------------------------------------------------------------------------
\* The types of the state.
TypeOK ==
  /\ db \in [Outpoints -> Value]
  /\ cacheCoins \in [Outpoints -> Entry \cup {NoEntry}]
  /\ view \in [Outpoints -> Entry \cup {NoEntry}]
  /\ open \in BOOLEAN /\ thrown \in BOOLEAN
  /\ ~open => view = Empty

\* An entry over a layer that shows below.  Clean entries repeat the layer below,
\* FRESH ones have no coin there, and only the combinations that SanityCheck
\* allows occur.
SoundEntry(entry, below) ==
  entry # NoEntry =>
    /\ "DIRTY" \notin entry.flags => entry.coin = below /\ entry.coin # Spent /\ entry.flags = {}
    /\ "FRESH" \in entry.flags => below = Spent /\ entry.coin # Spent

\* CCoinsCacheEntry: "Failure to mark a coin as DIRTY ... will cause a consensus
\* failure", "Marking a coin as FRESH when it exists unspent in the parent cache
\* will cause a consensus failure".  Both layers keep their flags right.
FlagsSound ==
  \A o \in Outpoints : SoundEntry(cacheCoins[o], db[o]) /\ SoundEntry(view[o], TipCoin(o))

\* No sequence of calls makes AddCoin or BatchWrite throw.
NeverThrows == ~thrown

\* The invariant of the two layers under any sequence of calls.
CacheInv == TypeOK /\ FlagsSound /\ NeverThrows

\* What the layers show.
Abstract == INSTANCE CoinsView WITH
  disk <- db, chain <- [o \in Outpoints |-> TipCoin(o)], block <- [o \in Outpoints |-> BlockCoin(o)]

\* The caches implement plain maps of coins: reading, caching and uncaching change
\* nothing, a block is applied as a whole or not at all, and a flush writes
\* exactly the coins of the chain.
ImplementsView == Abstract!Spec
=============================================================================
