-------------------------- MODULE CoinsCacheProofs --------------------------
(***************************************************************************)
(* Proofs about CoinsCache for every set of outpoints and coins.  The      *)
(* inductive invariant is TypeOK, FlagsSound and NeverThrows: the flags of *)
(* both layers must be right for a spend, a merge or a flush to show the   *)
(* right coin.  Every argument is about one outpoint, so the lemmas are    *)
(* about a single entry.                                                   *)
(***************************************************************************)
EXTENDS CoinsCache, TLAPS

MaybeEntry == Entry \cup {NoEntry}

\* FetchCoin leaves a sound entry and changes nothing that is shown.
LEMMA FetchSound ==
  ASSUME NEW e \in MaybeEntry, NEW b \in Value, SoundEntry(e, b)
  PROVE  /\ FetchCoin(e, b) \in MaybeEntry
         /\ SoundEntry(FetchCoin(e, b), b)
         /\ Shown(FetchCoin(e, b), b) = Shown(e, b)
  BY CoinsAssumption, Zenon DEF MaybeEntry, Entry, Value, SoundEntry, FetchCoin, Shown

\* What an entry shows is a coin or Spent.
LEMMA ShownType ==
  ASSUME NEW e \in MaybeEntry, NEW b \in Value
  PROVE  Shown(e, b) \in Value
  BY CoinsAssumption, Zenon DEF MaybeEntry, Entry, Value, Shown

\* AddCoin leaves a sound entry that shows the coin.
LEMMA AddSound ==
  ASSUME NEW e \in MaybeEntry, NEW b \in Value, NEW c \in Coins, NEW p \in BOOLEAN,
         SoundEntry(e, b), p \/ Shown(e, b) = Spent
  PROVE  LET n == [coin |-> c, flags |-> AddedFlags(e, p)]
         IN n \in Entry /\ n # NoEntry /\ SoundEntry(n, b) /\ Shown(n, b) = c
  BY CoinsAssumption DEF MaybeEntry, Entry, Value, SoundEntry, AddedFlags, Shown

\* SpendCoin leaves a sound entry that shows nothing.
LEMMA SpendSound ==
  ASSUME NEW e \in MaybeEntry, NEW b \in Value, SoundEntry(e, b)
  PROVE  LET n == SpentEntry(FetchCoin(e, b))
         IN n \in MaybeEntry /\ SoundEntry(n, b) /\ Shown(n, b) = Spent
  BY CoinsAssumption DEF MaybeEntry, Entry, Value, SoundEntry, FetchCoin, SpentEntry, Shown

\* BatchWrite of a sound child into a sound parent never throws, leaves a sound
\* parent, and the parent shows what the child showed.
LEMMA MergeSound ==
  ASSUME NEW e \in MaybeEntry, NEW p \in MaybeEntry, NEW b \in Value,
         SoundEntry(p, b), SoundEntry(e, Shown(p, b))
  PROVE  /\ ~Misapplied(e, p)
         /\ Merged(e, p) \in MaybeEntry
         /\ SoundEntry(Merged(e, p), b)
         /\ Shown(Merged(e, p), b) = Shown(e, Shown(p, b))
<1>1. ~Misapplied(e, p)
  BY CoinsAssumption, Zenon DEF MaybeEntry, Entry, Value, SoundEntry, Misapplied, Shown
<1>2. CASE e = NoEntry
  BY <1>1, <1>2, Zenon DEF Merged, Shown
<1>3. CASE e # NoEntry /\ "DIRTY" \notin e.flags
  BY <1>1, <1>3, CoinsAssumption, Zenon DEF MaybeEntry, Entry, Value, SoundEntry, Merged, Shown
<1>4. CASE e # NoEntry /\ "DIRTY" \in e.flags /\ p = NoEntry
  BY <1>1, <1>4, CoinsAssumption DEF MaybeEntry, Entry, Value, SoundEntry, Merged, Shown
<1>5. CASE e # NoEntry /\ "DIRTY" \in e.flags /\ p # NoEntry
  BY <1>1, <1>5, CoinsAssumption DEF MaybeEntry, Entry, Value, SoundEntry, Merged, Shown
<1> QED BY <1>2, <1>3, <1>4, <1>5, Zenon

-----------------------------------------------------------------------------
\* The types of what the two layers show.
LEMMA CoinTypes ==
  ASSUME TypeOK, NEW o \in Outpoints
  PROVE  /\ db[o] \in Value /\ cacheCoins[o] \in MaybeEntry /\ view[o] \in MaybeEntry
         /\ TipCoin(o) \in Value /\ BlockCoin(o) \in Value
<1>1. db[o] \in Value /\ cacheCoins[o] \in MaybeEntry /\ view[o] \in MaybeEntry
  BY Zenon DEF TypeOK, MaybeEntry
<1>2. TipCoin(o) \in Value
  BY <1>1, ShownType, Zenon DEF TipCoin
<1> QED BY <1>1, <1>2, ShownType, Zenon DEF BlockCoin

\* An entry that is fetched into CoinsTip() leaves it sound and shows the same.
LEMMA FetchTipSound ==
  ASSUME CacheInv, NEW o \in Outpoints, FetchTip(o), db' = db
  PROVE  /\ cacheCoins' \in [Outpoints -> MaybeEntry]
         /\ \A x \in Outpoints : SoundEntry(cacheCoins'[x], db[x]) /\ TipCoin(x)' = TipCoin(x)
<1>1. SoundEntry(cacheCoins[o], db[o]) /\ db[o] \in Value /\ cacheCoins[o] \in MaybeEntry
  BY CoinTypes, Zenon DEF CacheInv, FlagsSound
<1>2. /\ FetchCoin(cacheCoins[o], db[o]) \in MaybeEntry
      /\ SoundEntry(FetchCoin(cacheCoins[o], db[o]), db[o])
      /\ Shown(FetchCoin(cacheCoins[o], db[o]), db[o]) = Shown(cacheCoins[o], db[o])
  BY <1>1, FetchSound, Zenon
<1>3. cacheCoins \in [Outpoints -> MaybeEntry]
  BY Zenon DEF CacheInv, TypeOK, MaybeEntry
<1>4. cacheCoins' = [cacheCoins EXCEPT ![o] = FetchCoin(cacheCoins[o], db[o])]
  BY Zenon DEF FetchTip
<1>5. cacheCoins' \in [Outpoints -> MaybeEntry]
  BY <1>2, <1>3, <1>4, Zenon
<1>6. ASSUME NEW x \in Outpoints
      PROVE  SoundEntry(cacheCoins'[x], db[x]) /\ TipCoin(x)' = TipCoin(x)
  <2>1. CASE x = o
    BY <1>2, <1>3, <1>4, <2>1, Zenon DEF TipCoin
  <2>2. CASE x # o
    BY <1>3, <1>4, <2>2, Zenon DEF CacheInv, FlagsSound, TipCoin
  <2> QED BY <2>1, <2>2, Zenon
<1> QED BY <1>5, <1>6, Zenon

\* A step that changes one entry of the block's cache to a sound one and leaves
\* the layers below showing the same keeps the invariant.
LEMMA ViewStep ==
  ASSUME CacheInv, NEW o \in Outpoints, NEW n \in MaybeEntry,
         SoundEntry(n, TipCoin(o)), open, open' = open, thrown' = thrown, db' = db,
         view' = [view EXCEPT ![o] = n],
         cacheCoins' \in [Outpoints -> MaybeEntry],
         \A x \in Outpoints : SoundEntry(cacheCoins'[x], db[x]) /\ TipCoin(x)' = TipCoin(x)
  PROVE  /\ CacheInv'
         /\ \A x \in Outpoints : BlockCoin(x)' = IF x = o THEN Shown(n, TipCoin(o)) ELSE BlockCoin(x)
<1>1. view \in [Outpoints -> MaybeEntry]
  BY Zenon DEF CacheInv, TypeOK, MaybeEntry
<1>2. TypeOK'
  BY <1>1, Zenon DEF CacheInv, TypeOK, MaybeEntry
<1>3. ASSUME NEW x \in Outpoints
      PROVE  /\ SoundEntry(view'[x], TipCoin(x)')
             /\ BlockCoin(x)' = IF x = o THEN Shown(n, TipCoin(o)) ELSE BlockCoin(x)
  <2>1. CASE x = o
    BY <1>1, <2>1, Zenon DEF BlockCoin
  <2>2. CASE x # o
    BY <1>1, <2>2, Zenon DEF CacheInv, FlagsSound, BlockCoin
  <2> QED BY <2>1, <2>2, Zenon
<1>4. FlagsSound'
  BY <1>3, Zenon DEF FlagsSound
<1> QED BY <1>2, <1>3, <1>4, Zenon DEF CacheInv, NeverThrows

\* Adding and spending change exactly the coin they name.
LEMMA AccessStep ==
  ASSUME CacheInv, NEW o \in Outpoints, AccessCoin(o)
  PROVE  CacheInv' /\ \A x \in Outpoints : TipCoin(x)' = TipCoin(x) /\ BlockCoin(x)' = BlockCoin(x)
<1>1. SoundEntry(view[o], TipCoin(o)) /\ TipCoin(o) \in Value /\ view[o] \in MaybeEntry
  BY CoinTypes, Zenon DEF CacheInv, FlagsSound
<1>2. /\ FetchCoin(view[o], TipCoin(o)) \in MaybeEntry
      /\ SoundEntry(FetchCoin(view[o], TipCoin(o)), TipCoin(o))
      /\ Shown(FetchCoin(view[o], TipCoin(o)), TipCoin(o)) = Shown(view[o], TipCoin(o))
  BY <1>1, FetchSound, Zenon
<1>3. /\ cacheCoins' \in [Outpoints -> MaybeEntry]
      /\ \A x \in Outpoints : SoundEntry(cacheCoins'[x], db[x]) /\ TipCoin(x)' = TipCoin(x)
  <2>1. CASE view[o] = NoEntry
    BY <2>1, FetchTipSound, Zenon DEF AccessCoin
  <2>2. CASE view[o] # NoEntry
    BY <2>2, Zenon DEF AccessCoin, CacheInv, TypeOK, FlagsSound, MaybeEntry, TipCoin
  <2> QED BY <2>1, <2>2, Zenon
<1>4. /\ CacheInv'
      /\ \A x \in Outpoints : BlockCoin(x)' = IF x = o THEN Shown(view[o], TipCoin(o)) ELSE BlockCoin(x)
  BY <1>2, <1>3, ViewStep, Zenon DEF AccessCoin
<1> QED BY <1>3, <1>4, Zenon DEF BlockCoin

\* SpendCoin keeps the invariant.
LEMMA SpendStep ==
  ASSUME CacheInv, NEW o \in Outpoints, SpendCoin(o)
  PROVE  /\ CacheInv'
         /\ \A x \in Outpoints : /\ TipCoin(x)' = TipCoin(x)
                                 /\ BlockCoin(x)' = IF x = o THEN Spent ELSE BlockCoin(x)
<1> DEFINE n == SpentEntry(FetchCoin(view[o], TipCoin(o)))
<1>1. SoundEntry(view[o], TipCoin(o)) /\ TipCoin(o) \in Value /\ view[o] \in MaybeEntry
  BY CoinTypes, Zenon DEF CacheInv, FlagsSound
<1>2. n \in MaybeEntry /\ SoundEntry(n, TipCoin(o)) /\ Shown(n, TipCoin(o)) = Spent
  BY <1>1, SpendSound, Zenon
<1>3. /\ cacheCoins' \in [Outpoints -> MaybeEntry]
      /\ \A x \in Outpoints : SoundEntry(cacheCoins'[x], db[x]) /\ TipCoin(x)' = TipCoin(x)
  <2>1. CASE view[o] = NoEntry
    BY <2>1, FetchTipSound, Zenon DEF SpendCoin
  <2>2. CASE view[o] # NoEntry
    BY <2>2, Zenon DEF SpendCoin, CacheInv, TypeOK, FlagsSound, MaybeEntry, TipCoin
  <2> QED BY <2>1, <2>2, Zenon
<1>4. view' = [view EXCEPT ![o] = n] /\ open /\ open' = open /\ thrown' = thrown /\ db' = db
  BY Zenon DEF SpendCoin
<1> HIDE DEF n
<1>5. /\ CacheInv'
      /\ \A x \in Outpoints : BlockCoin(x)' = IF x = o THEN Shown(n, TipCoin(o)) ELSE BlockCoin(x)
  BY <1>2, <1>3, <1>4, ViewStep, Zenon
<1> QED BY <1>2, <1>3, <1>5, Zenon

\* AddCoin keeps the invariant.
LEMMA AddStep ==
  ASSUME CacheInv, NEW o \in Outpoints, NEW c \in Coins, NEW p \in BOOLEAN, AddCoin(o, c, p)
  PROVE  /\ CacheInv'
         /\ \A x \in Outpoints : /\ TipCoin(x)' = TipCoin(x)
                                 /\ BlockCoin(x)' = IF x = o THEN c ELSE BlockCoin(x)
<1> DEFINE n == [coin |-> c, flags |-> AddedFlags(view[o], p)]
<1>1. SoundEntry(view[o], TipCoin(o)) /\ TipCoin(o) \in Value /\ view[o] \in MaybeEntry
  BY CoinTypes, Zenon DEF CacheInv, FlagsSound
<1>2. p \/ Shown(view[o], TipCoin(o)) = Spent
  BY Zenon DEF AddCoin, BlockCoin
<1>3. n \in MaybeEntry /\ SoundEntry(n, TipCoin(o)) /\ Shown(n, TipCoin(o)) = c
  BY <1>1, <1>2, AddSound, Zenon DEF MaybeEntry
<1>4. ~(~p /\ view[o] # NoEntry /\ view[o].coin # Spent)
  BY <1>2, Zenon DEF Shown
<1>5. view' = [view EXCEPT ![o] = n] /\ open /\ open' = open /\ thrown' = thrown /\ db' = db
  BY <1>4, Zenon DEF AddCoin
<1>6. /\ cacheCoins' \in [Outpoints -> MaybeEntry]
      /\ \A x \in Outpoints : SoundEntry(cacheCoins'[x], db[x]) /\ TipCoin(x)' = TipCoin(x)
  BY <1>5, Zenon DEF AddCoin, CacheInv, TypeOK, FlagsSound, MaybeEntry, TipCoin
<1> HIDE DEF n
<1>7. /\ CacheInv'
      /\ \A x \in Outpoints : BlockCoin(x)' = IF x = o THEN Shown(n, TipCoin(o)) ELSE BlockCoin(x)
  BY <1>3, <1>5, <1>6, ViewStep, Zenon
<1> QED BY <1>3, <1>6, <1>7, Zenon

\* A step that only drops or fetches clean entries of CoinsTip().
LEMMA TipStep ==
  ASSUME CacheInv, db' = db, view' = view, open' = open, thrown' = thrown,
         cacheCoins' \in [Outpoints -> MaybeEntry],
         \A x \in Outpoints : SoundEntry(cacheCoins'[x], db[x]) /\ TipCoin(x)' = TipCoin(x)
  PROVE  CacheInv' /\ \A x \in Outpoints : TipCoin(x)' = TipCoin(x) /\ BlockCoin(x)' = BlockCoin(x)
<1>1. TypeOK'
  BY Zenon DEF CacheInv, TypeOK, MaybeEntry
<1>2. FlagsSound'
  BY Zenon DEF CacheInv, FlagsSound
<1>3. \A x \in Outpoints : BlockCoin(x)' = BlockCoin(x)
  BY Zenon DEF BlockCoin
<1> QED BY <1>1, <1>2, <1>3, Zenon DEF CacheInv, NeverThrows

\* Reading through CoinsTip() keeps the invariant.
LEMMA AccessTipStep ==
  ASSUME CacheInv, NEW o \in Outpoints, AccessTip(o)
  PROVE  CacheInv' /\ \A x \in Outpoints : TipCoin(x)' = TipCoin(x) /\ BlockCoin(x)' = BlockCoin(x)
  BY FetchTipSound, TipStep, Zenon DEF AccessTip

\* Uncache keeps the invariant.
LEMMA UncacheStep ==
  ASSUME CacheInv, NEW o \in Outpoints, Uncache(o)
  PROVE  CacheInv' /\ \A x \in Outpoints : TipCoin(x)' = TipCoin(x) /\ BlockCoin(x)' = BlockCoin(x)
<1>1. cacheCoins \in [Outpoints -> MaybeEntry]
  BY Zenon DEF CacheInv, TypeOK, MaybeEntry
<1>2. cacheCoins' = [cacheCoins EXCEPT ![o] = NoEntry] /\ UNCHANGED <<db, view, open, thrown>>
  BY Zenon DEF Uncache
<1>3. cacheCoins' \in [Outpoints -> MaybeEntry]
  BY <1>1, <1>2, Zenon DEF MaybeEntry
<1>4. ASSUME NEW x \in Outpoints
      PROVE  SoundEntry(cacheCoins'[x], db[x]) /\ TipCoin(x)' = TipCoin(x)
  <2>1. CASE x = o
    BY <1>1, <1>2, <2>1, Zenon DEF CacheInv, FlagsSound, SoundEntry, Uncache, TipCoin, Shown
  <2>2. CASE x # o
    BY <1>1, <1>2, <2>2, Zenon DEF CacheInv, FlagsSound, TipCoin
  <2> QED BY <2>1, <2>2, Zenon
<1> QED BY <1>2, <1>3, <1>4, TipStep, Zenon

\* When the block's cache is empty it shows what CoinsTip() shows.
LEMMA EmptyView ==
  ASSUME view = Empty, NEW o \in Outpoints
  PROVE  BlockCoin(o) = TipCoin(o) /\ SoundEntry(view[o], TipCoin(o))
  BY Zenon DEF Empty, BlockCoin, Shown, SoundEntry

\* A step that leaves the block's cache empty and CoinsTip() sound.
LEMMA ClosedStep ==
  ASSUME TypeOK, NeverThrows, view' = Empty, open' \in BOOLEAN, thrown' = thrown,
         db' \in [Outpoints -> Value], cacheCoins' \in [Outpoints -> MaybeEntry],
         \A x \in Outpoints : SoundEntry(cacheCoins'[x], db'[x])
  PROVE  CacheInv' /\ \A x \in Outpoints : BlockCoin(x)' = TipCoin(x)'
<1>1. TypeOK'
  BY Zenon DEF TypeOK, MaybeEntry, Empty
<1>2. \A x \in Outpoints : BlockCoin(x)' = TipCoin(x)' /\ SoundEntry(view'[x], TipCoin(x)')
  BY Zenon DEF Empty, BlockCoin, Shown, SoundEntry
<1>3. FlagsSound'
  BY <1>2, Zenon DEF FlagsSound
<1> QED BY <1>1, <1>2, <1>3, Zenon DEF CacheInv, NeverThrows

\* Flushing the block's cache never throws and CoinsTip() then shows the block.
LEMMA FlushViewStep ==
  ASSUME CacheInv, FlushView
  PROVE  /\ CacheInv' /\ open /\ ~open' /\ db' = db
         /\ \A x \in Outpoints : TipCoin(x)' = BlockCoin(x) /\ BlockCoin(x)' = BlockCoin(x)
<1>1. ASSUME NEW x \in Outpoints
      PROVE  /\ ~Misapplied(view[x], cacheCoins[x])
             /\ Merged(view[x], cacheCoins[x]) \in MaybeEntry
             /\ SoundEntry(Merged(view[x], cacheCoins[x]), db[x])
             /\ Shown(Merged(view[x], cacheCoins[x]), db[x]) = BlockCoin(x)
  <2>1. /\ db[x] \in Value /\ cacheCoins[x] \in MaybeEntry /\ view[x] \in MaybeEntry
        /\ SoundEntry(cacheCoins[x], db[x]) /\ SoundEntry(view[x], Shown(cacheCoins[x], db[x]))
    BY CoinTypes, Zenon DEF CacheInv, FlagsSound, TipCoin
  <2> QED BY <2>1, MergeSound, Zenon DEF BlockCoin, TipCoin
<1>2. /\ cacheCoins' = [o \in Outpoints |-> Merged(view[o], cacheCoins[o])]
      /\ view' = Empty /\ open /\ open' = FALSE /\ thrown' = thrown /\ db' = db
  BY <1>1, Zenon DEF FlushView
<1>3. cacheCoins' \in [Outpoints -> MaybeEntry]
  BY <1>1, <1>2, Zenon
<1>4. \A x \in Outpoints : SoundEntry(cacheCoins'[x], db'[x]) /\ TipCoin(x)' = BlockCoin(x)
  BY <1>1, <1>2, Zenon DEF TipCoin
<1>5. CacheInv' /\ \A x \in Outpoints : BlockCoin(x)' = TipCoin(x)'
  BY <1>2, <1>3, <1>4, ClosedStep, Zenon DEF CacheInv, TypeOK
<1> QED BY <1>2, <1>4, <1>5, Zenon

\* A flush of CoinsTip() writes exactly what it shows.
LEMMA WrittenIsShown ==
  ASSUME CacheInv
  PROVE  Written = [o \in Outpoints |-> TipCoin(o)]
<1>1. ASSUME NEW o \in Outpoints
      PROVE  (IF cacheCoins[o] # NoEntry /\ "DIRTY" \in cacheCoins[o].flags THEN cacheCoins[o].coin ELSE db[o])
               = TipCoin(o)
  BY Zenon DEF CacheInv, FlagsSound, SoundEntry, TipCoin, Shown
<1> QED BY <1>1, Zenon DEF Written

\* Flushing CoinsTip() keeps the invariant.
LEMMA FlushTipStep ==
  ASSUME CacheInv, FlushTip \/ Sync
  PROVE  /\ CacheInv' /\ ~open /\ open' = open
         /\ db' = [o \in Outpoints |-> TipCoin(o)]
         /\ \A x \in Outpoints : TipCoin(x)' = TipCoin(x) /\ BlockCoin(x)' = BlockCoin(x)
<1>1. ~open /\ open' = open /\ thrown' = thrown /\ view = Empty /\ view' = Empty
  BY Zenon DEF CacheInv, TypeOK, FlushTip, Sync
<1>2. db' = [o \in Outpoints |-> TipCoin(o)]
  BY WrittenIsShown, Zenon DEF FlushTip, Sync
<1>3. db' \in [Outpoints -> Value]
  BY <1>2, CoinTypes, Zenon DEF CacheInv
<1>4. /\ cacheCoins' \in [Outpoints -> MaybeEntry]
      /\ \A x \in Outpoints : SoundEntry(cacheCoins'[x], db'[x]) /\ TipCoin(x)' = TipCoin(x)
  <2>1. CASE FlushTip
    BY <1>2, <2>1, Zenon DEF FlushTip, Empty, MaybeEntry, SoundEntry, TipCoin, Shown
  <2>2. CASE Sync
    <3>1. ASSUME NEW x \in Outpoints
          PROVE  /\ cacheCoins'[x] \in MaybeEntry
                 /\ SoundEntry(cacheCoins'[x], db'[x]) /\ TipCoin(x)' = TipCoin(x)
      <4>1. cacheCoins[x] \in MaybeEntry /\ db'[x] = Shown(cacheCoins[x], db[x])
        BY <1>2, CoinTypes, Zenon DEF CacheInv, TipCoin
      <4>2. cacheCoins'[x] = IF cacheCoins[x] = NoEntry THEN NoEntry
                             ELSE IF cacheCoins[x].coin = Spent THEN NoEntry
                             ELSE [coin |-> cacheCoins[x].coin, flags |-> {}]
        BY <2>2, Zenon DEF Sync
      <4> QED BY <4>1, <4>2, CoinsAssumption DEF MaybeEntry, Entry, SoundEntry, TipCoin, Shown
    <3>2. cacheCoins' = [o \in Outpoints |-> cacheCoins'[o]]
      BY <2>2, Zenon DEF Sync
    <3> QED BY <3>1, <3>2, Zenon
  <2> QED BY <2>1, <2>2, Zenon
<1>5. CacheInv' /\ \A x \in Outpoints : BlockCoin(x)' = TipCoin(x)'
  BY <1>1, <1>3, <1>4, ClosedStep, Zenon DEF CacheInv, TypeOK
<1> QED BY <1>1, <1>2, <1>4, <1>5, EmptyView, Zenon

\* Opening and dropping the block's cache, and a crash.
LEMMA OpenStep ==
  ASSUME CacheInv, OpenView
  PROVE  CacheInv' /\ \A x \in Outpoints : TipCoin(x)' = TipCoin(x) /\ BlockCoin(x)' = BlockCoin(x)
  BY Zenon DEF CacheInv, OpenView, TypeOK, FlagsSound, NeverThrows, TipCoin, BlockCoin

\* Dropping the block's cache keeps the invariant.
LEMMA DropStep ==
  ASSUME CacheInv, DropView
  PROVE  CacheInv' /\ \A x \in Outpoints : TipCoin(x)' = TipCoin(x) /\ BlockCoin(x)' = TipCoin(x)
<1>1. \A x \in Outpoints : TipCoin(x)' = TipCoin(x) /\ SoundEntry(cacheCoins'[x], db'[x])
  BY Zenon DEF CacheInv, FlagsSound, DropView, TipCoin
<1> QED BY <1>1, ClosedStep, Zenon DEF CacheInv, TypeOK, DropView, MaybeEntry

\* A crash keeps the invariant.
LEMMA CrashStep ==
  ASSUME CacheInv, Crash
  PROVE  CacheInv' /\ \A x \in Outpoints : TipCoin(x)' = db[x] /\ BlockCoin(x)' = db[x]
<1>1. \A x \in Outpoints : TipCoin(x)' = db[x] /\ SoundEntry(cacheCoins'[x], db'[x])
  BY Zenon DEF Crash, Empty, TipCoin, Shown, SoundEntry
<1>2. cacheCoins' \in [Outpoints -> MaybeEntry]
  BY Zenon DEF Crash, Empty, MaybeEntry
<1> QED BY <1>1, <1>2, ClosedStep, Zenon DEF CacheInv, TypeOK, Crash
-----------------------------------------------------------------------------
\* The invariant holds in the beginning.
LEMMA InitInv == Init => CacheInv
  BY Zenon DEF Init, CacheInv, TypeOK, FlagsSound, NeverThrows, Empty, Value, SoundEntry, TipCoin, Shown

\* Every step keeps the invariant.
LEMMA NextInv == CacheInv /\ [Next]_vars => CacheInv'
<1> SUFFICES ASSUME CacheInv, [Next]_vars PROVE CacheInv'
  BY Zenon
<1>1. CASE OpenView BY <1>1, OpenStep, Zenon
<1>2. CASE FlushView BY <1>2, FlushViewStep, Zenon
<1>3. CASE DropView BY <1>3, DropStep, Zenon
<1>4. CASE FlushTip \/ Sync BY <1>4, FlushTipStep, Zenon
<1>5. CASE Crash BY <1>5, CrashStep, Zenon
<1>6. ASSUME NEW o \in Outpoints, AccessTip(o) \/ Uncache(o) PROVE CacheInv'
  BY <1>6, AccessTipStep, UncacheStep, Zenon
<1>7. ASSUME NEW o \in Outpoints, AccessCoin(o) \/ SpendCoin(o) PROVE CacheInv'
  BY <1>7, AccessStep, SpendStep, Zenon
<1>8. ASSUME NEW o \in Outpoints, NEW c \in Coins, NEW p \in BOOLEAN, AddCoin(o, c, p) PROVE CacheInv'
  BY <1>8, AddStep, Zenon
<1>9. CASE UNCHANGED vars
  BY <1>9, Zenon DEF vars, CacheInv, TypeOK, FlagsSound, NeverThrows, TipCoin
<1> QED BY <1>1, <1>2, <1>3, <1>4, <1>5, <1>6, <1>7, <1>8, <1>9, Zenon DEF Next

\* The flags of both layers stay right and neither AddCoin nor BatchWrite throws,
\* under every sequence of calls, for all outpoints and coins.
THEOREM CachesAreSound == Spec => []CacheInv
  BY InitInv, NextInv, PTL DEF Spec
-----------------------------------------------------------------------------
(* The refinement: the coins of the chain and of the block are what the two     *)
(* layers show.                                                                *)

Chain == [o \in Outpoints |-> TipCoin(o)]
Block == [o \in Outpoints |-> BlockCoin(o)]

\* Initial states of the caches are initial states of the maps.
LEMMA InitRefines == Init => Abstract!Init
  BY Zenon DEF Init, Abstract!Init, Empty, TipCoin, BlockCoin, Shown

\* Steps that change nothing a reader can see are stuttering steps.
LEMMA SameShown ==
  ASSUME db' = db, open' = open,
         \A x \in Outpoints : TipCoin(x)' = TipCoin(x) /\ BlockCoin(x)' = BlockCoin(x)
  PROVE  UNCHANGED Abstract!vars
<1>1. Chain' = Chain /\ Block' = Block
  BY Zenon DEF Chain, Block
<1> QED BY <1>1, Zenon DEF Abstract!vars, Chain, Block

\* A step that gives one coin of the block a value.
LEMMA PutRefines ==
  ASSUME CacheInv, NEW o \in Outpoints, NEW c \in Value, open, open' = open, db' = db,
         \A x \in Outpoints : /\ TipCoin(x)' = TipCoin(x)
                             /\ BlockCoin(x)' = IF x = o THEN c ELSE BlockCoin(x)
  PROVE  Abstract!Next
<1>1. Chain' = Chain /\ Block' = [Block EXCEPT ![o] = c]
  BY Zenon DEF Chain, Block
<1>2. Abstract!Put(o, c)
  BY <1>1, Zenon DEF Abstract!Put, Chain, Block
<1> QED BY <1>2, Zenon DEF Abstract!Next, Value

\* Every step of the caches is a step of the maps or changes nothing there.
LEMMA NextRefines == CacheInv /\ [Next]_vars => [Abstract!Next]_(Abstract!vars)
<1> SUFFICES ASSUME CacheInv, [Next]_vars PROVE Abstract!Next \/ UNCHANGED Abstract!vars
  BY Zenon
<1>1. CASE OpenView
  <2>1. Chain' = Chain /\ Block' = Block
    BY <1>1, OpenStep, Zenon DEF Chain, Block
  <2>2. Abstract!Begin
    BY <1>1, <2>1, Zenon DEF OpenView, Abstract!Begin, Chain, Block
  <2> QED BY <2>2, Zenon DEF Abstract!Next
<1>2. CASE FlushView
  <2>1. Chain' = Block /\ Block' = Block /\ open /\ open' = FALSE /\ db' = db
    BY <1>2, FlushViewStep, Zenon DEF Chain, Block, CacheInv, TypeOK
  <2>2. Abstract!Commit
    BY <2>1, Zenon DEF Abstract!Commit, Chain, Block
  <2> QED BY <2>2, Zenon DEF Abstract!Next
<1>3. CASE DropView
  <2>1. Chain' = Chain /\ Block' = Chain
    BY <1>3, DropStep, Zenon DEF Chain, Block
  <2>2. Abstract!Abandon
    BY <1>3, <2>1, Zenon DEF DropView, Abstract!Abandon, Chain, Block
  <2> QED BY <2>2, Zenon DEF Abstract!Next
<1>4. CASE FlushTip \/ Sync
  <2>1. Chain' = Chain /\ Block' = Block /\ db' = Chain /\ ~open /\ open' = open
    BY <1>4, FlushTipStep, Zenon DEF Chain, Block
  <2>2. Abstract!Flush
    BY <2>1, Zenon DEF Abstract!Flush, Chain, Block
  <2> QED BY <2>2, Zenon DEF Abstract!Next
<1>5. CASE Crash
  <2>1. db = [o \in Outpoints |-> db[o]]
    BY Zenon DEF CacheInv, TypeOK
  <2>2. Chain' = db /\ Block' = db
    BY <1>5, <2>1, CrashStep, Zenon DEF Chain, Block
  <2>3. Abstract!Crash
    BY <1>5, <2>2, Zenon DEF Crash, Abstract!Crash, Chain, Block
  <2> QED BY <2>3, Zenon DEF Abstract!Next
<1>6. ASSUME NEW o \in Outpoints, AccessTip(o) \/ Uncache(o) \/ AccessCoin(o)
      PROVE  UNCHANGED Abstract!vars
  <2>1. db' = db /\ open' = open
    BY <1>6, Zenon DEF AccessTip, Uncache, AccessCoin
  <2>2. \A x \in Outpoints : TipCoin(x)' = TipCoin(x) /\ BlockCoin(x)' = BlockCoin(x)
    BY <1>6, AccessTipStep, UncacheStep, AccessStep, Zenon
  <2> QED BY <2>1, <2>2, SameShown, Zenon
<1>7. ASSUME NEW o \in Outpoints, SpendCoin(o) PROVE Abstract!Next
  <2>1. open /\ open' = open /\ db' = db /\ Spent \in Value
    BY <1>7, Zenon DEF SpendCoin, Value
  <2> QED BY <1>7, <2>1, SpendStep, PutRefines, Zenon
<1>8. ASSUME NEW o \in Outpoints, NEW c \in Coins, NEW p \in BOOLEAN, AddCoin(o, c, p)
      PROVE  Abstract!Next
  <2>1. open /\ open' = open /\ db' = db /\ c \in Value
    BY <1>8, Zenon DEF AddCoin, Value
  <2> QED BY <1>8, <2>1, AddStep, PutRefines, ZenonT(40)
<1>9. CASE UNCHANGED vars
  BY <1>9, Zenon DEF vars, Abstract!vars, TipCoin, BlockCoin
<1> QED BY <1>1, <1>2, <1>3, <1>4, <1>5, <1>6, <1>7, <1>8, <1>9, Zenon DEF Next

\* The two layers of caches over the database implement plain maps of coins, for
\* every set of outpoints and coins: no read, cached entry, merge or flush of
\* coins.cpp ever shows or writes a wrong coin.
THEOREM CachesImplementView == Spec => ImplementsView
<1>1. Spec => Abstract!Spec
  BY CachesAreSound, InitRefines, NextRefines, PTL DEF Spec, Abstract!Spec
<1> QED BY <1>1, Zenon DEF ImplementsView
=============================================================================
