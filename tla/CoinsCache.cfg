CONSTANTS
  Outpoints = {o1, o2}
  Coins = {c1, c2}
  Spent = Spent
  NoEntry = NoEntry
SPECIFICATION Spec
INVARIANTS CacheInv
PROPERTY ImplementsView
