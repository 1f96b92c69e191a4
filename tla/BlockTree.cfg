CONSTANTS
  Genesis = Genesis
  NoBlock = NoBlock
  a1 = a1
  a2 = a2
  b1 = b1
  b2 = b2
  Blocks = {a1, a2, b1, b2}
  Worlds <- MCWorlds
SPECIFICATION Spec
INVARIANTS
   StakeUsedOnce DiskLoads CheckBlockIndex
PROPERTIES  CatchesUp
CHECK_DEADLOCK FALSE
