SPECIFICATION Spec
CONSTANTS
  SyncAge = 1
  MaxTipAge = 2
  MaxTime = 4
  Nodes <- MCNodes
INVARIANTS MinterSane
PROPERTY ThreadEnds
CHECK_DEADLOCK FALSE
