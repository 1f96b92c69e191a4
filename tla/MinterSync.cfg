SPECIFICATION Spec
CONSTANTS
  SyncAge = 1
  MaxTipAge = 2
  MaxTime = 4
  Nodes <- QuietNode
PROPERTY Synchronizes
CHECK_DEADLOCK FALSE
