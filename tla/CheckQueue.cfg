SPECIFICATION Spec
CONSTANTS
  Workers = {"w1", "w2"}
  master = "master"
  Checks = {1, 2, 3, 4}
  Good = {1, 2, 3}
  nBatchSize = 2
  MasterStopped = TRUE
INVARIANTS BlockEndsRight QueueSane
PROPERTIES WaitReturns StopReturns
CHECK_DEADLOCK FALSE
