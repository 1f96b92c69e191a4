SPECIFICATION Spec
CONSTANTS
  a = a
  b = b
  c = c
  Nodes = {a, b, c}
  Links <- Line
  Seeds = {c}
  Users = {a}
  MAX_SNAPSHOT_SENDS = 1
  MaxInFlight = 1
  MaxEvents = 2
INVARIANTS AcksAreTrue 
PROPERTY SeedServes
CHECK_DEADLOCK FALSE
