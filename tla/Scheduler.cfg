SPECIFICATION Spec
CONSTANTS
  Services = {s1, s2}
  Producers = {p1, p2}
  main = main
  MaxCallbacks = 3
INVARIANTS CallbacksSerial NoneStranded FlushedAll
PROPERTIES AllRun StopReturns
CHECK_DEADLOCK FALSE
