SPECIFICATION Spec
CONSTANTS
  g = g
  c1 = c1
  a2 = a2
  a3 = a3
  b2 = b2
  b3 = b3
  o1 = o1
  o2 = o2
  o3 = o3
  o4 = o4
  NoBlock = NoBlock
  Outpoints = {o1, o2, o3, o4}
  Parent <- TwoBranches
  Vtx <- Transactions
  Faults <- ThreeCrashesOrFailedWrites
  
PROPERTY RunsAgain
