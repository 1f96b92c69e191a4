CONSTANTS
  NClaims = 3
  Eligible <- MCEligible
  Bitcoin = {3}
  BaseBytes = 2
  InBytes = 3
  SigBytes = 4
  OutBytes = 4
  MaxBytes = 26
  MaxInputs = 2
  MaxSmallInputs = 3
  MaxOutputs = 6
  VClaimBound = 6
  Calls <- MCCalls
SPECIFICATION Spec
INVARIANTS NothingLost DistributesOldestFirst SplitIsClosest
PROPERTY FittingCallReturns
