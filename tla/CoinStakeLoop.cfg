CONSTANTS
  NClaims = 30
  Eligible <- RealEligible
  Bitcoin = {}
  BaseBytes = 19
  InBytes = 41
  SigBytes = 73
  OutBytes = 34
  MaxBytes = 1000
  MaxInputs = 4
  MaxSmallInputs = 8
  MaxOutputs = 30
  VClaimBound = 60
  Calls <- RealCalls
SPECIFICATION Spec
PROPERTY EveryCallReturns
