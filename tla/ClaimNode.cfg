SPECIFICATION MCSpec
CONSTANTS
  P = P
  Q = Q
  B = B
  T = T
  U = U
  Script <- MCScript
  Compatible = {P}
  Incompatible = {Q, U}
  Balance <- MCBalance
  MAX_CLAIM_REWARD = 40
  GenesisOutputsAmount = 40
  OutputCap = 20
  OutputSlack = 1
  LookupEnabled = TRUE
  Genesis = Genesis
  OpReturn = OpReturn
  Bodies <- MCBodies
  Gossip <- MCGossip
  ClaimSets <- CrashSets
  GenesisKeyHeld = FALSE
  MaxBlocks = 3
INVARIANTS
  RegistryInv
  IndexReloads
  PaidWithinEligible
  OutputsWithinLimit
  QueuedOnce
  PayoutsWithinEligible
PROPERTY
  ClaimsAreKept
