SPECIFICATION FairSpec
CONSTANTS
  r1 = r1
  r2 = r2
  r3 = r3
  x = x
  base = base
  Burns <- ThreeBurns
  Foreign <- Others
  MaxAttempts = 2
  MaxRebases = 2
  MaxBatchSize = 2
  TrustBaseOf <- SameBase
  LocksOf <- OwnLocks
  MaxPending = 2
  Submitters = {TRUE}
  HasConfirm = TRUE
  SelfSettle = FALSE
  ThirdParty <- OtherSettlesOwn
  BadLock <- OneBurnBad
  Profiles <- Severities
  MaxFaults = 1
  MaxBatches = 4
  MaxSettlements = 3
CHECK_DEADLOCK FALSE
INVARIANTS
  SettledBatchesAreTheVaults
  MembersSettleTogether
PROPERTIES
  ImplementsLifecycle
  EveryReturnEnds
