SPECIFICATION Spec
CONSTANTS
  r1 = r1
  r2 = r2
  r3 = r3
  x = x
  base = base
  Burns <- TwoBurns
  Foreign <- Others
  MaxAttempts = 2
  MaxRebases = 1
  MaxBatchSize = 2
  TrustBaseOf <- SameBase
  LocksOf <- OwnLocks
  MaxPending = 2
  Submitters = {TRUE}
  HasConfirm = TRUE
  SelfSettle = FALSE
  ThirdParty <- OtherSettlesSuperset
  BadLock <- Nobody
  Profiles <- NoFaults
  MaxFaults = 0
  MaxBatches = 4
  MaxSettlements = 3
CHECK_DEADLOCK FALSE
INVARIANTS
  SettledBatchesAreTheVaults
