SPECIFICATION Spec
CONSTANTS
  r1 = r1
  r2 = r2
  r3 = r3
  x = x
  base = base
  Burns <- TwoBurns
  Foreign <- Others
  MaxAttempts = 2
  MaxRebases = 1
  MaxBatchSize = 2
  TrustBaseOf <- SameBase
  LocksOf <- OwnLocks
  MaxPending = 2
  Submitters = {TRUE, FALSE}
  HasConfirm = TRUE
  SelfSettle = TRUE
  ThirdParty <- OtherSettlesOwn
  BadLock <- Nobody
  Profiles <- AllFaults
  MaxFaults = 2
  MaxBatches = 3
  MaxSettlements = 2
CONSTRAINT Bounds
CHECK_DEADLOCK FALSE
SYMMETRY Interchangeable
INVARIANTS
  TypeOK
  SettledWasReleased
  NoReturnStranded
  ProofsNotForgotten
  GivenUpOnlyAfterRetries
