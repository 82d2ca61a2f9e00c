SPECIFICATION Spec
CONSTANTS
  Tokens <- MCTokens
  Amount = 2
  Policies <- MCPolicies
  Epochs <- MCEpochs
  Allowance = 1
  MaxU64 = 9
  MaxSafe = 8
  MaxFee = 1
  OwnDeadlines <- MCOwnDeadlines
  Submits = TRUE
  BurnBy = 0
  MaxRoot = 1
  MaxTime = 4
INVARIANTS
  TypeOK
  BurnedTokenKept
  QuotedBurnAdmitted
  OthersCollectNoFee
CHECK_DEADLOCK FALSE
PROPERTIES
  CertifiedReachesTheApp
  
