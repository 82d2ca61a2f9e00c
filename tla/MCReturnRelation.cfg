SPECIFICATION Spec
CONSTANTS
  Depth = 2
  TokenIds <- MCTokenIds
  KeyOf <- MCKeyOf
  Locks <- MCLocks
  Mints <- MCMints
  Manifests <- MCManifests
  Reasons <- MCReasons
  TrustBases <- MCTrustBases
  TrustBaseOf <- MCTrustBaseOf
  Seals <- MCSeals
  SizeOf <- MCSizeOf
  MaxSize = 2
  MaxBytes = 4
INVARIANTS
  TypeOK
  ReleasesWithinLocks
  QuorumOfKeys
  SelectionIsGreedy
  AssembledIsAccepted
  RebuiltIsTheVault
  RootTellsSpent
CHECK_DEADLOCK FALSE
