SPECIFICATION Spec
CONSTANTS
  a1 = a1
  a2 = a2
  vault = vault
  zero = zero
  t1 = t1
  t2 = t2
  zeroId = zeroId
  c1 = c1
  b1 = b1
  n1 = n1
  n2 = n2
  n3 = n3
  here = here
  elsewhere = elsewhere
  MaxLocks = 2
  MaxTime = 1
  MaxDonated = 1
  Accounts <- MCAccounts
  VaultAddr <- vault
  ZeroAddr <- zero
  TokenIds <- MCTokenIds
  ZeroId <- zeroId
  Commitments <- MCCommitments
  TrustBases <- MCTrustBases
  Configs <- MCConfigs
  CONFIG_HASH <- here
  Nullifiers <- MCNullifiers
  Burn <- MCBurn
  Deployer <- a1
  Uint64Max = 2
  Uint256Max = 3
CONSTRAINT Bounds
INVARIANTS
  TypeOK
  PaidExactlyOnce
  CustodyExact
  OneLockPerTokenId
  ReleasesBacked
PROPERTIES
  AllOrNothing
