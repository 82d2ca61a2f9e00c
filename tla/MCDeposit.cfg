SPECIFICATION Spec
CONSTANTS
  d1 = d1
  d2 = d2
  o = o
  empty = empty
  alice = alice
  bob = bob
  Wallet <- MCWallet
  Others <- MCOthers
  Empty <- empty
  AmountOf <- MCAmountOf
  OwnerOf <- MCOwnerOf
  Reasons <- MCReasons
  K = 2
  MaxReorg = 1
  MaxLag = 1
  MayRevert = {d1, d2}
  MaxHeight = 4
  MaxReorgs = 1
  MaxCrashes = 1
SYMMETRY Alike
CHECK_DEADLOCK FALSE
INVARIANTS
  TypeOK
  AcceptedIsBacked
PROPERTIES
  RefusedForGood
  AbsentIsAbsent
