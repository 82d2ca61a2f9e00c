SPECIFICATION Spec
CONSTANTS
  m = m
  o = o
  p = p
  d = d
  Settlements <- MCSettlements
  Mine = m
  LeavesOf <- MCLeavesOf
  RootOf <- MCRootOf
  Lock = d
  Flavours <- MCFlavours
  K = 3
  LOG_WINDOW = 2
  MaxLag = 2
  MaxHeight = 6
  MaxReorgs = 1
CHECK_DEADLOCK FALSE
INVARIANT SettledIsFinal
