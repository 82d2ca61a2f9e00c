SPECIFICATION Spec
CONSTANTS
  MaxEvents = 5
  MaxCrashes = 3
CHECK_DEADLOCK FALSE
INVARIANT AlwaysStarts
