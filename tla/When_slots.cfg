CONSTANTS
  N = 2
  MaxWaits = 1
  Awaiter = Awaiter
SPECIFICATION Spec
INVARIANT ReadsStoredSlots
CHECK_DEADLOCK FALSE
