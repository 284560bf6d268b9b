CONSTANTS
  c1 = c1
  None = None
  Callers <- OneCaller
  MaxUses = 4
SPECIFICATION FairSpec
INVARIANTS ShutdownIsFinal UsesAreLive
PROPERTY CallsReturn
CHECK_DEADLOCK FALSE
