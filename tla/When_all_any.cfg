CONSTANTS
  N = 3
  MaxWaits = 2
  Awaiter = Awaiter
SPECIFICATION FairSpec
INVARIANTS ResumedOnce AllWaitsForAll AnyReturnsWinner
PROPERTY CallReturns
CHECK_DEADLOCK FALSE
