CONSTANTS
  Main = Main
  None = None
  MaxFrames = 4
  MaxWaits = 2
SPECIFICATION FairSpec
INVARIANTS OneOwner OneResumer NoLeak
PROPERTY DetachedEnds
CHECK_DEADLOCK FALSE
