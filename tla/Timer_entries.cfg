CONSTANTS
  c1 = c1
  c2 = c2
  None = None
  Clients <- TwoClients
  Delays <- DelaySet
  MaxEntries = 2
  MaxTime = 3
SPECIFICATION FairSpec
INVARIANTS EachEntryOnce SameDeadlineInOrder NothingQueuedAfterStop
PROPERTIES NeverEarly EntriesFire StopEndsWorker
