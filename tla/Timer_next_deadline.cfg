CONSTANTS
  c1 = c1
  c2 = c2
  None = None
  Clients <- OneClient
  Delays <- DelaySet
  MaxEntries = 2
  MaxTime = 3
SPECIFICATION Spec
INVARIANT WaitsForNextDeadline
