CONSTANTS
  k1 = k1
  k2 = k2
  None = None
  Other = Other
  Servers <- OneServer
  Coros <- TwoCoros
  MaxCalls = 2
  MaxListens = 1
  MaxCancels = 2
SPECIFICATION FairSpec
INVARIANTS OneResumption ValueOnlyIfStored 
PROPERTIES CompletionResumes AcceptEndsOnClose
CHECK_DEADLOCK FALSE
