CONSTANTS
  t1 = t1
  t2 = t2
  h1 = h1
  h2 = h2
  f1 = f1
  f2 = f2
  Loop = Loop
  None = None
  Threads <- TwoThreads
  Handles <- TwoHandles
  Fns <- TwoFns
  Throwing <- NoneThrows
  MaxPosts = 1
SPECIFICATION FairSpec
PROPERTY StopEndsRun
