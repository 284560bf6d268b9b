CONSTANTS
  w1 = w1
  w2 = w2
  c1 = c1
  j1 = j1
  j2 = j2
  None = None
  Workers <- TwoWorkers
  Clients <- OneClient
  Jobs <- TwoJobs
  Awaited <- OneAwaited
SPECIFICATION FairSpec
INVARIANTS FifoNothingLost WorkersFollowJobs ResumedOnceWithOutcome EarlyCancelWins JoinedMeansFinished
PROPERTIES AcceptedResumes ShutdownReturns
