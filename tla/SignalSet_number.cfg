CONSTANTS
  s1 = s1
  s2 = s2
  w1 = w1
  w2 = w2
  None = None
  Free = Free
  Job = Job
  Signals <- OneSignal
  Waiters <- OneWaiter
  MaxRaised = 1
SPECIFICATION Spec
PROPERTY WaitReturnsSignal
