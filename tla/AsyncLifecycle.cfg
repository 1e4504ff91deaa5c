SPECIFICATION FairSpec
CONSTANTS
  c1 = c1
  Callers <- OneCaller
  MaxTasks = 2
  MaxSubs = 3
  MaxFaults = 2
  MaxStrays = 1
CHECK_DEADLOCK FALSE
INVARIANT TypeOK
INVARIANT AtMostOneLoop
INVARIANT NoRunawayTask
INVARIANT ClosedMeansQuiet
INVARIANT NoSubscriptionForgotten
INVARIANT StopCleansUpItsOwn
PROPERTY StopReturns
