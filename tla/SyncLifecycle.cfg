SPECIFICATION FairSpec
CONSTANTS
  c1 = c1
  Callers <- OneCaller
  MaxStarts = 3
  MaxSubs = 3
  MaxFaults = 2
CHECK_DEADLOCK FALSE
INVARIANT TypeOK
INVARIANT NoLockout
INVARIANT NoRunawayThread
INVARIANT OnePoller
INVARIANT NoSubscriptionForgotten
PROPERTY StopReturns
