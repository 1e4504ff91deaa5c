SPECIFICATION Spec
CONSTANTS
  c1 = c1
  Callers <- OneCaller
  MaxTasks = 1
  MaxSubs = 1
  MaxFaults = 0
  MaxStrays = 1
CHECK_DEADLOCK FALSE
INVARIANT StopCanCleanUp
