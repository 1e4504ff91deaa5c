SPECIFICATION Spec
CONSTANTS
  c1 = c1
  Callers <- OneCaller
  MaxStarts = 2
  MaxSubs = 2
  MaxFaults = 0
CHECK_DEADLOCK FALSE
INVARIANT EndsOnlyWhenTold
