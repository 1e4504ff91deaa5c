SPECIFICATION Spec
CONSTANTS
  d1 = d1
  d2 = d2
  u1 = u1
  u2 = u2
  Devices <- TwoDevices
  Listed <- OneListed
  Subscribers <- TwoSubscribers
  MaxChanges = 4
  MaxRotations = 1
  MaxFaults = 1
SYMMETRY Symmetry
CHECK_DEADLOCK FALSE
INVARIANT TypeOK
INVARIANT NoSilentDivergence
INVARIANT RegisteredIsComplete
INVARIANT RegisteredIsNotFlagged
INVARIANT EveryoneTold
PROPERTY ImplementsDeviceRoster
