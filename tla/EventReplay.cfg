SPECIFICATION Spec
CONSTANTS
  v1 = v1
  v2 = v2
  Values <- TwoValues
  Kinds <- AllKinds
  MaxEvents = 3
  MaxRepeats = 1
  MaxRotations = 1
  MaxFaults = 1
SYMMETRY Symmetry
CHECK_DEADLOCK FALSE
INVARIANT TypeOK
INVARIANT NoReplay
INVARIANT AlarmEdges
INVARIANT NoEventLost
INVARIANT OnlyTheFirstIsSwallowed
