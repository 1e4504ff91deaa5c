SPECIFICATION Spec
CONSTANTS
  s1 = s1
  s2 = s2
  d1 = d1
  dev = dev
  Services <- TwoServices
  Domains <- OneDomain
  DeviceOf <- OneDevice
  Flavours <- BothFlavours
  Faults <- FaultKinds
  MaxVersion = 1
  MaxRotations = 2
  MaxFaults = 1
  MaxGets = 1
CHECK_DEADLOCK FALSE
INVARIANT TypeOK
INVARIANT NoSilentLoss
INVARIANT ServicesSurviveRotation
INVARIANT RefreshNeverThrottled
INVARIANT UndisturbedMeansCurrent
