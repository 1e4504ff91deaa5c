SPECIFICATION FairSpec
CONSTANTS
  s1 = s1
  s2 = s2
  d1 = d1
  dev = dev
  Services <- OneService
  Domains <- OneDomain
  DeviceOf <- OneDevice
  Flavours <- BothFlavours
  Faults <- FaultKinds
  MaxVersion = 2
  MaxRotations = 1
  MaxFaults = 1
  MaxGets = 1
CHECK_DEADLOCK FALSE
PROPERTY StaleIsRepaired
