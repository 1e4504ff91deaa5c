SPECIFICATION Spec
CONSTANTS
  s1 = s1
  s2 = s2
  d1 = d1
  dev = dev
  Services <- OneService
  Domains <- NoDomain
  DeviceOf <- OneDevice
  Flavours <- AsyncOnly
  Faults <- NoFaults
  MaxVersion = 1
  MaxRotations = 1
  MaxFaults = 0
  MaxGets = 0
INVARIANT QuietMeansCurrent
