SPECIFICATION FairSpec
CONSTANTS
  s1 = s1
  s2 = s2
  d1 = d1
  Sessions = {s1, s2}
  Devices = {d1}
  Blocks = 1
  Passes = 2
  MaxConcurrent = 1
  MaxRestarts = 0
  DbFailsFor = {s1}
  Mountable = {}
  HostMayMount = FALSE
INVARIANT CertifiedErased
PROPERTY StartedFinishes
CHECK_DEADLOCK FALSE
