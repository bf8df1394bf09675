SPECIFICATION Spec
CONSTANTS
  s1 = s1
  d1 = d1
  Sessions = {s1}
  Devices = {d1}
  Blocks = 2
  Passes = 1
  MaxConcurrent = 1
  MaxRestarts = 0
  DbFailsFor = {}
  Mountable = {d1}
  HostMayMount = FALSE
PROPERTY CancelStopsWriting
CHECK_DEADLOCK FALSE
