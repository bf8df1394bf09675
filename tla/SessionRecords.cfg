SPECIFICATION Spec
CONSTANTS
  s1 = s1
  s2 = s2
  d1 = d1
  Sessions = {s1, s2}
  Devices = {d1}
  Blocks = 3
  Passes = 1
  MaxConcurrent = 2
  MaxRestarts = 1
  DbFailsFor = {}
  Mountable = {d1}
  HostMayMount = FALSE
SYMMETRY SessionSymmetry
INVARIANTS TypeOK CertifiedErased CancelledWipeUncertified UncancelledRecordsAgree CancelledRowRecorded
PROPERTY SettledIsFinal
CHECK_DEADLOCK FALSE
