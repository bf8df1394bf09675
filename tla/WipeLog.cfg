SPECIFICATION Spec
CONSTANTS
  s1 = s1
  s2 = s2
  sda = sda
  cleanup = cleanup
  q1 = q1
  q2 = q2
  Sessions = {s1, s2}
  Devices = {sda}
  Device <- MCDevice
  Others = {cleanup}
  Requests = {q1, q2}
SYMMETRY LogSymmetry
INVARIANTS TypeOK Leftovers Counted
PROPERTY StaysDeleted
CHECK_DEADLOCK FALSE
