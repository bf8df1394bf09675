CONSTANTS
  Parts = {"p1", "p2"}
  Requests = {r1}
  First = 1
  LastLba = 7
  Total = 9
  Table0 <- MCTable
  Used <- MCUsed
  Types <- MCTypes
  Damaged = {}
  System = {"p1"}

SPECIFICATION Spec
INVARIANTS ShrinkFits
CHECK_DEADLOCK FALSE
