CONSTANTS
  Parts = {"p1", "p2"}
  Requests = {r1, r2}
  First = 1
  LastLba = 7
  Total = 9
  Table0 <- MCTable
  Used <- MCUsed
  Types <- MCTypes
  Damaged = {"p1"}
  System = {"p1"}

SPECIFICATION Spec
INVARIANTS Fits Intact
PROPERTIES AnswersAreTrue VerdictIsTrue
SYMMETRY MCSymmetry
CHECK_DEADLOCK FALSE
