SPECIFICATION FairSpec
CONSTANTS
  j1 = j1
  j2 = j2
  Jobs = {j1, j2}
  Kinds = {"verify", "recovery", "shred"}
  MaxConcurrent = 1
  Items = 2
  Parts = 2
INVARIANTS TypeOK EndIsTold StatusIsEarned
PROPERTIES Implements TerminalIsFinal CancelEnds JobEnds
CHECK_DEADLOCK FALSE
