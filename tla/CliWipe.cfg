CONSTANTS
  Runs = {"first", "second"}
  Host = "host"
  Killed = 137
  Size = 2
  HostBlocks = {1}
  SampleSize = 1
  MostSamples = 2
  Tolerance = 2
  Requests <- MCRequests
SPECIFICATION Spec
INVARIANTS OutcomeIsTrue NoFalseAlarm ProgressIsTrue
CHECK_DEADLOCK FALSE
