CONSTANTS
  Names = {"a", "b", "link", "kept", "out"}
  Inside = {"a", "b", "link", "kept"}
  Files = {"f", "k", "o"}
  MaxLength = 3
  Volatile = {"b"}
  Batches = {"first", "second"}
  Cancellable = {"first"}
  Growing = {"f"}
  Entry0 <- MCEntry
  Baits <- MCBaits
  Length0 <- MCLength
  Paths <- MCPaths
  Passes <- MCPasses
SPECIFICATION Spec
INVARIANTS ShredIsTrue OnlyRequested
CHECK_DEADLOCK FALSE
