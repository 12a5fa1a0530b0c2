CONSTANTS
  Limit = 2
  PipeCapacity = 2
  MaxWritten = 3
  Descendants = {"grouped", "escaped"}
SPECIFICATION RuntimeFairSpec
INVARIANTS OkIsComplete BlameIsJustified
PROPERTIES LeaderEnds RunReturns
CHECK_DEADLOCK FALSE
