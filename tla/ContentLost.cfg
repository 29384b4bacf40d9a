SPECIFICATION Spec
CONSTANTS
  Cells <- MCCells
  Users = {"einstein", "marie"}
  MaxAttempts = 1
INVARIANT CapturedContentIsCompared
CHECK_DEADLOCK FALSE
