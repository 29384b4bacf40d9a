SPECIFICATION Spec
CONSTANTS
  Pairs <- MCPairs
  MaxAttempts = 2
  MaxRecords = 3
  MaxErrors = 1
INVARIANTS
  OpenedWhatItAccepted
  AtMostOneStaleRecord
  NewRecordsAreInScope
  SessionCountsTheLog
CHECK_DEADLOCK FALSE
