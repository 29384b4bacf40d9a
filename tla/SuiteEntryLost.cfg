\* A phase of a suite run fails, and so does the teardown after it.
CONSTANTS
  Execs = {e1}
  Procs = {p1}
  NoExec = NoExec
  TwoParty = TRUE
  TestEnv = FALSE
  MayFail = TRUE
  Used <- RunCommand
  PruneScopes <- NoScopes
SPECIFICATION Spec
INVARIANTS
  SuiteRunIsRecorded
CHECK_DEADLOCK FALSE
