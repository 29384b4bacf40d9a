\* The repository as it is: config/compose/runner-ci.yml does not exist.
CONSTANTS
  Execs = {e1}
  Procs = {p1, p2}
  NoExec = NoExec
  TwoParty = TRUE
  TestEnv = FALSE
  MayFail = FALSE
  Used <- TestCommands
  PruneScopes <- NoScopes
SPECIFICATION Spec
INVARIANTS
  TestRunsCypress
CHECK_DEADLOCK FALSE
