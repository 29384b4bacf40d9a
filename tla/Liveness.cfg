\* Two commands on one execution that go on until they end or are killed.
CONSTANTS
  Execs = {e1}
  Procs = {p1, p2}
  NoExec = NoExec
  TwoParty = TRUE
  TestEnv = TRUE
  MayFail = TRUE
  Used <- LiveCommands
  PruneScopes <- EveryScope
SPECIFICATION FairSpec
PROPERTIES
  RunIsReported
  StackIsRemoved
CHECK_DEADLOCK FALSE
