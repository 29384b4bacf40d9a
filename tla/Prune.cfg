\* Two executions of a cell and the default prune: the latest marker, and what
\* the selection sees of the other execution, matter.
CONSTANTS
  Execs = {e1, e2}
  Procs = {p1, p2, p3}
  NoExec = NoExec
  TwoParty = TRUE
  TestEnv = FALSE
  MayFail = TRUE
  Used <- PruneCommands
  PruneScopes <- DefaultScope
SPECIFICATION Spec
SYMMETRY Symmetry
PROPERTIES
  PruneSparesRunsInUse
CHECK_DEADLOCK FALSE
