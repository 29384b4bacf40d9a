\* One execution, three commands of any kind on it, one after the other or at
\* once, any of which may fail or be killed.
CONSTANTS
  Execs = {e1}
  Procs = {p1, p2, p3}
  NoExec = NoExec
  TwoParty = TRUE
  TestEnv = TRUE
  MayFail = TRUE
  Used <- AllCommands
  PruneScopes <- EveryScope
SPECIFICATION Spec
SYMMETRY Symmetry
INVARIANTS
  ResultAgreesWithRun
  EnvelopeIsCurrent
  NoSilentLeak
  StoppedIsDown
  ActiveMeansUp
  StackCanBeTornDown
  SuiteEntryIsTheResult
PROPERTIES
  RunEndsConsistent
  BrokenRunsStayBroken
CHECK_DEADLOCK FALSE
