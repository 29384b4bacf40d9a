SPECIFICATION Spec
CONSTANTS
  Pairs <- MCPairs
  MaxAttempts = 3
  MaxDialogs = 3
INVARIANTS
  ThisInviteAccepted
  AcceptedUrlIsTheContact
  PassedMeansThisShare
  NeverStuckOnItsOwn
PROPERTIES
  KeepsTheContract
  EveryRunEnds
CHECK_DEADLOCK FALSE
