SPECIFICATION Spec
CONSTANTS
  Cells <- MCCells
  Users = {"einstein", "marie"}
  MaxAttempts = 2
INVARIANTS
  TypeOK
  ActsAsTheIntendedUser
  RuntimeIsThisAttempts
  PassedMeansContentCompared
  FailsOnlyForTheProducts
CHECK_DEADLOCK FALSE
