SPECIFICATION FairSpec
CONSTANTS
  Cells <- MCCells
  CellOf <- MCCellOf
  NoParty = "-"
  IdRank <- MCIdRank
  Flows <- MCFlows
  Parties = {"A", "B"}
  Rules <- MCRules
  NoCell = NoCell
  JobOrder <- MCJobOrder
  Limits = {0, 3}
INVARIANTS
  PassedMeansEveryCellPassed
  RecordIsComplete
  ExitAgreesWithRecord
  LatestIsFinished
PROPERTIES
  KeepsTheGate
  StopsAtTheFirstFailure
  SuiteEnds
CHECK_DEADLOCK FALSE
