SPECIFICATION FairSpec
CONSTANTS
  Cells <- MCCells
  CellOf <- MCCellOf
  NoParty = "-"
  IdRank <- MCIdRank
  Flows <- MCFlows
  Parties = {"A", "B"}
  Rules <- MCRules
  JobOrder <- MCJobOrder
INVARIANTS
  PassedMeansEveryCellPassed
  RecordIsComplete
  DependentsAgreeWithTheRecord
  GreenRunsHaveNoFailure
PROPERTIES
  KeepsTheGate
  EveryCellIsDecided
CHECK_DEADLOCK FALSE
