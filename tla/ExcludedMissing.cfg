SPECIFICATION Spec
CONSTANTS
  Cells <- MCCells
  CellOf <- MCCellOf
  NoParty = "-"
  IdRank <- MCIdRank
  Flows <- MCFlows
  Parties = {"A", "B"}
  Rules <- MCRules
  JobOrder <- MCJobOrder
INVARIANTS
  AggregateIsTheSuite
CHECK_DEADLOCK FALSE
