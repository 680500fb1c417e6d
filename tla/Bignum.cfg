SPECIFICATION CSpec
CONSTANTS
  Width = 2
  B = 4
  MaxSmall = 1
  MaxDigits = 3
  CellDigits = 2
  Spare = {7, 10}
  Unused = {0, 1, 2, 3}
INVARIANTS SumsExact OrderExact ProductsExact AndExact NotExact
INVARIANTS CellsAsValues OperandsKept
CHECK_DEADLOCK FALSE
