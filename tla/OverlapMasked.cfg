SPECIFICATION Spec
CONSTANTS
  Cases <- MaskedCases
  MinCells = 2
  MaxCells = 2
  NumCellsLeaf = 2
  MaxTransfers = 2
  Parts = 2
INVARIANT CollectsMatch
CHECK_DEADLOCK FALSE
