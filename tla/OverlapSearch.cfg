SPECIFICATION Spec
CONSTANTS
  Cases <- PassCases
  MinCells = 2
  MaxCells = 2
  NumCellsLeaf = 2
  MaxTransfers = 2
  Parts = 2
INVARIANT SlotsHoldTheirFragment
INVARIANT FragmentsSearchedOnce
INVARIANT OverlapAsInOnePlace
INVARIANT SidesAgree
PROPERTY LoopsEnd
