SPECIFICATION CoreSpec

CONSTANTS
  TileCounts = {1, 2, 3}
  Bubble = Bubble
  MaxFolds = 5

INVARIANTS
  FifoMargin
  MaxOfOwnRow
  SumOfOwnRow
  OutputOfOwnRow
  RowsFoldTogether
