SPECIFICATION CoreSpec

CONSTANTS
  TileCounts = {1, 2, 3}
  Bubble = Bubble
  MaxFolds = 5

INVARIANT
  MaxOverOwnScores
