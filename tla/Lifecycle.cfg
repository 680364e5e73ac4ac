SPECIFICATION Spec

CONSTANTS
  Lengths = {1, 3, 6}
  DecodeLengths = {1}
  DecodeFloor = 2
  Samples <- MCSamples
  BigSample <- MCBigSample
  Iters = 5
  op <- MCOp

INVARIANTS
  PrefillRoundWellFormed
  PrefillWaitBounded

PROPERTIES
  PlacesGoToTheReady

\* The program ends after its last round.
CHECK_DEADLOCK FALSE
