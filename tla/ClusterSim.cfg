SPECIFICATION SimSpec

CONSTANTS
  Lengths = {1, 3, 6}
  Z = 2
  Samples <- MCSamples
  op <- MCOp

INVARIANTS
  NodesWithinCaps
  OnPointIsReal

PROPERTIES
  GateShedsFewest
  LeftoversFitNowhere
