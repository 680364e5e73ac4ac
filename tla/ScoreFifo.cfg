SPECIFICATION FifoSpec

CONSTANTS
  DEPTH = 5
  Scores = {s1, s2, s3}
  NoScore = NoScore

INVARIANTS
  FifoTypeOK
  PointersAgree

PROPERTY
  ImplementsQueue
