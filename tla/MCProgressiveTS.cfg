CONSTANTS
  r1 = r1
  r2 = r2
  w1 = w1
  w2 = w2
  Requests <- TwoRequests
  MainThread = MainThread
  Writers <- TwoWriters
  Window = 1
  MaxSegments = 2
SPECIFICATION ServerSpec
SYMMETRY MCSymmetry
INVARIANTS ServedIsCurrent EachSegmentOnce ReadersExplained
CHECK_DEADLOCK FALSE
