CONSTANTS
  k1 = k1
  p1 = p1
  p2 = p2
  Timers <- MCTimers
  KindOf <- MCKindOf
  NoTimer = NoTimer
  Configs <- MostSinks
  MaxPending = 4
  MaxStarts = 2
SPECIFICATION Spec
SYMMETRY MCSymmetry
INVARIANTS NoOrphanTimer PendingHasRoom FirstStreamKeepsAlive
CHECK_DEADLOCK FALSE
