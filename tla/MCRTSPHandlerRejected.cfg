CONSTANTS
  k1 = k1
  p1 = p1
  p2 = p2
  Timers <- MCTimers
  KindOf <- MCKindOf
  NoTimer = NoTimer
  Configs <- AnySink
  MaxPending = 4
  MaxStarts = 1
SPECIFICATION Spec
PROPERTIES RejectionKeepsStream
CHECK_DEADLOCK FALSE
