CONSTANTS
  k1 = k1
  p1 = p1
  p2 = p2
  Timers <- FewTimers
  KindOf <- FewKindOf
  NoTimer = NoTimer
  Configs <- AnySink
  MaxPending = 3
  MaxStarts = 1
SPECIFICATION LiveSpec
PROPERTIES KeepaliveEnds  CooperationCompletes
CHECK_DEADLOCK FALSE
