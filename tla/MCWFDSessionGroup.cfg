CONSTANTS
  Backends = {"wpas"}
  MaxInterrupts = 0
  ReleasesFail = FALSE
SPECIFICATION Spec
INVARIANTS NoGroupLeft
CHECK_DEADLOCK FALSE
