CONSTANTS
  Backends = {"wpas"}
  MaxInterrupts = 1
  ReleasesFail = FALSE
SPECIFICATION Spec
INVARIANTS NoDnsmasqLeft
CHECK_DEADLOCK FALSE
