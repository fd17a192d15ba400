CONSTANTS
  Requests = {r1}
  MainThread = MainThread
  Writers = {w1, w2}
  Window = 2
  MaxSegments = 3
  Sessions = {"hyprland", "wayland", "x11"}
  Protocols = {"dlna", "cast"}
  MaxSignals = 2
  Screens <- MCScreens
  Preferred = {3}
  MaxCasts = 2
  MaxScans = 2
  MaxPicks = 1
  Unheard = {1}
SPECIFICATION LanSpec
INVARIANTS OrderedAfterFirst EndLeavesNothing LostCastsFromStaleMenus MonitorAsPicked
PROPERTIES RequestsEnd SignalEnds MenuCatchesUp
CHECK_DEADLOCK FALSE
