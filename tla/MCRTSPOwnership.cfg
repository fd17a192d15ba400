CONSTANTS
  c1 = c1
  c2 = c2
  c3 = c3
  probe = probe
  tv = tv
  other = other
  Passive <- MCPassive
  Probe = probe
  Hosts = {tv, other}
  NoClient = NoClient
  NoSession = NoSession
  HostOf <- MCHostOf
  MaxConnections = 2
SPECIFICATION FairSpec
INVARIANTS OwnerWillRelease
PROPERTIES ImplementsLease CloseEndsSessions
CHECK_DEADLOCK FALSE
