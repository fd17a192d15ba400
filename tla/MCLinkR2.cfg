CONSTANTS
  Backends = {"nm", "wpas"}
  MaxInterrupts = 2
  ReleasesFail = TRUE
  NoFormat = NoFormat
  Configs <- MCConfigs
  Offers <- MCOffers
  R2Offers <- MCR2Offers
  SinkPorts <- MCPorts
  Rows <- MCRows
  Groups = {"g", "h"}
  Interfaces = {"g", "h", "wlan"}
  Receiver = "M"
  Clients = {"tv", "other", "lan"}
  Wires <- MCWires
  MaxChunk = 4
  MaxLine = 3
  MaxHeaders = 2
  MaxHeaderBytes = 7
  MessageTimeout = 2
  IdleTimeout = 1
  MaxTime = 4
  Devices <- MCDevices
  Selectors <- MCSelectors
  Attempts = 2
  MaxNearby = 2
  Reads <- MCReads
  Parts = {"negotiation"}
SPECIFICATION LinkSpec
INVARIANT R2OnlyWhenBetter
CHECK_DEADLOCK FALSE
