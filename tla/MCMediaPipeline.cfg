CONSTANTS
  Orders <- MCOrders
  MaxAttempts = 3
  MaxCtrlC = 1
SPECIFICATION FairSpec
INVARIANTS TypeOK OneCapture NoSenderSurvives PortalReleasedOnce OwnCloseSilent
PROPERTIES RevokeEndsCast
CHECK_DEADLOCK FALSE
