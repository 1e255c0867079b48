SPECIFICATION Spec
CONSTANTS
  MaxInFlight = 1
  HistoryLimit = 1
  FeedLimit = 1
  DemoMode = FALSE
  Refusing = FALSE
  MaxAt = 0
  MaxShocks = 2
CHECK_DEADLOCK FALSE
PROPERTIES
  ConnectionComesBack
