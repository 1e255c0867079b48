SPECIFICATION BSpec
CONSTANTS
  MaxInFlight = 1
  HistoryLimit = 1
  FeedLimit = 1
  DemoMode = FALSE
  Refusing = TRUE
  MaxAt = 1
  MaxShocks = 3
  None = None
  Expired = Expired
  Confs <- Configurations
  MaxStarts = 2
  MaxLoads = 2
CHECK_DEADLOCK FALSE
PROPERTIES
  RefusedIsAsked
