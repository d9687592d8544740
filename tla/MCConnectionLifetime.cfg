SPECIFICATION FairHandlerSpec
CONSTANTS
  MaxRequests = 1
  KeepAliveEnabled = TRUE
  Gates = 1
  Capacity = 1
  MaxEvents = 2
PROPERTIES LifetimeBoundsConnection
CHECK_DEADLOCK FALSE
