SPECIFICATION FairSpec
CONSTANTS
  MaxRequests = 3
  KeepAliveEnabled = TRUE
  Gates = 1
  Capacity = 1
  MaxEvents = 3
INVARIANTS WireInOrder SeenInTurn
PROPERTIES ConnectionSettles
CHECK_DEADLOCK FALSE
