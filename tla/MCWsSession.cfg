SPECIFICATION MCSpec
CONSTANTS
  Senders <- MCSenders
  Capacity = 1
  MaxOps = 1
  MaxTotal <- MCMaxTotal
  MaxMessages = 1
  WsPaths <- MCWsPaths
  WsPatterns <- MCWsPatterns
  WsHeads <- MCWsHeads
  WsNames = {"x", "y", "long"}
  WsUnsafe = {"", ".", ".."}
  WsLong = {"long"}
  WsMaxSegments = 3
  AllowedOrigins = {"here", "long"}
  Rejections = {101, 200, 204, 302, 304, 403, 600}
  MaxSettings = 2
  MaxConfigs = 2
INVARIANTS DeliveredInOrder UpgradeEntitled
PROPERTIES ReplyInOrder SessionSettles UpgradeStops
CHECK_DEADLOCK FALSE
