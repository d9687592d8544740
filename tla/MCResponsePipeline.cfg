\* A list of origins, with credentials, and compression of everything.
SPECIFICATION MCSpec
CONSTANTS
  Requests <- MCRequests
  Resources <- MCResources
  CorsOn = TRUE
  AnyOrigin = FALSE
  CorsList = {"a", "b"}
  Credentials = TRUE
  CompressionOn = TRUE
  CompressStreaming = TRUE
  MinSize = 2
  MaxRequests = 2
  MaxSends = 2
  RhNames <- MCRhNames
  RhLower <- MCRhLower
  RhValues <- MCRhValues
  RhDirectives <- MCRhDirectives
  RhFields = {"o", "O", "e", "*", "o,e"}
  RhMethods <- MCRhMethods
  RhLocations <- MCRhLocations
  RhStatuses = {200, 204, 302}
  RhMaxCalls = 3
  SmTasks = {1, 2}
  SmTargets <- MCTargets
  SmExcluded = {"/health"}
  SmInterval = 3
  SmModulus = 4
  SmMaxCalls = 6
INVARIANTS CacheSafe BodyAsDeclared CorsSound HeadSound TraceSampled
CHECK_DEADLOCK FALSE
