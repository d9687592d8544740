SPECIFICATION MCSpec
CONSTANTS
  Threads <- MCThreads
  Deployments <- MCDeployments
  CacheCapacity = 2
  ReplayCapacity = 2
  MaxRequests = 2
  t1 = t1
  t2 = t2
  Documents <- MCDocuments
  Allowed = {"RS256", "ES256"}
  MaxKeys = 3
  MaxKeysPerKid = 2
  LongKids = {"long"}
  TvSettings <- MCTvSettings
  TvRequests <- MCTvRequests
  TvKeys <- MCTvKeys
  TvTimes = {0, 3, 4, 7}
  TvLongKids = {"toolong"}
  TvMaxAud = 2
  TvMaxSkew = 2
  TvMaxPast = 2
  TvMaxFuture = 1
  TvMaxTime = 7
  TvLowerHost <- MCTvLowerHost
  TvPort <- MCTvPort
SYMMETRY Symmetry
INVARIANTS StoresConsistent AcceptedIsEntitled KeySetSound VerdictTruthful
CHECK_DEADLOCK FALSE
