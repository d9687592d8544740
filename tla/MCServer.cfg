\* Two connections and two calls of rebind, three of the four in a behaviour,
\* and a single permit: max_connections is 0, which bind rounds up.
CONSTANTS
  Initial = initial  NoCaller = nocaller
  Conns <- MCConns
  Callers <- MCCallers
  MaxConnections = 0
  MaxU32 = 9
  BacklogLimit = 1
  MaxArrivals = 3
SPECIFICATION FairSpec
INVARIANTS PermitsAccounted ShutdownOrderly RebindTruthful
PROPERTIES AdmissionSpec ServerSettles
CHECK_DEADLOCK FALSE
