\* The throttle: three threads with clocks from 0 to 5, where 5 is u64::MAX.
SPECIFICATION MCSpec
CONSTANTS
  t1 = t1
  t2 = t2
  t3 = t3
  Notifiers <- MCNotifiers
  Interval = 2
  U64Max = 5
  MaxCalls = 5
  Methods <- MCMethods
  Tokens <- MCTokens
  Paths <- MCPaths
  StaticPaths <- MCStaticPaths
  Patterns <- MCPatterns
  ParamNames = {"x", "y"}
  Unsafe = {"", ".", ".."}
  MaxSelf = 2
  MaxOther = 1
  Mounts <- MCMounts
  Roots <- MCRoots
  StaticRequests <- MCStaticRequests
  UnsafeNames = {"", ".", "..", ".git", "backslash"}
  RelaxedNames = {"backslash"}
  BadMountTexts = {"a?"}
  Directories <- MCDirectories
  Links <- MCLinks
  Files <- MCFiles
  Devices <- MCDevices
  InitialSizes <- MCInitialSizes
  MaxLinks = 3
  Extension <- MCExtension
  Lower <- MCLower
  BadExtensions = {"a.b"}
  MimeTable <- MCMimeTable
  MimeCalls <- MCMimeCalls
  MaxFileBytes = 1
  MaxSize = 2
  MaxMimes = 2
  MaxChanges = 1
  GateConns = {1, 2}
  Setups <- MCSetups
  GateRequests <- MCGateRequests
  Trim <- MCTrim
  Services = {"s"}
  Owner <- MCOwner
  Records = {"r1", "r2", "r3"}
  MaxOrigins = 1
  MaxExempt = 1
  LongOrigins <- MCLongOrigins
  BadPaths = {"x"}
  LowerLabels = {"app", "long", "evil", "0", "1", "127", "256", "012", "0x7f"}
  DigitLabels = {"0", "1", "127", "256", "012"}
  HexLabels = {"0x7f"}
  OctetLabels = {"0", "1", "127"}
  LabelNumber <- MCNumber
  V6Serial <- MCV6
  PortValue <- MCPort
  ZeroPorts = {"08080"}
  MaxServed <- MCMaxServed
  MaxStoreCalls <- MCStoreCalls
SYMMETRY Symmetry
INVARIANTS RouterSound StaticSound GatesSound TenantsApart ThrottleSound
PROPERTIES Spaced
CHECK_DEADLOCK FALSE
