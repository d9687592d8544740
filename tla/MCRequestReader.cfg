\* Every cut of every stream, the stream ending or failing anywhere.
SPECIFICATION MCSpec
CONSTANTS
  Wires <- MCWires
  MaxHeaderBytes = 8
  MaxHeaderCount = 2
  MaxBodyBytes = 3
  MaxChunkCount = 3
  MaxLineBytes = 3
  ReadChunkBytes = 4
  MaxRetained = 6
  MinCapacity = 1
  U64Max = 20
  FmFields <- MCFmFields
  FmBodies <- MCFmBodies
  FmMaxBytes = 16
  FmMaxPairs = 2
  CkNames <- MCCkNames
  CkValues <- MCCkValues
  CkPaths <- MCCkPaths
  CkAges = {"-1", "0", "9"}
  CkRequests <- MCCkRequests
  CkMaxBytes = 10
  CkMaxCount = 2
  CkMaxCalls = 2
  CkMaxJar = 3
INVARIANTS BufferSound ReadAsSent FormFaithful CookiesSound
CHECK_DEADLOCK FALSE
