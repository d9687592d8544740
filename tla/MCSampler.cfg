SPECIFICATION SamplerSpec
CONSTANTS
  SmTasks = {1, 2}
  SmTargets <- MCTargets
  SmExcluded = {"/health"}
  SmInterval = 3
  SmModulus = 4
  SmMaxCalls = 6
INVARIANT SampledAsDocumented
CHECK_DEADLOCK FALSE
