SPECIFICATION FairSpec
CONSTANTS
  Durations = {0, 1, 2, 4}
  None = None
  MaxAges = {0, 2}
  MaxNow = 7
INVARIANTS KeysExact FetchesPaced
PROPERTIES StopsWhenTold
CHECK_DEADLOCK FALSE
