SPECIFICATION KeySetSpec
CONSTANTS
  Documents <- MCDocuments
  Allowed = {"RS256", "ES256"}
  MaxKeys = 3
  MaxKeysPerKid = 2
  LongKids = {"long"}
INVARIANT ContradictionsRefused
CHECK_DEADLOCK FALSE
