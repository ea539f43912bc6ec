SPECIFICATION FairSpec
CONSTANTS
  Null = Null
  Caller = {c1, c2}
  MaxRetries = 3
  MinInterval = 2
  BaseDelay = 1
  MaxDelay = 2
  QuotaPause = 3
  Answer <- MCAnswer
INVARIANTS TypeOK
PROPERTIES RetryAfterHonoured CallEnds
