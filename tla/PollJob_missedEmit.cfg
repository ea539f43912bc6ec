SPECIFICATION FairSpec
CONSTANTS
  Null = Null
  None = None
  Orphan = Orphan
  Server = {s1, s2}
  Slot = {j1, j2}
  Feed <- MCFeed
  Attempts = 2
  MaxFaults = 0
  MaxLost = 0
  MaxOverruns = 0
  MaxCrashes = 1
PROPERTIES MissedEmitHeals
