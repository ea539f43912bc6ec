SPECIFICATION Spec
CONSTANTS
  Null = Null
  None = None
  Orphan = Orphan
  Server = {s1, s2}
  Slot = {j1, j2}
  Feed <- MCFeed
  Attempts = 3
  MaxFaults = 0
  MaxLost = 0
  MaxOverruns = 1
  MaxCrashes = 0
SYMMETRY Processes
INVARIANTS NoEventTwice
