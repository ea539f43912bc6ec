SPECIFICATION Spec
CONSTANTS
  Null = Null
  None = None
  Orphan = Orphan
  Server = {s1, s2}
  Slot = {j1, j2}
  Feed <- MCFeedQuiet
  Attempts = 2
  MaxFaults = 1
  MaxLost = 1
  MaxOverruns = 1
  MaxCrashes = 1
SYMMETRY Processes
INVARIANTS TypeOK LockKept NeverEmittedTwice EventsNeverRepeat
