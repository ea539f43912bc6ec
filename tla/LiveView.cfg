CONSTANTS
  b1 = b1
  m1 = m1
  m2 = m2
  Null = Null
  Nothing = Nothing
  Browser = {b1}
  Feed <- MCFeed
  MaxStarts = 2
  MaxDrops = 1
  MaxVisits = 2
SPECIFICATION FairSpec
CHECK_DEADLOCK FALSE
INVARIANTS TypeOK PageUpToDate OnlyOwnMatch DrainedBeforeDisconnect
PROPERTIES EventsFindHandlers ShutdownEnds
