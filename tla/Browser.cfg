CONSTANTS
  u1 = u1
  u2 = u2
  t1 = t1
  NoData = NoData
  User = {u1, u2}
  Team = {t1}
  BellLimit = 1
  MaxNotes = 2
  MaxLogins = 2
  MaxClicks = 2
  MaxEvents <- Events
SPECIFICATION FairSpec
CHECK_DEADLOCK FALSE
INVARIANTS TypeOK QuietMeansInSync NoForeignList
PROPERTIES UnreadShown DeadTokenGoes
