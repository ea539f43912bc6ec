SPECIFICATION FairSpec
CONSTANTS
  Id = {"m1"}
  Last = 3
  Live <- MCLive
  Known <- MCKnown
  Request = {r1}
INVARIANTS TypeOK NewsIsReadable
PROPERTIES StaleDataGoes
