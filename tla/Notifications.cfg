CONSTANTS
  u1 = u1
  u2 = u2
  india = india
  england = england
  eleven = eleven
  r1 = r1
  r2 = r2
  started = started
  opened = opened
  Nobody = Nobody
  User = {u1, u2}
  Registered = {}
  MaxSignups = 2
  Team = {india, england, eleven}
  Seeded = {india, england}
  Request = {r1, r2}
  Event = {started, opened}
  TeamsOf <- MCTeamsOf
  MaxRows = 2
  MaxDbFaults = 1
  MaxCrashes = 1
  PageSize = 1
SPECIFICATION Spec
SYMMETRY Symmetric
INVARIANTS TypeOK OneAccountPerEmail StrangersNotTold OncePerUser SteadyFollowersTold AnswersAddUp FeedMissesOnlyTies
PROPERTIES LaterFollowKept
