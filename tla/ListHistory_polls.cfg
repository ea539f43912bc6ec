SPECIFICATION Spec
CONSTANTS
  Null = Null
  Bodies <- MCBodies
  Matches <- MCMatches
  Failures <- MCFailures
  Rolls = {0, 950}
  MaxTicks = 2
INVARIANTS
  ChangesRebuildList
  DeltasAddUp
  MilestonesOnce
  StartedMeansWentLive
  MockRoundTrip
  InningsKeepTheirTeam
