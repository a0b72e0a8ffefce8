SPECIFICATION FairSpec
CONSTANTS
  Missions <- MCMissions
  Schemas <- MCSchemas
  Ghosts <- MCGhosts
  Sections <- MCSections
  SchemaRepairAttempts = 1
  PlanAttempts = 1
  MaxAnswers = 2
  MaxLaunches = 3
INVARIANT MadeForThisSchema
INVARIANT DeliveredAsJudged
INVARIANT DependenciesKept
PROPERTY ServersStop
CHECK_DEADLOCK FALSE
