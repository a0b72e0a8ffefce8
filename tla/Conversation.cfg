SPECIFICATION FairSpec
CONSTANTS
  Caller = {c1, c2}
  Runs <- MCRuns
  ExploreEvery = 2
  MaxRateLimit = 0
  MaxTransient = 1
  MaxLoading = 0
  MaxTurns = 1
  TurnBump = 1
INVARIANT OneProvider
INVARIANT TurnBudget
INVARIANT NoSlotForgotten
PROPERTY EveryCallEnds
