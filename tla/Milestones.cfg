SPECIFICATION FairSpec
CONSTANTS
  Name = {"a", "b"}
  Plans <- MCPlans
  Scenes <- MCScenes
  MaxIter = 1
  Cap = 2
  MaxDepth = 2
  MaxRounds = 1
  MaxLaunches = 2
INVARIANT Isolated
INVARIANT DependenciesFirst
INVARIANT NothingDropped
INVARIANT ReplayAgrees
PROPERTY EveryLaunchEnds
CHECK_DEADLOCK FALSE
