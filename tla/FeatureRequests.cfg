SPECIFICATION Spec
CONSTANTS
  MaxJobs = 2
  Stages = 2
  Helper = {h1}
  Scenarios <- MCScenarios
  Slug = {s1}
  User = {u1}
INVARIANT NothingLostOrDoubled
 
INVARIANT StoreIsSumOfOperations
INVARIANT AnalysisReachesStore
CHECK_DEADLOCK FALSE
