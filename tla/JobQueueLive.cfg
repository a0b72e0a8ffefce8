SPECIFICATION FairSpec
CONSTANTS
  MaxJobs = 3
  MaxUserJobs = 1
  MaxResumes = 1
  MaxIncrements = 2
  MaxFaults = 1
  ReuseWorkspace = FALSE
INVARIANT SeriesInOrder
PROPERTY CancelEnds
PROPERTY EveryJobEnds
PROPERTY Lifecycle
