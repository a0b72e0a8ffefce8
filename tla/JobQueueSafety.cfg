SPECIFICATION Spec
CONSTANTS
  MaxJobs = 2
  MaxUserJobs = 2
  MaxResumes = 1
  MaxIncrements = 2
  MaxFaults = 2
  ReuseWorkspace = TRUE
INVARIANT OneTrackedOrchestrator
INVARIANT CrashLoopBounded
INVARIANT CancelStopsRelaunch
