SPECIFICATION FairSpec
CONSTANTS
  c1 = c1
  t1 = t1
  Checks <- MCChecks
  Tests <- MCTests
  Tasks <- MCTasks
  Crates <- MCCrates
  Repeats = 2
  Budget = 1
  StatusErrors = 2
  AwaitPolls = 1
INVARIANT NoWriterLeft
INVARIANT OutcomeIsTheJobs
INVARIANT VerdictIsTheCrates
PROPERTY EveryRunEnds
CHECK_DEADLOCK FALSE
