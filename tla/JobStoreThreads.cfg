SPECIFICATION Spec
CONSTANTS
  Process = {p1}
  Threads = 2
  MaxSubs = 1
  MaxId = 4
  MaxCrashes = 0
INVARIANT AcceptedAsOneRunsAsOne
CHECK_DEADLOCK FALSE
