SPECIFICATION Spec
CONSTANTS
  Process = {p1, p2, p3}
  Threads = 1
  MaxSubs = 1
  MaxId = 3
  MaxCrashes = 1
SYMMETRY Symmetry
INVARIANT AcceptedIsStored
INVARIANT RunningFileIsWorkers
PROPERTY IdsHandedOutInOrder
CHECK_DEADLOCK FALSE
