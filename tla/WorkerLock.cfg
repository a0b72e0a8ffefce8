SPECIFICATION FairLockSpec
CONSTANTS
  Client = {s1, s2, s3}
  Request = {r1}
  MaxServerCrashes = 2
INVARIANT OneServes
INVARIANT NoJobStranded
PROPERTY JobsAreServed
CHECK_DEADLOCK FALSE
