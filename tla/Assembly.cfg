SPECIFICATION FairSpec
CONSTANTS
  MaxIter = 2
  MaxEscalations = 1
INVARIANT DeliveredPassedGates
INVARIANT DeliveredWasJudged
PROPERTY AnswersAreAboutTheCode
PROPERTY EveryLaunchEnds
CHECK_DEADLOCK FALSE
