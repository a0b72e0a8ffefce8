SPECIFICATION ContractSpec
CONSTANTS
  MaxIter = 3
  Drafts <- MCDrafts
  Replies <- MCReplies
INVARIANT ContractIsReviewed
INVARIANT HunksAreApplied
CHECK_DEADLOCK FALSE
