SPECIFICATION EdgeSpec
CONSTANTS
  Build <- MCFour
  Horizon = 8
  Midnights <- MCMidnights
  Grace = 2
  Reread = 1
  Skew = 0
  PageSize = 1
  Starts <- MCStarts
  ClearEdges = TRUE
  MaxKids = 2
  ParentChunk = 1
  ChildPageLimit = 2
  Day = 2
INVARIANT EveryCompletionIsCounted
CHECK_DEADLOCK FALSE
