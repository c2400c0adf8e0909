SPECIFICATION MCSpec
CONSTANTS
  Build <- MCBuild
  Horizon = 8
  Midnights <- MCMidnights
  Grace = 2
  Reread = 1
  Skew = 0
  PageSize = 2
  Starts <- MCStarts
  ClearEdges = TRUE
  MaxKids = 2
  ParentChunk = 1
  ChildPageLimit = 2
  Day = 2
INVARIANTS WholeDayHoldsEveryBuild WholeDayHasChildren SyncedWindowIsWhole
CHECK_DEADLOCK FALSE
