SPECIFICATION FairSpec
CONSTANTS
  Build <- MCBuild
  Horizon = 8
  Midnights <- MCMidnights
  Grace = 1
  Reread = 2
  Skew = 1
  PageSize = 2
  Starts <- MCStarts
  ClearEdges = TRUE
INVARIANTS ClaimsAreKept FinishedLeavesNoGap
PROPERTIES CreditIsKept ImplementsLedger EveryRunEnds
CHECK_DEADLOCK FALSE
