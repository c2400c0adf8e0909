SPECIFICATION FairSpec
CONSTANTS
  Build <- MCBuild
  MaxKids = 3
  ParentChunk = 3
  ChildPageLimit = 2
INVARIANTS SweptHasItsChildren
PROPERTIES NoParentIsDropped EverySweepEnds
CHECK_DEADLOCK FALSE
