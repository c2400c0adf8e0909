SPECIFICATION BranchesSpec
CONSTANTS
  SideTag = 1
  MaxVersion = 2
INVARIANTS FactsAreExamined SideTagBuildsHaveABranch BuildsAreFound NewestHeardIsRecorded
