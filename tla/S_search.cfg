CONSTANTS
  Solutions <- SmallTrees
  MaxRecognized = 1
  MaxVisited = 7
  MaxCandidates = 6
SPECIFICATION FairSpec
INVARIANTS SearchIsBounded OnlyLargeSolutionsAreRefused PinnedOperationIsDerived
PROPERTIES SearchEnds
CHECK_DEADLOCK FALSE
