CONSTANTS
  Solutions <- SmallTrees
  MaxRecognized = 1
  MaxVisited = 7
  MaxCandidates = 6
SPECIFICATION Spec
INVARIANTS StaleTableCostsNoCorrectness
CHECK_DEADLOCK FALSE
