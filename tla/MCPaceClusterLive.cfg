SPECIFICATION ClusterFairSpec
CONSTANTS
  Requests <- MCTwo
  InWindow <- MCTwo
  NumLP = 1
  NumHP = 1
  MayBeStopped = TRUE
PROPERTIES RunEnds
CHECK_DEADLOCK FALSE
