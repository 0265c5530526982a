SPECIFICATION ClusterSpec
CONSTANTS
  Requests <- MCTwo
  InWindow <- MCTwo
  NumLP = 2
  NumHP = 1
  MayBeStopped = FALSE
INVARIANTS ClusterTypeOK OneCopy NoIdLost WindowFinished PopSafe
CHECK_DEADLOCK FALSE
