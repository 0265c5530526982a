SPECIFICATION DSFairSpec
CONSTANTS
  BlockSize = 2
  Requests <- MCTwo
  Shapes <- MCLong
  PrefillBlocks = 2
  DecodeBlocks = 4
  WatermarkBlocks = 0
  MaxNumSeqs = 2
  MaxBatchedTokens = 4
  TransferThreads = {t1, t2}
  SwapThreads = {u1}
  MayStop = TRUE
INVARIANTS DSTypeOK PrefillAssertions HandedOverOnce CacheOnOneSide InsertsFitIfReplayed
CHECK_DEADLOCK FALSE
PROPERTIES EveryRequestEnds
