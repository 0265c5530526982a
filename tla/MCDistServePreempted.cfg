SPECIFICATION Spec
CONSTANTS
  BlockSize = 2
  Requests <- MCTwo
  Shapes <- MCShapes
  PrefillBlocks = 2
  DecodeBlocks = 4
  WatermarkBlocks = 0
  MaxNumSeqs = 2
  MaxBatchedTokens = 4
  TransferThreads = {t1, t2}
  SwapThreads = {u1}
  MayStop = FALSE
INVARIANTS InsertsFit
CHECK_DEADLOCK FALSE
