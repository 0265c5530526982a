SPECIFICATION LPSpec
CONSTANTS
  BlockSize = 2
  Seqs <- MCOne
  Shapes <- MCShapes
  NumBlocks = 5
  WatermarkBlocks = 0
  MaxNumSeqs = 2
  MaxBatchedTokens = 6
  PromptLimit = 6
  DropRequests = FALSE
  MayStop = FALSE
  StopStrings = TRUE
  Workers = {w1}
  RankZero = w1
INVARIANTS WorkersInSync
