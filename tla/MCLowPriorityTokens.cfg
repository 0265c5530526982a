SPECIFICATION LPSpec
CONSTANTS
  BlockSize = 2
  Seqs <- MCTwo
  Shapes <- MCShapes
  NumBlocks = 4
  WatermarkBlocks = 0
  MaxNumSeqs = 2
  MaxBatchedTokens = 6
  PromptLimit = 6
  DropRequests = FALSE
  MayStop = FALSE
  StopStrings = FALSE
  Workers = {w1}
  RankZero = w1
INVARIANTS MaxTokensRespected
