SPECIFICATION HPSpec
CONSTANTS
  BlockSize = 2
  Seqs <- MCTwo
  Shapes <- MCLong
  NumBlocks = 5
  WatermarkBlocks = 0
  MaxNumSeqs = 2
  MaxBatchedTokens = 5
  PromptLimit = 5
  DropRequests = FALSE
  MayStop = FALSE
  StopStrings = FALSE
  Workers = {w1}
  RankZero = w1
  EnforceMaxNumSeqs = FALSE
INVARIANTS IgnoredAreReported
