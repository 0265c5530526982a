SPECIFICATION LPSpec
CONSTANTS
  BlockSize = 4
  Seqs <- MCOne
  Shapes <- MCFilling
  NumBlocks = 2
  WatermarkBlocks = 0
  MaxNumSeqs = 2
  MaxBatchedTokens = 8
  PromptLimit = 8
  DropRequests = FALSE
  MayStop = FALSE
  StopStrings = FALSE
  Workers = {w1}
  RankZero = w1
INVARIANTS ChosenAreAdmissible
