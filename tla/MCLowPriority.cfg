SPECIFICATION LPFairSpec
CONSTANTS
  BlockSize = 2
  Seqs <- MCSeqs
  Shapes <- MCShapes
  NumBlocks = 5
  WatermarkBlocks = 1
  MaxNumSeqs = 2
  MaxBatchedTokens = 6
  PromptLimit = 6
  DropRequests = TRUE
  MayStop = TRUE
  StopStrings = FALSE
  Workers = {w1}
  RankZero = w1
INVARIANTS LPTypeOK InstanceSafe OnePlace ChosenAreAdmissible LPBounds OffloadedUntouched
PROPERTIES ImplementsStream EveryRequestLeaves
