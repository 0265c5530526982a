SPECIFICATION HPFairSpec
CONSTANTS
  BlockSize = 2
  Seqs <- MCSeqs
  Shapes <- MCShapes
  NumBlocks = 5
  WatermarkBlocks = 1
  MaxNumSeqs = 2
  MaxBatchedTokens = 5
  PromptLimit = 5
  DropRequests = TRUE
  MayStop = TRUE
  StopStrings = FALSE
  Workers = {w1}
  RankZero = w1
  EnforceMaxNumSeqs = TRUE
INVARIANTS InstanceSafe HPOnePlace PromptsAlone HPBounds
PROPERTIES OldestNotPreempted HPImplementsStream HPEveryRequestEnds
