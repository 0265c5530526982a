SPECIFICATION FairSpec
CONSTANTS
  BlockSize = 2
  Seqs <- MCSeqs
  Shapes <- MCShapes
  NumBlocks = 5
  WatermarkBlocks = 0
  MaxNumSeqs = 3
  ChunkSize = 2
  PromptLimit = 10
  MayStop = TRUE
INVARIANTS SarathiTypeOK OneHolder ReplayInSync BatchWithinChunk PrefillsProgress
PROPERTIES SarathiImplementsStream SarathiEveryRequestEnds
