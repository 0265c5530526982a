SPECIFICATION Spec
CONSTANTS
  Blocks = {b1, b2, b3, b4}
  Seqs = {s1, s2, s3}
  NoSeq = NoSeq
  RunThread = run
  RpcThreads = {rpc1, rpc2}
  WatermarkBlocks = 1
  MaxLogical = 2
INVARIANTS TypeOK NoDoubleOwner NoBlockLost NeverDry TablesCoverTokens
PROPERTIES ImplementsLedger
SYMMETRY MCSymmetry
