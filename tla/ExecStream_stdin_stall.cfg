SPECIFICATION FairSpec
CONSTANTS
  MaxChunks = 1
  MaxSeq = 3
  SockCap = 1
  PipeCap = 1
  InCap = 1
  MaxInputs = 2
  Kinds = {"exec"}
  Background = FALSE
PROPERTY
  HandlerReturns
