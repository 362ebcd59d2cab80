SPECIFICATION Spec
CONSTANTS
  MaxChunks = 2
  MaxSeq = 1
  SockCap = 2
  PipeCap = 1
  InCap = 1
  MaxInputs = 2
  Kinds = {"exec", "pty"}
  Background = TRUE
INVARIANTS
  CancelledMeansDead
  NoChildLeft
  SequenceAgrees
PROPERTY
  Contract
