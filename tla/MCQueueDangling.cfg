SPECIFICATION Spec

CONSTANTS
  Textures = {t1}
  Composition = screen
  FillBatchEnabled = TRUE
  ThreeBuffers = TRUE
  BatchMax = 2
  RingSize = 2
  Tables = 1
  FenceModulus = 64
  FenceBase = 0
  PacingEnabled = FALSE
  PacingPeriod = 1
  FrameMax = 20
  MaxOps = 3
  MaxFailures = 2

INVARIANTS
  NoDanglingBatch
