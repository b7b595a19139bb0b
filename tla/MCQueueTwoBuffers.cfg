SPECIFICATION FairSpec

CONSTANTS
  Textures = {t1}
  Composition = screen
  FillBatchEnabled = FALSE
  ThreeBuffers = FALSE
  BatchMax = 2
  RingSize = 2
  Tables = 1
  FenceModulus = 8
  FenceBase = 5
  PacingEnabled = TRUE
  PacingPeriod = 2
  FrameMax = 2
  MaxOps = 4
  MaxFailures = 0

INVARIANTS
  RawFencesExact
  BackBufferOffDisplay
  WaitsAnswered

PROPERTIES
  CallbacksReturn
  IssuedIsExecuted
