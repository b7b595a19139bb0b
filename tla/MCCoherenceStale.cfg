SPECIFICATION Spec

CONSTANTS
  s1 = s1
  s2 = s2
  q1 = q1
  q2 = q2
  screen = screen
  Streaming = {s1}
  Targets = {}
  Composition = screen
  Cells <- TwoPixels
  Values = {0}
  Blank = 0
  Junk = 2
  Rects <- AllRects
  Bytes <- Small
  Budget = 1
  ThreeBuffers = TRUE
  MaxFailures = 1

INVARIANTS
  SurfaceWritten
