SPECIFICATION Spec

CONSTANTS
  s1 = s1
  s2 = s2
  q1 = q1
  q2 = q2
  screen = screen
  Streaming = {s1}
  Targets = {q1}
  Composition = screen
  Cells <- OnePixel
  Values = {0, 1}
  Blank = 0
  Junk = 2
  Rects <- WholeOnly
  Bytes <- Small
  Budget = 1
  ThreeBuffers = TRUE
  MaxFailures = 0

INVARIANTS
  TypeOK
  PixelsKept
  CopiesAgree
  InUseSound
  NoRace
  ResidentBytesExact

PROPERTIES
  ImplementsSdlTextures
