SPECIFICATION Spec

CONSTANTS
  t1 = t1
  t2 = t2
  screen = screen
  Streaming = {t2}
  Targets = {t1}
  Composition = screen
  Width = 2
  Height = 2
  Applications <- AllApplications

INVARIANTS
  TypeOK
  DrawnAsSdl
  ContentTrue
  AlphaTrue
