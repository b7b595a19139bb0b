SPECIFICATION Spec

CONSTANTS
  s1 = s1
  q1 = q1
  t1 = t1
  t2 = t2
  t3 = t3
  screen = screen

SYMMETRY Symmetry

VIEW View

INVARIANTS
  BudgetKept
  FailuresSurvived

PROPERTIES
  ImplementsSdlTextures
