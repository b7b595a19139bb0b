SPECIFICATION Spec

CONSTANTS
  Coordinators = {c1, c2}
  Mains = {menu, m1}
  Menu = menu
  Devices = {d1, d2}
  Nobody = nobody
  Passes = 2
  MaxEvents = 2

CHECK_DEADLOCK FALSE

INVARIANTS
  GrabsRestoredOnExit
