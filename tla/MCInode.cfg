SPECIFICATION Spec
CONSTANTS
  Procs = {p1, p2}
  NInodes = 3
  NINODE = 3
  x = x
  y = y
  Names = {x, y}
  Paths <- DeepPaths
  MaxCalls = 5
  Calls <- DeepCalls
SYMMETRY Interchangeable
CHECK_DEADLOCK FALSE
INVARIANTS
  RefExact
  LinksCounted
  
  OnlyIputCircles
