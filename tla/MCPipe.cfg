SPECIFICATION Spec
CHECK_DEADLOCK FALSE
CONSTANTS
  Procs = {p1, p2, p3}
  Bytes = {0, 1}
  PIPESIZE = 2
  UINT = 4
  Counts = {3}
  Killable = {p1}
  None = none
SYMMETRY Interchangeable
INVARIANTS
  NoUseAfterFree
  SleepersHaveToWait
PROPERTIES
  StreamKept
  EofIsReal
