SPECIFICATION Spec
CONSTANTS
  NPROC = 2
  NCPU = 2
  DEFAULT_TIME_SLICE = 3
  SliceLimit = 3
  TickMod = 3
  SleepArgs = {2}
INVARIANTS
  SliceInRange
  
PROPERTY ReportsOnlyExits
