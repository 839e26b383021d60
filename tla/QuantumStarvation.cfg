SPECIFICATION FairSpec
CONSTANTS
  NPROC = 2
  NCPU = 1
  DEFAULT_TIME_SLICE = 3
  SliceLimit = 1000000
  TickMod = 4
  SleepArgs = {}
PROPERTY RunnableRuns
