SPECIFICATION MCSpec
CONSTANTS
  p1 = p1
  p2 = p2
  p3 = p3
  Procs = {p1, p2, p3}
  initproc = p1
  NFrames = 17
  PGSIZE = 2
  NPTE = 2
  NDIR = 3
  Programs <- SmallPrograms
  ArgSizes = {1, 3}
  Grows <- SbrkSizes
  Value <- Marks
  MaxCalls = 4
  HeapEnd = 10
  MINCORE = 4
  HEADER = 2
  Requests = {0, 3, 7}
CHECK_DEADLOCK FALSE
INVARIANTS
  OneUse
  MemoryKept
  SizeMapped
  ExecReleases
  HeapTiled
