SPECIFICATION Spec
CONSTANTS
  p1 = p1
  p2 = p2
  Procs = {p1, p2}
  NInodes = 3
  Files = {f1, f2}
  NBlocks = 11
  Sources <- OneFile
  BSIZE = 2
  NDIRECT = 1
  MaxChunk = 3
  Counts = {1, 5}
  Value <- Marks
  MaxCalls = 6
SYMMETRY Interchangeable
CHECK_DEADLOCK FALSE
INVARIANTS
  BlocksOwned
  FileAsWritten
  InodeOnDisk
