SPECIFICATION Spec
CONSTANTS
  Procs = {p1, p2}
  Blocks = {k1, k2, k3, k4}
  Values = {v0, v1}
  NBUF = 3
  MaxPinned = 1
  None = none
SYMMETRY Interchangeable
INVARIANTS
  BufferKept
  DiskServesHead
  LockSleeperWaits
PROPERTY OnlyHolderChanges
