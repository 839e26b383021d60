SPECIFICATION Spec
CONSTANTS
  NPROC = 3
  NCPU = 2
  IoChans = {io}
  KillPids <- ForkedPids
  MaxPid = 3
INVARIANTS
  MemoryInUse
  SlotsAccounted
  SafetyInv
  FamilyInv
