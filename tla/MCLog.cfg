SPECIFICATION FairSpec
CONSTANTS
  Blocks = {b1, b2}
  Values = {v0, v1}
  Calls = {o1, o2}
  NoValue = none
  MAXOPBLOCKS = 3
  OpWrites = 2
INVARIANTS
  LogInv
PROPERTIES
  AtomicUpdates
  
