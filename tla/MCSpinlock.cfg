SPECIFICATION Spec
CHECK_DEADLOCK FALSE
CONSTANTS
  Cpus = {c0, c1}
  Procs = {p1, p2}
  Calls = {"consoleread", "sys_sleep", "wait", "exit"}
  Handlers = {"timer", "kbd"}
  None = none
SYMMETRY Interchangeable
INVARIANTS
  NoPanic
  InterruptsFollowLocks
  OnlyConsoleCycle
