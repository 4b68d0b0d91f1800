SPECIFICATION LockSpec
CONSTANTS
  Procs = {p1, p2, p3}
  Mortal = {p1}
  NoProc = NoProc
  IoFails = FALSE
PROPERTIES
  RemovesOnlyDeadLocks
CHECK_DEADLOCK FALSE
