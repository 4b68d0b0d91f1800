SPECIFICATION BridgeFairSpec
CONSTANTS
  Pages = {f1, f2}
  MaxSpawns = 4
INVARIANTS
  NobodyForgotten
PROPERTIES
  ClosedLeavesNothing
  FetchesEndInTime
CHECK_DEADLOCK FALSE
