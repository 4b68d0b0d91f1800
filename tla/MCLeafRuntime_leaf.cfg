SPECIFICATION LeafSpec
CONSTANTS
  Callers = {c1, c2}
  MaxMade = 3
  MaxParallelRuns = 1
  MaxRuns = 2
SYMMETRY Symmetry
INVARIANTS
  ReportsStand
  RunningIsKept
  CapacityBound
  DisposalIsThorough
CHECK_DEADLOCK FALSE
