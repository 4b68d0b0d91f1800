SPECIFICATION ClientFairSpec
CONSTANTS
  Leaves = {l1, l2}
  Refreshes = {f}
  MaxClients = 2
  MaxKnown = 1
INVARIANTS
  TimedOutIsCancelled
  CancelIsForTimeout
  PolledIsKnown
PROPERTIES
  LeafCallsEnd
CHECK_DEADLOCK FALSE
