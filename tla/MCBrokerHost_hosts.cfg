SPECIFICATION HostFairSpec
CONSTANTS
  Procs = {p1, p2}
  Mortal = {p1, p2}
  NoProc = NoProc
  IoFails = TRUE
  MaxServed = 2
INVARIANTS
  HostTypeOK
  SingleOwner
PROPERTIES
  AcquireDecides
  StaleRecordIsRetaken
  StopsClean
  BrokerDeathEndsHost
CHECK_DEADLOCK FALSE
