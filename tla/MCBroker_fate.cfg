SPECIFICATION DrainedSpec
CONSTANTS
  Clients = {c1}
  StartRequests = {q1}
  ControlRequests = {}
  RunIds = {r1}
  Grants <- MCAllGrants
  None = None
  MaxFaults = 0
  MaxCrashes = 0
PROPERTIES
  ExecutorDeathIsNoticed
