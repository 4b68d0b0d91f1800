SPECIFICATION FairSpec
CONSTANTS
  Clients = {c1, c2}
  StartRequests = {q1}
  ControlRequests = {}
  RunIds = {r1, r2}
  Grants <- MCAllGrants
  None = None
  MaxFaults = 2
  MaxCrashes = 1
INVARIANTS
  AtMostOnce
  WriteAhead
  ReceiptNamesOwnRun
  AnswersAreTrue
  SeenStaysVisible
PROPERTIES
  ImplementsLedger
  HandlerReachesAnswer
