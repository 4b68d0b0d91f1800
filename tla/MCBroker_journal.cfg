SPECIFICATION Spec
CONSTANTS
  Clients = {c1}
  StartRequests = {q1, q2}
  ControlRequests = {q2}
  RunIds = {r1, r2}
  Grants <- MCAllGrants
  None = None
  MaxFaults = 1
  MaxCrashes = 1
SYMMETRY Symmetry
INVARIANTS
  ReceiptIsClaimed
  NoLimbo
  CompletedIsOver
  AnswersAreJournaled
