SPECIFICATION ChromeFairSpec
CONSTANTS
  Authorizes = {a1, a2}
  Uses = {u1}
  Companions = {p}
  MaxEvents = 1
  None = None
INVARIANTS
  LiveIsEarned
  SuccessWasRun
PROPERTIES
  NoSuccessAfterRevoke
  CallsEnd
  StrandedGrantEnds
CHECK_DEADLOCK FALSE
