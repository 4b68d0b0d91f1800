SPECIFICATION SidecarFairSpec
CONSTANTS
  Starts = {s1, s2, s3}
  MaxFailures = 2
  None = None
INVARIANTS
  NoOrphans
  EndpointIsOwn
PROPERTIES
  StartEnds
