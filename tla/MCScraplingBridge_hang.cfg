SPECIFICATION BridgeFairSpec
CONSTANTS
  Pages = {f1}
  MaxSpawns = 2
PROPERTIES
  FetchesEnd
CHECK_DEADLOCK FALSE
