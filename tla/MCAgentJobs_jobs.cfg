SPECIFICATION JobsFairSpec
CONSTANTS
  Jobs = {j1}
  MaxDrives = 2
  MaxRounds = 2
  None = None
INVARIANTS
  JournalReplays
  EndIsReadable
PROPERTIES
  EndStands
  SlotIsFreed
CHECK_DEADLOCK FALSE
