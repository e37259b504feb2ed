CONSTANTS
  MaxLines = 1
  MaxLogs = 1
  LineKinds = {"json"}
SPECIFICATION FairSpec
PROPERTIES
  OrphansAreKilled
CHECK_DEADLOCK FALSE
