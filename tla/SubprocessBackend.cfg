CONSTANTS
  MaxLines = 2
  MaxLogs = 1
  LineKinds = {"json", "junk", "broken"}
SPECIFICATION FairSpec
INVARIANTS
  TypeOK
  NoOrphan
  StoppedMeansExited
PROPERTIES
  CrashIsNoticed
  StopIsOver
  LeavesOnceStopped
  ImplementsContract
CHECK_DEADLOCK FALSE
