CONSTANTS
  MaxLines = 1
  MaxLogs = 0
  LineKinds = {"json", "junk"}
SPECIFICATION Spec
INVARIANTS
  StopIsNotACrash
CHECK_DEADLOCK FALSE
