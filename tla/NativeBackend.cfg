CONSTANTS
  MaxMessages = 3
  MaxSoon = 2
  MaxDrain = 2
SPECIFICATION FairSpec
INVARIANTS
  TypeOK
  PolledWhileRunning
PROPERTIES
  QuietAfterStop
  OutputIsHandedOver
  StopReturns
CHECK_DEADLOCK FALSE
