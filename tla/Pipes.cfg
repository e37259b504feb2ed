CONSTANTS
  CfgCap = 1
  InCap = 1
  OutCap = 2
  ErrCap = 1
  ConfigUnits = 2
  RequestUnits = 2
  ReplyLines = 2
  LogLines = 1
  StartLogs = 1
  MaxSends = 3
SPECIFICATION FairSpec
INVARIANTS
  TypeOK
  EmbraceNeedsOverflow
CHECK_DEADLOCK FALSE
PROPERTIES
  LoopComesBack
  ProcessIsServed
  CallReturns
