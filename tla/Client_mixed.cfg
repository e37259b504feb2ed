CONSTANTS
  q = q
  s = s
  t = t
  FutureCalls <- MCFuture
  StreamCalls <- MCOneStream
  MaxChunks = 2
  ErrorShapes <- AnyError
SPECIFICATION FairSpec
INVARIANTS
  TypeOK
  TableIsInFlight
  ResultCarriesItsChunks
  NothingPendingOnceDown
PROPERTIES
  WaitEnds
CHECK_DEADLOCK FALSE
