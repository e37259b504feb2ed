CONSTANTS
  q = q
  s = s
  t = t
  FutureCalls <- MCFuture
  StreamCalls = {}
  MaxChunks = 0
  ErrorShapes <- GoodError
SPECIFICATION Spec
INVARIANTS
  CleanupIsTotal
CHECK_DEADLOCK FALSE
