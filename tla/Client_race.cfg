CONSTANTS
  q = q
  s = s
  t = t
  FutureCalls = {}
  StreamCalls <- MCOneStream
  MaxChunks = 1
  ErrorShapes <- GoodError
SPECIFICATION Spec
INVARIANTS
  ReadyEndBeatsTimeout
CHECK_DEADLOCK FALSE
