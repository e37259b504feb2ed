CONSTANTS
  q = q
  s = s
  t = t
  FutureCalls = {}
  StreamCalls <- MCStreams
  MaxChunks = 2
  ErrorShapes <- GoodError
SPECIFICATION Spec
SYMMETRY StreamSymmetry
INVARIANTS
  StreamConserves
  InFlightIsTracked
PROPERTIES
  KeepsContract
CHECK_DEADLOCK FALSE
