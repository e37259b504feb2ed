CONSTANT
  Ports = {0, 1, 65535, 65536}
SPECIFICATION Spec
INVARIANTS
  ListenerIsServed
  OnlyDockersFileStays
PROPERTIES
  AutoTakesTheFirst
CHECK_DEADLOCK FALSE
