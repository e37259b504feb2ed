CONSTANTS
  d = d
  e = e
  a = a
  b = b
  c = c
  DropSubs = {d}
  CloseSubs = {e}
  Consumers = {a, b, c}
  ConsumerOf <- Readers
  MaxQueue = 2
  MaxNotifications = 3
SPECIFICATION FairSpec
INVARIANTS
  TypeOK
  OpenSubscriberGetsAll
  StoppedMeansDrained
  NoneBlockedOnClosed
  NoLostWakeup
PROPERTIES
  IterationEnds
CHECK_DEADLOCK FALSE
