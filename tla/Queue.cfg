SPECIFICATION Spec
CONSTANTS
  NumMessages = 2
  Consumers = {c1, c2}
  ReadCount = 2
  ListCount = 2
  MaxRetries = 2
  MaxSlow = 1
  MaxCrashes = 1
  MaxRedisErrors = 1
INVARIANTS
  QueueKept
PROPERTIES
  EveryMessageEnds
CHECK_DEADLOCK FALSE
