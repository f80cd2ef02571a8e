SPECIFICATION ClientsSpec
CONSTANTS
  q1 = q1
  q2 = q2
  i1 = i1
  i2 = i2
  a1 = a1
  Accounts <- TwoAccounts
  Events <- TwoEvents
  NumTickets = 3
  NumConns = 3
  MaxWSConnsPerKey = 2
  MaxTries = 2
  Deliveries <- TwoDeliveries
  People <- ThreePeople
  NumViewers = 2
  NumPosts = 2
  MaxCourierChanges = 2
  PruneAbove = 1
  PruneTo = 1
  NumChatters = 2
  NumChatPosts = 1
  MaxRooms = 2
  MaxMessages = 1
  Instances <- TwoInstances
  LimitCalls <- TwoRequests
  Callers <- OneAddress
  Limits = {2, 4}
  Minute = 2
  IdleTicks = 3
  Full = Full
  MaxAsked = 4
  MaxLostCalls = 1
INVARIANTS
  NewsKept
  TrackingKept
  ChatKept
PROPERTIES
  LimitsKept
CHECK_DEADLOCK FALSE
