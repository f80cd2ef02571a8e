SPECIFICATION OrdersSpec
CONSTANTS
  o1 = o1
  c1 = c1
  c2 = c2
  w1 = w1
  w2 = w2
  Nobody = Nobody
  NoOrder = NoOrder
  Orders <- OneOrder
  Couriers <- TwoCouriers
  Workers <- TwoWorkers
  MaxCrashes = 1
  MaxDbErrors = 1
INVARIANTS
  OrderInv
PROPERTIES
  QuietDay
  LegalSteps
  DeliveredIsFinished
CHECK_DEADLOCK FALSE
