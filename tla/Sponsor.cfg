SPECIFICATION Spec
CONSTANTS
  s1 = s1
  s2 = s2
  Savings <- OneRich
  Wallets = {s1, s2}
  Refs <- BookingRefs
  NoRef = NoRef
  Amounts = {1, 2}
  NumBookings = 2
  LastDay = 2
  Slots = 1
  MaxDays = 1
  PendingHold = 1
  ScanWindow = 2
  Handlers = {h1}
  Scanner = Scanner
  NoBooking = NoBooking
  MaxTroubles = 1
INVARIANTS
  SponsorInv
PROPERTIES
  EveryPixHonoured
CHECK_DEADLOCK FALSE
