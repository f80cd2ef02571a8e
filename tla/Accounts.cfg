SPECIFICATION PartSpec
SYMMETRY Alike
CONSTANTS
  r1 = r1
  r2 = r2
  s1 = s1
  c1 = c1
  c2 = c2
  w1 = w1
  w2 = w2
  ann = ann
  bob = bob
  Users <- TwoUsers
  Requests <- TwoRequests
  NoUser = NoUser
  MaxPasswordResetAttempts = 2
  MaxTokens = 3
  MaxCodes = 2
  MaxPasswords = 1
  MaxCuts = 2
  MaxFaults = 1
  Stores <- OneStore
  NoStore = NoStore
  Emails <- ThreeEmails
  Lower <- LowerCase
  ana = ana
  Ana = Ana
  eva = eva
  UniqueEmail = TRUE
  OneAdminAtATime = TRUE
  MaxCopies = 2
  Clients <- TwoClients
  Phones <- OnePhone
  Month = 2
  NoSub = NoSub
  NoPhone = NoPhone
  MaxNow = 5
  MaxRenewals = 2
  MaxHeld = 2
  Week = 3
  Day = 5
  NoDay = NoDay
  ClosedDay = ClosedDay
  DayRows <- FiveRows
  Couriers <- TwoCouriers
  Addresses <- OneAddress
  Wallets <- TwoWallets
  NoWallet = NoWallet
  MaxOpenRows = 2
INVARIANTS
  SessionsKept
  ClubKept
  HoursKept
  CouriersKept
PROPERTIES
  AccountsKept
CHECK_DEADLOCK FALSE
