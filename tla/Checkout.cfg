SPECIFICATION PartSpec
SYMMETRY Alike
CONSTANTS
  ann = ann
  bob = bob
  k1 = k1
  k2 = k2
  r1 = r1
  r2 = r2
  g1 = g1
  g2 = g2
  Users <- AnnAndBob
  Members <- AnnAndBob
  Friend = ann
  Requests <- TwoRequests
  MaxUses = 2
  MaxUsesPerUser = 1
  NoCode = NoCode
  NoUser = NoUser
  NoCopy = NoCopy
  MaxFaults = 1
  Clerks <- TwoClerks
  Opening <- TwoRows
  Gold = 25
  OrderPoints = 5
  PointsPerReal = 10
  NoClerk = NoClerk
  RewardPoints = 10
  Redemptions <- Ten
  MaxRedeemed = 1
  Wallets = {"cust", "store"}
  Customer = "cust"
  Store = "store"
  Callers <- TwoCallers
  Orders = {"o1", "o2"}
  LegacyPaid = {"o1"}
  TopUps = {"p"}
  Keys = {"k1"}
  NoKey = "none"
  NoRef <- NoLedgerRef
  Amounts = {1, 2}
  LastMinute = 1
  Refs <- TheRefs
  Total <- TheTotals
  Bodies <- TheBodies
  Stores = {"s1", "s2"}
  AnyStore = "any"
  MenuValues = {7, 20}
  Ceps = {1, 2, 3}
  RegionForms <- Rules
  StoreFees = {2}
  CouponForms <- Forms
  SplitShares <- Percentages
  FreeAbove = 15
  LegacyOrders <- OldOrders
  Unset <- Absent
INVARIANTS
  PricingInv
  CouponsKept
  PointsKept

  
CHECK_DEADLOCK FALSE
