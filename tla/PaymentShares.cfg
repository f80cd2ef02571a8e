SPECIFICATION Spec
CONSTANTS
  p1 = p1
  p2 = p2
  o1 = o1
  o2 = o2
  s1 = s1
  Wallets = {s1}
  Refs = {p1, p2}
  NoRef = NoRef
  NoPayment = NoPayment
  Amounts = {1, 2}
  Payments = {p1, p2}
  Orders = {o1, o2}
  Handlers = {h1}
  Reconciler = Reconciler
  Kind <- TwoPix
  OrderOf <- OwnOrders
  StoreOf <- OneStore
  Shares <- TwoOrLess
  DebtAmount <- DebtOfThree
  CreditLimit = 3
  WithdrawRefs = {}
  KnownCharges = {p1, p2}
  Reviewed = {p1}
  SplitAmounts = {1}
  Serial = TRUE
  MaxCrashes = 0
  MaxDbErrors = 1
INVARIANTS
  SettlementInv
CHECK_DEADLOCK FALSE
