SPECIFICATION Spec
CONSTANTS
  p1 = p1
  p2 = p2
  o1 = o1
  o2 = o2
  s1 = s1
  Wallets = {s1}
  Refs = {p1}
  NoRef = NoRef
  NoPayment = NoPayment
  Amounts = {1, 2}
  Payments = {p1}
  Orders = {o1}
  Handlers = {h1, h2}
  Reconciler = Reconciler
  Kind <- OnePix
  OrderOf <- OneOrder
  StoreOf <- OneStore
  Shares <- Two
  DebtAmount <- DebtOfThree
  CreditLimit = 3
  WithdrawRefs = {}
  KnownCharges = {p1}
  Reviewed = {p1}
  SplitAmounts = {}
  Serial = FALSE
  MaxCrashes = 1
  MaxDbErrors = 0
INVARIANTS
  MarkIsBacked
  OneCreditPerPayment
PROPERTIES
  EveryPaymentSettles
CHECK_DEADLOCK FALSE
