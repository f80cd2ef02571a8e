SPECIFICATION PartSpec
CONSTANTS
  abacatepay = abacatepay
  mercadopago = mercadopago
  c1 = c1
  c2 = c2
  c3 = c3
  NoGateway = NoGateway
  Gateways <- TwoGateways
  Chain <- TwoInChain
  Callers <- ThreeCallers
  ChargeRequests <- AllKinds
  Threshold = 2
  Wallets = {w1, w2}
  Refs = {r1}
  NoRef = NoRef
  Amounts = {1, 2}
  Calls = {t1, t2}
  Nobody = Nobody
  MaxAttempts = 2
INVARIANTS
  TxInv
  ReplyTruthful
  LedgerInv
  RouterOK
PROPERTIES
  LedgerSpec
  EveryCallAnswered
  TestIsJudged
