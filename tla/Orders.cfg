CONSTANTS
  w1 = w1
  o1 = o1
  o2 = o2
  k1 = k1
  n1 = n1
  c1 = c1
  c2 = c2
  c3 = c3
  None = None
  Wallets = {w1}
  Names = {w1}
  Canon <- MCCanon
  Keys = {o1, o2, k1}
  Notes = {o1, o2, n1}
  Calls = {c1, c2, c3}
  Requests <- ShopRequests
  Openings = {0, 1, 2}
  MaxPaise = 3
  Faults = {"crash", "redis", "database"}
  Orders = {o1, o2}
  ShopWallet = w1
  OrderAmount = 1
SYMMETRY CallSymmetry
SPECIFICATION ClientSpec
INVARIANTS
  PaidOrdersAreCharged
  RefusedOrdersAreNotCharged
PROPERTIES
  ImplementsPayment
