CONSTANTS
  w1 = w1
  w2 = w2
  alias = alias
  k1 = k1
  k2 = k2
  n1 = n1
  n2 = n2
  c1 = c1
  c2 = c2
  c3 = c3
  None = None
  Wallets = {w1}
  Names = {w1}
  Canon <- MCCanon
  Keys = {k1, k2}
  Notes = {n1}
  Calls = {c1, c2, c3}
  Requests <- OneWallet
  Openings = {2}
  MaxPaise = 3
  Faults = {"crash", "redis", "database"}
SYMMETRY CallSymmetry
SPECIFICATION HistorySpec
INVARIANTS
  TypeOK
  RepliesAreTrue
  CacheHoldsPastBalance
  HistoryReadsInOrder
PROPERTIES
  RetryGetsOriginal
  ImplementsLedger
