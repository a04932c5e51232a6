SPECIFICATION SagaSpec
CONSTANTS
  v1 = v1
  v2 = v2
  o1 = o1
  o2 = o2
  k1 = k1
  k2 = k2
  x1 = x1
  x2 = x2
  Variants = {v1}
  Checkouts = {k1, x1}
  Orders = {o1}
  NoOrder = NoOrder
  NoCart = NoCart
  Opening <- MCOpening
  MaxLine = 1
  Deltas <- MCDeltas
  MaxOnHand = 1
  Sweepers = {}
  Releasers = {}
  Workers = {w1}
  OrderLines <- MCOrderLines
  CartOf <- MCCartOf
  SpareOf <- MCSpareOf
  NoLine = NoLine
  MaxAttempts = 2
  MaxCrashes = 1
INVARIANTS
  RetiredIsSold
