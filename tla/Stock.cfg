SPECIFICATION FairStockSpec
CONSTANTS
  v1 = v1
  v2 = v2
  o1 = o1
  o2 = o2
  k1 = k1
  k2 = k2
  x1 = x1
  x2 = x2
  Variants = {v1}
  Checkouts = {k1, x1}
  Orders = {o1}
  NoOrder = NoOrder
  NoCart = NoCart
  Opening <- MCTwoUnits
  MaxLine = 2
  Deltas <- MCDeltas
  MaxOnHand = 2
  Sweepers = {s1}
  Releasers = {p1}
  Workers = {w1, w2}
  OrderLines <- MCOrderLines
  CartOf <- MCCartOf
  SpareOf <- MCSpareOf
  NoLine = NoLine
  MaxAttempts = 1
  MaxCrashes = 1
INVARIANTS
  NoOversell
  ReservedIsHeld
  SoldIsCommitted
  AuditTrail
PROPERTIES
  ImplementsUnitPool
  EndedRowsStay
  MessagesSettle
  SweptHoldsEnd
CHECK_DEADLOCK FALSE
