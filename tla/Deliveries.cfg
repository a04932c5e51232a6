SPECIFICATION FairDeliveriesSpec
CONSTANTS
  Variants = {v1}
  Checkouts = {c1}
  Orders = {o1}
  NoOrder = NoOrder
  NoCart = NoCart
  Opening <- MCOpening
  MaxLine = 2
  Deltas <- MCDeltas
  MaxOnHand = 2
  Sweepers = {}
  Releasers = {}
  Threads = {t1, t2}
  OrderOf <- MCOrderOf
  Lines <- MCLines
  Attempts = 2
  Threshold = 2
  MaxLate = 1
  MaxAsks = 1
  StaffReasons = {"adjustment"}
  NoCall = NoCall
  Messages = {1, 2}
  Unhandled = {2}
  Drainers = {d1, d2}
  BatchSize = 1
  MaxAttempts = 2
  MaxCrashes = 1
INVARIANTS
  RemoteTypeOK
  ToldHeldIsHeld
  ConfirmedHoldIsSettled
  RefundedOrderKeepsNothing
  OneCallCorrectsOnce
  SentWasHandled
PROPERTIES
  RemoteImplementsPool
  OverdueHoldsEnd
  EveryMessageSettles
\* Once every message is settled, or every call is made, nothing is left to do.
CHECK_DEADLOCK FALSE
