SPECIFICATION CorrectionsSpec
CONSTANTS
  Variants = {v1}
  Checkouts = {c1}
  Orders = {o1}
  NoOrder = NoOrder
  NoCart = NoCart
  Opening <- MCOpening
  MaxLine = 2
  Deltas <- MCDeltas
  MaxOnHand = 2
  Sweepers = {}
  Releasers = {}
  Threads = {t1}
  OrderOf <- MCOrderOf
  Lines <- MCLines
  Attempts = 2
  Threshold = 2
  MaxLate = 0
  MaxAsks = 2
  StaffReasons = {"adjustment"}
  NoCall = NoCall
INVARIANT NewCorrectionIsNoReplay
