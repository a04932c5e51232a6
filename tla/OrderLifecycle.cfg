SPECIFICATION LifecycleSpec
CONSTANTS
  Orders = {o1, o2}
  Staff = {w1, w2}
  Hooks = {h1, h2}
  Reports = {"in_transit", "delivered"}
  Entries = {"pending", "delivered"}
  MaxNumber = 1
  MaxCrashes = 1
  NoOrder = NoOrder
SYMMETRY Symmetry
INVARIANTS
  LifecycleTypeOK
  NumbersAreDense
  BookedOnce
  AnsweredDeliveryCounts
PROPERTIES
  OnlyLegalEdges
