SPECIFICATION DataSpec
CONSTANTS
  Customers = {c}
  Products = {p, q}
  Bought = {p}
  Phones = {d}
  Orders = {o}
  Workers = {w1, w2}
  Scheduler = Scheduler
  Gone = Gone
  MaxRequests = 2
  MaxDeletions = 1
  MaxFaults = 1
SYMMETRY Symmetry
INVARIANTS
  DataTypeOK
  NoOrphanForgotten
CHECK_DEADLOCK FALSE
