SPECIFICATION OutboxSpec
CONSTANTS
  Messages = {1}
  Unhandled = {}
  Drainers = {d1}
  BatchSize = 2
  MaxAttempts = 2
  MaxCrashes = 3
INVARIANTS
  NoTryAfterTheLast
\* Once every message is settled nothing is left to do.
CHECK_DEADLOCK FALSE
