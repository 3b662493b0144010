SPECIFICATION LiveSpec
CONSTANTS
  Deliveries = {d1, d2, d3}
  Persistent = {d1, d2}
  Pollers = {p1, p2}
  MaxRetries = 3
  BatchSize = 2
  MaxFaults = 1
CHECK_DEADLOCK FALSE
INVARIANTS
  QueueKept
PROPERTIES
  Delivers
