SPECIFICATION FaultySpec
CONSTANTS
  Workers = {w1}
  Clients = {c1, c2}
  Schedules = {s1}
  Drafts = {d1}
  None = None
  MaxAttempts = 1
  MaxFaults = 1
INVARIANT CanceledStaysUnsent
CHECK_DEADLOCK FALSE
