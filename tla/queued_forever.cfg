SPECIFICATION FairSpec
CONSTANTS
  Workers = {w1}
  Clients = {c1, c2}
  Schedules = {s1, s2}
  Drafts = {d1}
  None = None
  MaxAttempts = 1
  MaxFaults = 0

PROPERTY QueuedIsDecided
CHECK_DEADLOCK FALSE
