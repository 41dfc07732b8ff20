SPECIFICATION FairSpec
CONSTANTS
  Workers = {w1}
  Clients = {c1}
  Schedules = {s1}
  Drafts = {d1}
  None = None
  MaxAttempts = 1
  MaxFaults = 0

PROPERTY UncertainStaysUnsent
CHECK_DEADLOCK FALSE
