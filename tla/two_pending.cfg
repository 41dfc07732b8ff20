SPECIFICATION Spec
CONSTANTS
  Workers = {w1}
  Clients = {c1, c2}
  Schedules = {s1, s2}
  Drafts = {d1}
  None = None
  MaxAttempts = 1
  MaxFaults = 0

INVARIANT OnePendingPerDraft
CHECK_DEADLOCK FALSE
