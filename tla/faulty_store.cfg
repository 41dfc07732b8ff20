SPECIFICATION FaultyFairSpec
CONSTANTS
  Workers = {w1, w2}
  Clients = {c1}
  Schedules = {s1}
  Drafts = {d1}
  None = None
  MaxAttempts = 1
  MaxFaults = 2
INVARIANT OutcomesAreTrue
PROPERTIES KeepsPromise Drains
CHECK_DEADLOCK FALSE
