SPECIFICATION Spec
CONSTANTS
  Workers = {w1, w2}
  Clients = {c1, c2, c3}
  Schedules = {s1, s2}
  Drafts = {d1}
  None = None
  MaxAttempts = 1
  MaxFaults = 2
CONSTRAINT SeveralOfOneKind
SYMMETRY Symmetry
INVARIANTS NothingBehindTheUsersBack SentWasAccepted
PROPERTY SettledForGood
CHECK_DEADLOCK FALSE
