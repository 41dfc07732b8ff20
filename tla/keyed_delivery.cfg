SPECIFICATION FairSpec
CONSTANTS
  Calls = {c1, c2, c3}
  RestCalls = {c1, c2}
  Keys = {k1}
  Requests = {r1, r2}
  Later = {r2}
  None = None
  MaxFaults = 2
INVARIANT KeyedSafety
PROPERTY SendingEnds
CHECK_DEADLOCK FALSE
