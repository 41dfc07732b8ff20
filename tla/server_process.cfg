SPECIFICATION ProcessSpec
CONSTANTS
  Loops = {l1, l2}
  Rows = {r1, r2}
  None = None
  MaxFaults = 1
  Keys = {k1, k2}
  NoKey = NoKey
  Requests = {q1, q2}
  Mails = {m1}
INVARIANTS LoopInv ClosedWhenDrained AnnouncedKeyTried
PROPERTIES DueIsServed ServerProgress
