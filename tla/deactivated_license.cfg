SPECIFICATION FairLifecycleSpec
CONSTANTS
  Keys = {k1}
  NoKey = NoKey
  Requests = {q1}
  Mails = {}
INVARIANTS DeactivatedIsPersonal
CHECK_DEADLOCK FALSE
