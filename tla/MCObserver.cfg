\* after a failed poll, RECV may wait for ever
CHECK_DEADLOCK FALSE
SPECIFICATION Spec
CONSTANTS
  t1 = t1
  t2 = t2
  d1 = d1
  Threads = {t1, t2}
  First = t1
  Descendants = {d1}
  Capacity = 2
  PollFails = TRUE
  MaxCalls = 4
  MaxSignals = 1
INVARIANTS
  TypeOK
  NothingLost
  LoggedBeforeDenied
PROPERTY
  RecordKept
