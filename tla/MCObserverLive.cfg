SPECIFICATION FairSpec
CONSTANTS
  t1 = t1
  t2 = t2
  d1 = d1
  Threads = {t1, t2}
  First = t1
  Descendants = {d1}
  Capacity = 2
  PollFails = FALSE
  MaxCalls = 3
  MaxSignals = 1
INVARIANT
  ReceiveNeverBlocks
PROPERTIES
  TimeLimitPressed
  TurnComes
  WaitEnds
  LoopEnds
