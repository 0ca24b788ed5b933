SPECIFICATION Spec
CONSTANTS
  Threads = {"t1"}
  First = "t1"
  Descendants = {}
  Capacity = 3
  PollFails = FALSE
  MaxCalls = 3
  MaxSignals = 0
INVARIANT NeighboursInOrder
