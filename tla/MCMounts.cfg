SPECIFICATION Spec
CONSTANT MaxRuns = 3
INVARIANTS
  TypeOK
  RootIsOverlay
  RootIsOwn
  NothingOfOthers
  HostKept
