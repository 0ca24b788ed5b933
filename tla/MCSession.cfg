SPECIFICATION FairSpec
CONSTANTS
  Timeout = 2
  Faults <- AnyFault
INVARIANTS
  TypeOK
  HeldUntilReady
  NoLeftovers
  LiveChildCutByTimeout
  KillHitsOnlyChild
  NothingLeftBehind
  NobodyWaitsInVain
PROPERTIES
  RunKept
  UpperPrepared
  MainEnds
  TargetEndedByTimeout
  OrphanIsReleased
