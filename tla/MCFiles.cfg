SPECIFICATION FairSpec
CONSTANTS
  MaxThings = 5
  TooLong = {5}
  MaxOpen = 3
  Size = 5
  BufferSize = 3
INVARIANTS
  TypeOK
  OutsideSpared
  OnlyTooDeepLeft
  CopyFaithful
  DescriptorsReturned
PROPERTIES
  UpperPrepared
  EveryStepCounts
  PrepareEnds
\* launch goes on when the copy is done
CHECK_DEADLOCK FALSE
