SPECIFICATION FairSpec
CONSTANTS
  Timeout = 2
  Faults = {"load"}
PROPERTY TimeLimitHolds
