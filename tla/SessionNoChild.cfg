SPECIFICATION Spec
CONSTANTS
  Timeout = 2
  Faults = {"copy"}
INVARIANT CleanupKillsChild
