\* the program goes on in main when the export is done
CHECK_DEADLOCK FALSE
SPECIFICATION Spec
CONSTANTS
  Half = 2
  Streams <- ShortStreams
INVARIANTS
  TypeOK
  ExportDecodes
