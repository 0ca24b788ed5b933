SPECIFICATION Spec
CONSTANTS
  Benign = {"ls", "vi"}
  Malware = {"ls", "mirai"}
  Unusual = {"mirai"}
  BatchSize = 2
INVARIANT
  TrainsOnRaw
