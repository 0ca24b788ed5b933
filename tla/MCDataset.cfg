SPECIFICATION FairSpec
CONSTANTS
  Benign = {"ls", "vi"}
  Malware = {"ls", "mirai"}
  Unusual = {"mirai"}
  BatchSize = 2
INVARIANTS
  TypeOK
  CollectionComplete
  VerdictOfWholeModel
PROPERTY
  FirstTrainingLearns
