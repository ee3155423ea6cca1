CONSTANTS
  None = None
  Missing = Missing
  Files = 2
  Contents <- MCContents
  Registries <- MCRegistries
  NewHash = "h9"
  MaxReleases = 1
  FirstYear = 2022
  LastYear = 2025
  MaxEdits = 2
  LinkFiles = 4
  Documentations <- MCDocumentations
  MAX_WORKERS = 2
  RoundTimeoutSeconds = 6
  ResetPauseDuration = 8
  BlockTime = 2
  StallTolerance = 3
  Horizon = 17
  Unknown = Unknown
SPECIFICATION ChecksSpec
CHECK_DEADLOCK FALSE
INVARIANTS
  TwoFixesSuffice
  CheckTruthful
  LinksExamined
  HealthInv
  NoFalseAlarm
PROPERTIES
  HeaderSettles
  StartYearKept
  LinkCheckEnds
  StuckReported
