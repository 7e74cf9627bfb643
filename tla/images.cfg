SPECIFICATION Spec
CONSTANTS
  Configs <- ImageConfigs
  MayInterrupt = FALSE
INVARIANTS
  CapturedWithoutCdRoms
  ArtifactExists
  BorrowedImagesDeleted
PROPERTIES
  OnlyNamedImagesDeleted
  NeverLoops
CHECK_DEADLOCK FALSE
