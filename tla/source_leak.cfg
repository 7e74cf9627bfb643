SPECIFICATION Spec
CONSTANTS
  Configs <- UploadConfigs
  MayInterrupt = FALSE
INVARIANT
  SourceImagesDeleted
CHECK_DEADLOCK FALSE
