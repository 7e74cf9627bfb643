SPECIFICATION Spec
CONSTANTS
  Configs <- ForceDeleteConfigs
  MayInterrupt = TRUE
INVARIANT
  ForceDeleteOnCancel
CHECK_DEADLOCK FALSE
