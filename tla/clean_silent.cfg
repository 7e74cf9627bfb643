SPECIFICATION Spec
CONSTANTS
  Configs <- CleanConfigs
  MayInterrupt = FALSE
INVARIANT
  CleanFailureReported
CHECK_DEADLOCK FALSE
