SPECIFICATION Spec
CONSTANTS
  Configs <- PlainConfigs
  MayInterrupt = FALSE
INVARIANT
  CrashedVMKept
CHECK_DEADLOCK FALSE
