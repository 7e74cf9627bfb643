SPECIFICATION FairSpec
CONSTANTS
  Configs <- LifecycleConfigs
  MayInterrupt = TRUE
INVARIANTS
  TypeOK
  BagReadsDefined
  CaptureOnlyPoweredOff
  FailedVMKept
  NoVMLeftBehind
  HaltsAreExplained
PROPERTIES
  ImplementsStepRunner
  Termination
CHECK_DEADLOCK FALSE
