SPECIFICATION Spec
CONSTANTS
  Wanted = {a1, a2}
  Other = {b1}
  None = None
INVARIANTS
  TypeOK
  IpIsUsable
  IpIsSettled
PROPERTIES
  ImplementsStep
  PollerEnds
  StepReturns
CHECK_DEADLOCK FALSE
