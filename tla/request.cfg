SPECIFICATION Spec
CONSTANTS
  None = None
  Users <- AllUsers
  Inventories <- SomeInventories
INVARIANTS
  TypeOK
  PreparedForBuild
  DevicesAsAsked
  CrashOnlyWithoutSource
  NicsReachable
  NamesSingleOut
CHECK_DEADLOCK FALSE
