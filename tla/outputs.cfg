SPECIFICATION FairSpec
CONSTANTS
  b1 = b1
  b2 = b2
  Builds = {b1, b2}
  Nobody = Nobody
  Exporter = b1
  Tries = 2
  OldOvas = 1
  Scenarios <- SomeScenarios
  Libraries <- SomeLibraries
INVARIANTS
  TypeOK
  OwnOutputStays
  OlderCopyExplained
  LastWriterStays
  FilesWholeOrGone
  OlderOvaExplained
PROPERTIES
  ExportImplementsStep
  StopEndsExport
  SignalHeard
  CopierEnds
CHECK_DEADLOCK FALSE
