SPECIFICATION Spec
CONSTANTS
  b1 = b1
  b2 = b2
  u1 = u1
  u2 = u2
  s1 = s1
  s2 = s2
  None = None
  Builds = {b1, b2}
  Uris = {u1, u2}
  Sums = {s1, s2}
  Confs <- AllConfs
  Libraries <- SomeLibraries
SYMMETRY BuildSymmetry
INVARIANTS
  TypeOK
  PickedImageStays
  PickedSumFits
  UploadsKeptApart
  OwnImagesDeleted
CHECK_DEADLOCK FALSE
