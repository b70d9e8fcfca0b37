CONSTANTS
  Maintainers = {m1, m2, m3}
  None = None
  MaxTag = 2
SPECIFICATION Spec
SYMMETRY MaintainerSymmetry
CHECK_DEADLOCK FALSE
INVARIANTS ReleaseTypeOK AnnouncedTagIsOwn OnlyLosersStuck
PROPERTIES LatestFallsOnlyOnOverlap LoserStaysOut
