CONSTANTS
  Maintainers = {m1, m2}
  None = None
  MaxTag = 3
SPECIFICATION Spec
SYMMETRY MaintainerSymmetry
CHECK_DEADLOCK FALSE
INVARIANTS LatestIsNewest
