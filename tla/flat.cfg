CONSTANTS
  Scripts = {s1, s2}
SPECIFICATION Spec
SYMMETRY ScriptSymmetry
CHECK_DEADLOCK FALSE
INVARIANTS AllOkIsFlat
