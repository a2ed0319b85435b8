SPECIFICATION Spec
CONSTANTS
  Runner = {r1, r2}
  Newest = 4
  Release = {1, 3, 4}
  Destructive = {4}
  Breaking = {2}
  r1 = r1
  r2 = r2
SYMMETRY Symmetry
CHECK_DEADLOCK FALSE
INVARIANT OldCodeSurvives
