SPECIFICATION Spec
CONSTANTS
  Calls = {c1, c2, c3}
  Data = {d1, d2}
  None = None
  MaxCrashes = 2
SYMMETRY Symmetry
INVARIANTS
  AloneIsExact
  StagingIsClean
