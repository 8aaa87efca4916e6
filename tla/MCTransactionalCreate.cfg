SPECIFICATION Spec
CONSTANTS
  Calls = {c1, c2, c3}
  Ids = {i1, i2, i3}
  Keys = {k1, k2}
  NoKey = NoKey
  Bodies = {b1, b2}
  None = None
  MaxCrashes = 1
SYMMETRY Symmetry
INVARIANTS
  FailureLeavesNothing
  NeverCorrupt
PROPERTY
  KeepsPromise
\* The supply of ids is finite: once it is used up, no request arrives.
CHECK_DEADLOCK FALSE
