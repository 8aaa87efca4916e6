SPECIFICATION Spec
CONSTANTS
  Calls = {c1, c2}
  Ids = {i1, i2, i3, i4}
  Keys = {k1}
  NoKey = NoKey
  Workspaces = {w1, w2}
  Nobody = Nobody
  None = None
  MaxStarts = 1
SYMMETRY Symmetry
INVARIANTS
  LineageHasOneOwner
  OwnRowsAreSeen
PROPERTY
  OwnerIsFixed
CHECK_DEADLOCK FALSE
