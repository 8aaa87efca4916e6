SPECIFICATION FairSpec
CONSTANTS
  Processes = {p1, p2}
  Ids = {i1, i2}
  Keys = {k1}
  Workspaces = {w1, w2}
  Null = Null
  Unscoped = Unscoped
  None = None
  MaxFailures = 2
INVARIANTS
  RowsSurvive
  ServesOnlyCurrent
PROPERTIES
  MigratesAtOnce
  ServedAtLast
CHECK_DEADLOCK FALSE
