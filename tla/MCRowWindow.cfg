SPECIFICATION Spec
CONSTANTS
  Runs = {r1, r2, r3}
  Size = 1
  Reviewers = {p, q}
  Annotators = {t1, t2}
  Pagers = {c1}
  SampleIds = {1, 2, 3}
  AnnotationIds = {1, 2, 3}
  SetIds = {s1}
  Keys = {k1}
  None = None
  SampleWindow = 2
  AnnotationWindow = 2
  PageSize = 1
  MaxVersion = 2
SYMMETRY Symmetry
CONSTRAINT Apart
INVARIANTS
  ExportIsSelected
  PagingMissesNothing
  OneAnnotationWhileTheyFit
  ReplaysPassWhileTheyFit
  ExportIsCompleteWhileTheyFit
\* Once all rows exist and are exported, nothing is left to do.
CHECK_DEADLOCK FALSE
