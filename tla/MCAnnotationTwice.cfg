SPECIFICATION Spec
CONSTANTS
  Annotators = {a1, a2}
  Exporters = {}
  Senders = {}
  Sets = {f1}
  Samples = {s1}
  Selections <- AnySelection
  Reviewers = {v1}
  Notes = {n1, n2}
  AnnIds = {i1, i2}
  Datasets = {t1, t2}
  None = None
  MaxCrashes = 0
INVARIANT
  OneAnnotationPerReviewer
