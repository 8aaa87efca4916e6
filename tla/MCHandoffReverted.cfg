SPECIFICATION Spec
CONSTANTS
  Annotators = {}
  Exporters = {x1}
  Senders = {d1}
  Sets = {f1}
  Samples = {s1}
  Selections <- AnySelection
  Reviewers = {v1}
  Notes = {n1, n2}
  AnnIds = {i1}
  Datasets = {t1, t2}
  None = None
  MaxCrashes = 0
PROPERTY
  HandoffIsFinal
