SPECIFICATION Spec
CONSTANTS
  Annotators = {a1}
  Exporters = {x1, x2}
  Senders = {d1, d2}
  Sets = {f1}
  Samples = {s1}
  Selections <- AnySelection
  Reviewers = {v1}
  Notes = {n1, n2}
  AnnIds = {i1}
  Datasets = {t1, t2}
  None = None
  MaxCrashes = 1
SYMMETRY Symmetry
INVARIANTS
  OnePreparationPerSet
  HandoffConfirmed
  ReceiptsAgree
  RetryMatches
PROPERTY
  FinalAlone
