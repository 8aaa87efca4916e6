SPECIFICATION InputSpec
CONSTANTS
  c1 = c1
  c2 = c2
  c3 = c3
  o1 = o1
  o2 = o2
  k1 = k1
  i1 = i1
  i2 = i2
  b1 = b1
  b2 = b2
  b3 = b3
  Calls = {c1, c2, c3}
  Evaluators = {c1, c2}
  Runs = {r1, r2, r3}
  Keys = {o1, o2, k1}
  NoKey = NoKey
  KeysOf <- EvaluationKeys
  Bodies = {b1, b2, b3}
  NoBody = NoBody
  NoRun = NoRun
  Faults = {"handled"}
  Managed = FALSE
  MaxCrashes = 1
  Inputs = {i1, i2}
  OwnKey <- Own
  BodiesOf <- SnapshotBodies
  Nobody = Nobody
  MaxVersion = 3
SYMMETRY Symmetry
INVARIANTS
  LinkIsOwn
  EvaluatedOnce
  LinkIsFinal
PROPERTY
  InputAdvances
\* The supply of run ids is finite: once it is used up, no call is submitted.
CHECK_DEADLOCK FALSE
