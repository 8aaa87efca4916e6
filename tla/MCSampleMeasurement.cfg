SPECIFICATION MeasurementSpec
CONSTANTS
  Ids = {a, b, c}
  NoId = NoId
  Blank = Blank
  MaxLines = 3
  MaxSamples = 2
SYMMETRY Symmetry
INVARIANTS
  ScoreHasEvidence
  EvidenceInPlace
  ReportAccountsForRows
  HonestAnswerAccepted
\* A run ends.
CHECK_DEADLOCK FALSE
