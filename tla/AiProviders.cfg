SPECIFICATION Spec
CONSTANTS
  Provider = {a, b, c}
  Req = {r1, r2}
  NoProvider = NoProvider
  MaxText = 1
SYMMETRY MCSymmetry
PROPERTIES OneDefault AssignmentHonoured SummaryGoesBackOnlyByOverlap
