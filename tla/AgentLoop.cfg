SPECIFICATION Spec
CONSTANTS
  r1 = r1
  r2 = r2
  p1 = p1
  p2 = p2
  Run = {r1, r2}
  Path = {p1, p2}
  Endpoint <- MCEndpoint
  Secret = {p1}
  Batch <- MCBatch
  MaxRounds = 2
  MaxOpen = 3
  StateSent = TRUE
INVARIANTS
  CallsAnswered
PROPERTIES
  PurgeOnlyGranted
  ReportLostOnlyByFailure
  TokensLostOnlyAtTheEnd
SYMMETRY RunSymmetry
