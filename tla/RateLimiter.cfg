SPECIFICATION Spec
CONSTANTS
  Req = {r1, r2}
  MaxFailures = 2
  Window = 2
  LockTime = 2
  ChatMax = 3
  ChatWindow = 2
  ChatLock = 4
  MaxWait = 1
  MaxTime = 6
SYMMETRY MCSymmetry
INVARIANTS FailuresBounded BurstBounded
PROPERTIES LockOpenedOnlyByEarlierCheck FailuresForgottenOnlyInTime
