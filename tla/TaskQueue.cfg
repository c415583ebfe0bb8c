SPECIFICATION Spec
CONSTANTS
  twice = twice
  thrice = thrice
  unknown = unknown
  Job = {twice, thrice, unknown}
  Worker = {w1, w2}
  Known = {twice, thrice}
  MaxAttempts <- MCMaxAttempts
  BackoffBase = 1
  Delay = {0, 2}
  MaxCrashes = 1
  MaxStops = 1
  NoJob = NoJob
INVARIANTS
  TypeOK
  RunsBounded
  HeldOrLost
PROPERTIES
  JobsEnd
