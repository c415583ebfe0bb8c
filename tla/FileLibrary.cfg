SPECIFICATION Spec
CONSTANTS
  c1 = c1
  c2 = c2
  plain = plain
  recovered = recovered
  Id = {r1, r2}
  Dir = {root, sub}
  Root = root
  NoDir = NoDir
  Name = {plain, recovered}
  Recovered <- MCRecovered
  Content = {c1, c2}
  Size <- MCSize
  Guarded = {c2}
  Quota = 2
  Retention = 1
  LockLimit = 1
  MaxMessages = 1
  NoFile = NoFile
  NoHash = NoHash
SYMMETRY IdSymmetry
INVARIANT TypeOK
PROPERTIES
  OrphansOnlyByRestore
  LockProtects
  LifecycleSpec
  CollisionsOnlyByEditOrBatch
  DuplicatesOnlyByRestoreOrScan
  QuotaPassedOnlyByThese
  ContentLostOnlyAtItsPath
