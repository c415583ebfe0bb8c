SPECIFICATION Spec
CONSTANTS
  c1 = c1
  c2 = c2
  File = {f1, f2}
  Content = {c1, c2}
  Size <- MCSize
  Guarded = {c2}
  TwoWay = TRUE
  ForceSync = FALSE
  AbortPercent = 50
  MaxAttempts = 2
  Edits = 1
  WebChanges = 1
  Faults = 1
  Crashes = 1
  Budget <- MCBudget
  Absent = Absent
SYMMETRY FileSymmetry
INVARIANTS
  TypeOK
  TrackedHasHash
PROPERTIES
  NeverListedNeverDeleted
  BreakerHolds
  TombstonesRespected
