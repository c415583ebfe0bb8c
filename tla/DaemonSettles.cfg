SPECIFICATION Spec
CONSTANTS
  c1 = c1
  c2 = c2
  File = {f1}
  Content = {c1, c2}
  Size <- MCSize
  Guarded = {}
  TwoWay = TRUE
  ForceSync = TRUE
  AbortPercent = 50
  MaxAttempts = 2
  Edits = 2
  WebChanges = 0
  Faults = 1
  Crashes = 1
  Budget <- MCBudget
  Absent = Absent
PROPERTIES
  DeletionsSettle
  RetriesEnd
