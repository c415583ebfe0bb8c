SPECIFICATION Spec
CONSTANTS
  Group = {g1, g2, g3}
  Name = {n1, n2}
  Long = {n2}
  Blank = Blank
  File = {f1, f2}
  Req = {r1, r2}
  Unborn = Unborn
  Deleted = Deleted
  NoGroup = NoGroup
SYMMETRY MCSymmetry
INVARIANTS GroupInv
PROPERTIES LostOnlyByOverlap
