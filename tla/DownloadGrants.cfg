SPECIFICATION Spec
CONSTANTS
  Path = {p1, p2}
  Req = {r1, r2, r3}
  Minutes <- MCMinutes
  NoPath = NoPath
  MaxTime = 2
SYMMETRY MCSymmetry
INVARIANTS GrantInv
