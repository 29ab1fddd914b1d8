SPECIFICATION Spec
CONSTANTS
  Web = {g1, g2}
  Codes = {c1, c2}
  NoCode = NoCode
  MaxAttempts = 2
  MaxIssues = 1
  MaxCrashes = 0
SYMMETRY Workers
INVARIANTS
  SingleUse
