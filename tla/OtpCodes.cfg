SPECIFICATION Spec
CONSTANTS
  Web = {g1, g2, g3}
  Codes = {c1, c2}
  NoCode = NoCode
  MaxAttempts = 2
  MaxIssues = 2
  MaxCrashes = 1
SYMMETRY Workers
INVARIANTS
  TypeOK
  DeadStaysDead
  TriesBounded
  OtpInv
