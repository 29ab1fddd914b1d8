SPECIFICATION GateSpec
CONSTANTS
  Admins = {a1, a2}
  Nobody = Nobody
  Parties = {ann, bob, payee}
  Payee = payee
  MaxBlocks = 2
  Web = {g1, g2}
  Tokens = {qr}
CONSTRAINT SmallCases
SYMMETRY Interchangeable
INVARIANTS
  GateTypeOK
  GateInv
  BlockedOpensNothing
  BlockedUserSettlesNothing
  CodeOpensOnce
  StaleCodeOpensNothing
PROPERTIES
  AuditKept
CHECK_DEADLOCK FALSE
