SPECIFICATION GuardsSpec
CONSTANTS
  Web = {g1, g2}
  MaxApps = 2
  Requests = {r1, r2}
  Amounts = {0, 2}
  Limit <- Limits
SYMMETRY Interchangeable
INVARIANTS
  GuardsTypeOK
  BarredOpensNothing
  LevelIsApproved
PROPERTIES
  AloneWithinLimit
  OverturnedByRace
