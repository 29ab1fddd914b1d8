SPECIFICATION GuardsSpec
CONSTANTS
  Web = {g1}
  MaxApps = 1
  Requests = {r1, r2}
  Amounts = {0, 2}
  Limit <- Limits
SYMMETRY Interchangeable
INVARIANTS
  WithinLimit
