SPECIFICATION FairSpec
CONSTANTS
  Ids = {1, 2, 3, 4}
  MaxNow = 1
  Queries <- Filters
  PageSizes <- Sizes
  MaxPageSize = 2
CONSTRAINT OneReader
INVARIANTS
  TypeOK
  Descending
  NothingSkipped
  WalkInv
  StatementComplete
PROPERTIES
  WalkEnds
CHECK_DEADLOCK FALSE
