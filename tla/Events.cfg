SPECIFICATION FairSpec
CONSTANTS
  Wallets = {1, 2}
  transfer = transfer
  withdrawal = withdrawal
  Txns = {transfer, withdrawal}
  Rows <- TheRows
  Opening <- OneUnit
  Readers = {r1, r2}
INVARIANTS
  TypeOK
  SpendsCovered
  ShownWasTrue
  TasksFindTheirEntries
  PushedOnce
PROPERTIES
  CacheCatchesUp
  EveryEntryHandled
CHECK_DEADLOCK FALSE
