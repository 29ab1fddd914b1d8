SPECIFICATION FairSpec
CHECK_DEADLOCK FALSE
CONSTANTS
  Wallets <- TwoWallets
  Keys <- ClosingKeys
  Calls <- ClosingCalls
  Opening <- Balances
  Web = {g1, g2}
  Celery = {c1}
  NoProc = NoProc
  NoCall = NoCall
  MaxCrashes = 1
CONSTRAINT OnePair
PROPERTY
  EveryRequestCloses
