SPECIFICATION Spec
CONSTANTS
  Wallets <- TwoWallets
  Keys <- LockKeys
  Calls <- LockCalls
  Opening <- NothingYet
  NoCall = NoCall
  Web = {g1, g2}
  Celery = {c1}
SYMMETRY Workers
INVARIANTS
  NoDeadlock
